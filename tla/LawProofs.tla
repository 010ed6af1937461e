------------------------------ MODULE LawProofs ------------------------------
(* What the sources of the tools promise: the stored versions of a law, for any *)
(* lists of the ministry, any number of days and any failures of ministry and  *)
(* database; the collected customs cases, for lists, pages and chunks of any    *)
(* length; and the evidence that the tools load, for any threads and days.     *)
(*                                                                            *)
(* That a change of use has been reported compares what two tools took on two  *)
(* days with what a check compared in between.  The invariant ties each of     *)
(* these to the list in the database while a check wrote it last: the version  *)
(* used today is the one in force in it (UsesFit), that of yesterday is the    *)
(* one the next check compares with (YesterdayFits, BeforeFits), and what a    *)
(* check found is what it has stored (FoundFits).                             *)
(*                                                                            *)
(* That a collected case is not deleted while it is in the list rests on two   *)
(* things that hold while the pages are read: as long as no more cases came    *)
(* than a page holds, what is behind the first page was in the list when the    *)
(* run began (NewsAreFirst), and what was seen are cases of then (SeenFits).    *)
(* So as many cases seen as the first page said there are is all of them.      *)
(*                                                                            *)
(* Evidence stands on what the look-ups find: a piece found for a need comes    *)
(* from the place of the need (FoundAtPlace), so that a change there which      *)
(* takes it away, doubles it or moves it shows in how many are found           *)
(* (AvailableIsWhole); the invariant of the loader is that what is kept and     *)
(* served was available (EvidenceStands) and that who reads holds the lock.     *)
EXTENDS LawLibrary, FiniteSetTheorems, TLAPS

CONSTANTS
  \* CaseIngest
  FirstList, FirstStored, LastCase, Withdrawals, Runs, PageSize, ChunkSize, WithoutCode,
  \* EvidenceLoad
  None, LoadThread, FirstThread, AllThreads, Days, Ttl, LoadsEach, LastTick

VARIABLES published, withdrawn, cases, ingest, evidenceOf, clock, lock, cached, loading, served

Cases == INSTANCE CaseIngest

Load == INSTANCE EvidenceLoad

-----------------------------------------------------------------------------
(* The versions of a law.                                                     *)

(* The fields of the three records.                                           *)
Records ==
  /\ stored = [known |-> stored.known, list |-> stored.list, expires |-> stored.expires,
               by |-> stored.by, whole |-> stored.whole]
  /\ check = [running |-> check.running, last |-> check.last, before |-> check.before,
              found |-> check.found, todo |-> check.todo, kept |-> check.kept]
  /\ used = [yesterday |-> used.yesterday, today |-> used.today]

Switches ==
  /\ dbUp \in BOOLEAN /\ checked \in BOOLEAN /\ check.running \in BOOLEAN /\ check.kept \in BOOLEAN
  /\ stored.known \in BOOLEAN /\ stored.whole \in BOOLEAN

DaysFit == day \in Nat /\ check.last \in 0..day /\ (check.running => check.last = day)

Types == Records /\ Switches /\ DaysFit

(* What is stored is an answer that was accepted.                             *)
StoredFits ==
  /\ stored.known => Accepts(stored.list)
  /\ stored.by = "check" => stored.known
  /\ reader.phase = "write" => Accepts(reader.list)

(* The texts a check has stored so far.                                       *)
TextsFit == check.running /\ check.kept => Ids(check.found.items) \ check.todo \subseteq bodies

ReaderFits == reader.phase = "text" => reader.version = SelectVersion(reader.list, reader.day)

UsesFit ==
  used.today # NoVersion =>
    /\ check.last = day /\ ~check.running
    /\ stored.by = "check" => used.today = SelectVersion(stored.list, day)

YesterdayFits ==
  check.last # day /\ stored.by = "check" /\ used.yesterday # NoVersion =>
    used.yesterday = SelectVersion(stored.list, day - 1)

BeforeFits ==
  check.running /\ check.before.by = "check" =>
    /\ check.before.known
    /\ used.yesterday # NoVersion => used.yesterday = SelectVersion(check.before.list, day - 1)

FoundFits ==
  check.running /\ check.before.by = "check" /\ stored.by = "check" => stored.list = check.found

(* A tool that uses the list from now on uses what has been reported.          *)
NextUseReported ==
  checked =>
    /\ check.last = day /\ ~check.running
    /\ LET next == SelectVersion(stored.list, day)
       IN stored.by = "check" /\ NoVersion \notin {used.yesterday, next} /\ used.yesterday # next
            => Change("applied", next, day) \in reported

Inv ==
  /\ Types /\ StoredFits /\ TextsFit /\ ReaderFits /\ UsesFit /\ YesterdayFits
  /\ BeforeFits /\ FoundFits /\ NextUseReported /\ TextsAreReady /\ ChangesOfUseReported

-----------------------------------------------------------------------------
LEMMA InitInv == Init => Inv
<1> SUFFICES ASSUME Init PROVE Inv
  OBVIOUS
<1>1. /\ day = 1 /\ dbUp = TRUE /\ bodies = {} /\ checked = FALSE
      /\ stored.known = FALSE /\ stored.whole = FALSE /\ stored.by = "nobody"
      /\ check.running = FALSE /\ check.kept = TRUE /\ check.last = 0
      /\ reader.phase = "idle" /\ used.yesterday = NoVersion /\ used.today = NoVersion
  BY DEF Init, NoList, NoCheck, NoReader
<1>2. Records
  BY DEF Init, NoList, NoCheck, Records
<1>3. Switches
  BY <1>1 DEF Switches
<1>4. DaysFit
  <2>1. day \in Nat /\ check.last \in 0..day
    BY <1>1
  <2> QED BY <1>1, <2>1 DEF DaysFit
<1>5. StoredFits /\ TextsFit /\ ReaderFits /\ UsesFit /\ YesterdayFits /\ BeforeFits /\ FoundFits
  BY <1>1 DEF StoredFits, TextsFit, ReaderFits, UsesFit, YesterdayFits, BeforeFits, FoundFits
<1>6. NextUseReported /\ TextsAreReady /\ ChangesOfUseReported
  BY <1>1 DEF NextUseReported, TextsAreReady, ChangesOfUseReported
<1> QED BY <1>2, <1>3, <1>4, <1>5, <1>6 DEF Inv, Types

(* Calendar, ministry and database.                                           *)
LEMMA NextDayKeeps == ASSUME Inv, NextDay PROVE Inv'
<1> USE DEF Inv
<1>1. /\ day' = day + 1 /\ checked' = FALSE /\ used' = [yesterday |-> used.today, today |-> NoVersion]
      /\ ~check.running /\ UNCHANGED <<dbUp, stored, bodies, check, reader>>
  BY DEF NextDay
<1>2. used'.yesterday = used.today /\ used'.today = NoVersion /\ day' - 1 = day /\ check'.last # day'
  BY <1>1 DEF Types, Records, Switches, DaysFit
<1>3. Types'
  <2>1. Records'
    BY <1>1, <1>2 DEF Types, Records
  <2>2. Switches'
    BY <1>1, <1>2 DEF Types, Switches
  <2>3. DaysFit'
    BY <1>1, <1>2 DEF Types, DaysFit
  <2> QED BY <2>1, <2>2, <2>3 DEF Types
<1>4. StoredFits' /\ TextsFit' /\ ReaderFits' /\ TextsAreReady'
  BY <1>1 DEF StoredFits, TextsFit, ReaderFits, TextsAreReady
<1>5. UsesFit' /\ NextUseReported' /\ ChangesOfUseReported'
  BY <1>1, <1>2 DEF UsesFit, NextUseReported, ChangesOfUseReported
<1>6. YesterdayFits'
  BY <1>1, <1>2 DEF YesterdayFits, UsesFit
<1>7. BeforeFits' /\ FoundFits'
  BY <1>1 DEF BeforeFits, FoundFits
<1> QED BY <1>3, <1>4, <1>5, <1>6, <1>7

(* What only the ministry, the database or the sink sees.                      *)
LEMMA OthersKeep ==
  ASSUME Inv, dbUp' \in BOOLEAN,
         UNCHANGED <<day, stored, bodies, check, checked, used, reported>>,
         UNCHANGED reader \/ reader'.phase \notin {"write", "text"}
           \/ (reader'.phase = "write" /\ Accepts(reader'.list))
           \/ (reader'.phase = "text" /\ reader'.version = SelectVersion(reader'.list, reader'.day))
  PROVE  Inv'
<1> USE DEF Inv
<1>1. Types' /\ StoredFits' /\ ReaderFits'
  BY DEF Types, Records, Switches, DaysFit, StoredFits, ReaderFits, Accepts
<1>2. TextsFit' /\ TextsAreReady' /\ UsesFit' /\ YesterdayFits' /\ BeforeFits' /\ FoundFits'
  BY DEF TextsFit, TextsAreReady, UsesFit, YesterdayFits, BeforeFits, FoundFits
<1>3. NextUseReported' /\ ChangesOfUseReported'
  BY DEF NextUseReported, ChangesOfUseReported
<1> QED BY <1>1, <1>2, <1>3

-----------------------------------------------------------------------------
(* The check.                                                                 *)
LEMMA CheckStopsKeeps ==
  ASSUME Inv, ~checked,
         check' = [NoCheck EXCEPT !.last = day],
         check.running \/ check.last # day,
         UNCHANGED <<day, dbUp, stored, bodies, checked, reader, used, reported>>
  PROVE  Inv'
<1> USE DEF Inv
<1>1. /\ check'.running = FALSE /\ check'.last = day /\ check'.kept = TRUE
      /\ check' = [running |-> check'.running, last |-> check'.last, before |-> check'.before,
                   found |-> check'.found, todo |-> check'.todo, kept |-> check'.kept]
  BY DEF NoCheck
<1>2. used.today = NoVersion
  BY DEF UsesFit
<1>3. Types'
  <2>1. Records'
    BY <1>1 DEF Types, Records
  <2>2. Switches'
    BY <1>1 DEF Types, Switches
  <2>3. DaysFit'
    BY <1>1 DEF Types, DaysFit
  <2> QED BY <2>1, <2>2, <2>3 DEF Types
<1>4. StoredFits' /\ TextsFit' /\ ReaderFits' /\ TextsAreReady'
  BY <1>1 DEF StoredFits, TextsFit, ReaderFits, TextsAreReady
<1>5. UsesFit' /\ YesterdayFits' /\ BeforeFits' /\ FoundFits' /\ NextUseReported' /\ ChangesOfUseReported'
  BY <1>1, <1>2 DEF UsesFit, YesterdayFits, BeforeFits, FoundFits, NextUseReported, ChangesOfUseReported
<1> QED BY <1>3, <1>4, <1>5

LEMMA CheckListKeeps == ASSUME Inv, CheckList PROVE Inv'
<1> USE DEF Inv
<1>1. /\ check.last # day /\ ~check.running /\ Accepts(ministry)
      /\ check' = [running |-> TRUE, last |-> day, before |-> Cached, found |-> ministry,
                   todo |-> TextsOf(ministry), kept |-> dbUp]
      /\ stored' = IF dbUp THEN Stored(ministry, "check") ELSE stored
      /\ UNCHANGED <<day, dbUp, bodies, checked, reader, used, reported>>
  BY DEF CheckList, Write
<1>2. /\ check'.running = TRUE /\ check'.last = day /\ check'.before = Cached /\ check'.found = ministry
      /\ check'.todo = Ids(ministry.items) /\ check'.kept = dbUp
  BY <1>1 DEF TextsOf
<1>3. ~checked /\ used.today = NoVersion
  BY <1>1 DEF NextUseReported, UsesFit
<1>4. CASE dbUp
  <2>1. /\ stored'.known = TRUE /\ stored'.list = ministry /\ stored'.by = "check" /\ stored'.whole = FALSE
        /\ stored' = [known |-> stored'.known, list |-> stored'.list, expires |-> stored'.expires,
                      by |-> stored'.by, whole |-> stored'.whole]
        /\ Cached = stored
    BY <1>1, <1>4 DEF Stored, Cached
  <2>2. Types'
    <3>1. Records'
      BY <1>1, <1>2, <1>4, <2>1 DEF Types, Records
    <3>2. Switches'
      BY <1>1, <1>2, <1>4, <2>1 DEF Types, Switches
    <3>3. DaysFit'
      BY <1>1, <1>2, <1>4, <2>1 DEF Types, DaysFit
    <3> QED BY <3>1, <3>2, <3>3 DEF Types
  <2>3. StoredFits' /\ TextsFit' /\ ReaderFits' /\ TextsAreReady'
    BY <1>1, <1>2, <2>1 DEF StoredFits, TextsFit, ReaderFits, TextsAreReady, Accepts
  <2>4. BeforeFits'
    BY <1>1, <1>2, <2>1 DEF BeforeFits, YesterdayFits, StoredFits
  <2>5. UsesFit' /\ YesterdayFits' /\ FoundFits' /\ NextUseReported' /\ ChangesOfUseReported'
    BY <1>1, <1>2, <1>3, <2>1 DEF UsesFit, YesterdayFits, FoundFits, NextUseReported, ChangesOfUseReported
  <2> QED BY <2>2, <2>3, <2>4, <2>5
<1>5. CASE ~dbUp
  <2>1. stored' = stored /\ Cached.by = "nobody"
    BY <1>1, <1>5 DEF Cached, NoList
  <2>2. Types'
    <3>1. Records'
      BY <1>1, <1>2, <1>5, <2>1 DEF Types, Records
    <3>2. Switches'
      BY <1>1, <1>2, <1>5, <2>1 DEF Types, Switches
    <3>3. DaysFit'
      BY <1>1, <1>2, <1>5, <2>1 DEF Types, DaysFit
    <3> QED BY <3>1, <3>2, <3>3 DEF Types
  <2>3. StoredFits' /\ TextsFit' /\ ReaderFits' /\ TextsAreReady'
    BY <1>1, <1>2, <1>5, <2>1 DEF StoredFits, TextsFit, ReaderFits, TextsAreReady, Accepts
  <2>4. BeforeFits' /\ FoundFits'
    BY <1>2, <2>1 DEF BeforeFits, FoundFits
  <2>5. UsesFit' /\ YesterdayFits' /\ NextUseReported' /\ ChangesOfUseReported'
    BY <1>1, <1>2, <1>3, <2>1 DEF UsesFit, YesterdayFits, NextUseReported, ChangesOfUseReported
  <2> QED BY <2>2, <2>3, <2>4, <2>5
<1> QED BY <1>4, <1>5 DEF Types, Switches

LEMMA CheckTextKeeps == ASSUME Inv, CheckText PROVE Inv'
<1> USE DEF Inv
<1>1. PICK id \in check.todo:
        /\ check' = [check EXCEPT !.todo = @ \ {id}, !.kept = @ /\ dbUp]
        /\ bodies' = IF dbUp THEN bodies \cup {id} ELSE bodies
  BY DEF CheckText
<1>2. check.running /\ UNCHANGED <<day, dbUp, stored, checked, reader, used, reported>>
  BY DEF CheckText
<1>3. /\ check'.running = check.running /\ check'.last = check.last /\ check'.before = check.before
      /\ check'.found = check.found /\ check'.todo = check.todo \ {id} /\ check'.kept = (check.kept /\ dbUp)
      /\ check' = [running |-> check'.running, last |-> check'.last, before |-> check'.before,
                   found |-> check'.found, todo |-> check'.todo, kept |-> check'.kept]
  BY <1>1 DEF Types, Records, Switches, DaysFit
<1>4. bodies \subseteq bodies' /\ (dbUp => id \in bodies')
  BY <1>1
<1>5. Types'
  <2>1. Records'
    BY <1>2, <1>3 DEF Types, Records
  <2>2. Switches'
    BY <1>2, <1>3 DEF Types, Switches
  <2>3. DaysFit'
    BY <1>2, <1>3 DEF Types, DaysFit
  <2> QED BY <2>1, <2>2, <2>3 DEF Types
<1>6. TextsFit' /\ TextsAreReady'
  BY <1>2, <1>3, <1>4 DEF TextsFit, TextsAreReady
<1>7. StoredFits' /\ ReaderFits' /\ UsesFit' /\ YesterdayFits'
  BY <1>2, <1>3 DEF StoredFits, ReaderFits, UsesFit, YesterdayFits, Accepts
<1>8. BeforeFits' /\ FoundFits' /\ NextUseReported' /\ ChangesOfUseReported'
  BY <1>2, <1>3 DEF BeforeFits, FoundFits, NextUseReported, ChangesOfUseReported
<1> QED BY <1>5, <1>6, <1>7, <1>8

(* A check that compared with the list of another check reports what a tool    *)
(* that used that one yesterday did not use.                                  *)
LEMMA CheckEndsKeeps == ASSUME Inv, CheckEnds PROVE Inv'
<1> USE DEF Inv
<1>1. /\ check.running /\ check.todo = {} /\ check' = [NoCheck EXCEPT !.last = check.last]
      /\ checked' = (check.before.by = "check")
      /\ reported' = DetectChanges(check.before.known, check.before.list, check.found, day)
      /\ stored' = IF check.kept /\ stored.list = check.found /\ stored.by = "check"
                   THEN [stored EXCEPT !.whole = TRUE] ELSE stored
      /\ UNCHANGED <<day, dbUp, bodies, reader, used>>
  BY DEF CheckEnds
<1>2. /\ check'.running = FALSE /\ check'.last = day /\ check'.kept = TRUE
      /\ check' = [running |-> check'.running, last |-> check'.last, before |-> check'.before,
                   found |-> check'.found, todo |-> check'.todo, kept |-> check'.kept]
  BY <1>1 DEF NoCheck, Types, Records, Switches, DaysFit
<1>3. /\ stored'.known = stored.known /\ stored'.list = stored.list /\ stored'.by = stored.by
      /\ stored'.whole \in BOOLEAN
      /\ stored'.whole => stored.whole \/ (check.kept /\ stored.list = check.found)
      /\ stored' = [known |-> stored'.known, list |-> stored'.list, expires |-> stored'.expires,
                    by |-> stored'.by, whole |-> stored'.whole]
  BY <1>1 DEF Types, Records, Switches, DaysFit
<1>4. used.today = NoVersion
  BY <1>1 DEF UsesFit
<1>5. Types'
  <2>1. Records'
    BY <1>1, <1>2, <1>3 DEF Types, Records
  <2>2. Switches'
    BY <1>1, <1>2, <1>3 DEF Types, Switches
  <2>3. DaysFit'
    BY <1>1, <1>2, <1>3 DEF Types, DaysFit
  <2> QED BY <2>1, <2>2, <2>3 DEF Types
<1>6. StoredFits' /\ TextsFit' /\ ReaderFits'
  BY <1>1, <1>2, <1>3 DEF StoredFits, TextsFit, ReaderFits, Accepts
<1>7. TextsAreReady'
  BY <1>1, <1>3 DEF TextsAreReady, TextsFit
<1>8. UsesFit' /\ YesterdayFits' /\ BeforeFits' /\ FoundFits' /\ ChangesOfUseReported'
  BY <1>1, <1>2, <1>4 DEF UsesFit, YesterdayFits, BeforeFits, FoundFits, ChangesOfUseReported
<1>9. NextUseReported'
  <2> DEFINE next == SelectVersion(stored.list, day)
  <2> SUFFICES ASSUME check.before.by = "check", stored.by = "check",
                      NoVersion \notin {used.yesterday, next}, used.yesterday # next
               PROVE  Change("applied", next, day) \in reported'
    BY <1>1, <1>2, <1>3 DEF NextUseReported
  <2>1. stored.list = check.found
    BY <1>1 DEF FoundFits
  <2>2. check.before.known /\ used.yesterday = SelectVersion(check.before.list, day - 1)
    BY <1>1 DEF BeforeFits
  <2>3. Previously(check.before.known, check.before.list, check.found, day) = used.yesterday
    BY <2>2 DEF Previously
  <2> HIDE DEF next
  <2>4. next = SelectVersion(check.found, day)
    BY <2>1 DEF next
  <2>5. AppliedChange(used.yesterday, check.found, day) = {Change("applied", next, day)}
    BY <2>4 DEF AppliedChange
  <2> QED BY <1>1, <2>3, <2>5 DEF DetectChanges
<1> QED BY <1>5, <1>6, <1>7, <1>8, <1>9

-----------------------------------------------------------------------------
(* Tools that read the law.                                                   *)
LEMMA PickedFits ==
  ASSUME NEW as_of, NEW list
  PROVE  LET r == Picked(as_of, list)
         IN \/ r.phase = "unavailable"
            \/ r.phase = "text" /\ r.version = SelectVersion(r.list, r.day)
<1>1. CASE SelectVersion(list, as_of) = NoVersion
  BY <1>1 DEF Picked, NoReader
<1>2. CASE SelectVersion(list, as_of) # NoVersion
  BY <1>2 DEF Picked
<1> QED BY <1>1, <1>2

LEMMA ReadsKeep ==
  ASSUME Inv, ReadStored \/ ReadAnswered \/ ReadUnanswered \/ ReadTextFails \/ Leave
  PROVE  Inv'
<1>1. UNCHANGED <<day, dbUp, stored, bodies, check, checked, used, reported>>
  BY DEF ReadStored, ReadAnswered, ReadUnanswered, ReadTextFails, Leave
<1>2. \/ reader'.phase \notin {"write", "text"}
      \/ reader'.phase = "write" /\ Accepts(reader'.list)
      \/ reader'.phase = "text" /\ reader'.version = SelectVersion(reader'.list, reader'.day)
  <2>1. CASE ReadStored
    BY <2>1, PickedFits DEF ReadStored
  <2>2. CASE ReadAnswered
    <3>1. CASE Accepts(ministry)
      BY <2>2, <3>1 DEF ReadAnswered, NoReader
    <3>2. CASE ~Accepts(ministry)
      BY <2>2, <3>2, PickedFits DEF ReadAnswered
    <3> QED BY <3>1, <3>2
  <2>3. CASE ReadUnanswered
    <3>1. CASE StaleIsEnough(Cached)
      BY <2>3, <3>1, PickedFits DEF ReadUnanswered
    <3>2. CASE ~StaleIsEnough(Cached)
      BY <2>3, <3>2 DEF ReadUnanswered, NoReader
    <3> QED BY <3>1, <3>2
  <2>4. CASE ReadTextFails \/ Leave
    <3>1. CASE reader' = NoReader
      BY <3>1 DEF NoReader
    <3>2. CASE reader' = [NoReader EXCEPT !.phase = "failed"]
      BY <3>2 DEF NoReader
    <3> QED BY <2>4, <3>1, <3>2 DEF ReadTextFails, Leave
  <2> QED BY <2>1, <2>2, <2>3, <2>4
<1>3. dbUp' \in BOOLEAN
  BY <1>1 DEF Inv, Types, Records, Switches, DaysFit
<1> QED BY <1>1, <1>2, <1>3, OthersKeep

(* A tool that writes its list takes the place of the check's.                 *)
LEMMA ReadWritesKeeps == ASSUME Inv, ReadWrites PROVE Inv'
<1> USE DEF Inv
<1>1. /\ reader.phase = "write" /\ reader' = Picked(reader.day, reader.list)
      /\ stored' = IF dbUp THEN Stored(reader.list, "tool") ELSE stored
      /\ UNCHANGED <<day, dbUp, bodies, check, checked, used, reported>>
  BY DEF ReadWrites, Write
<1>2. \/ reader'.phase = "unavailable"
      \/ reader'.phase = "text" /\ reader'.version = SelectVersion(reader'.list, reader'.day)
  BY <1>1, PickedFits
<1>3. CASE ~dbUp
  BY <1>1, <1>2, <1>3, OthersKeep DEF Types, Records, Switches, DaysFit
<1>4. CASE dbUp
  <2>1. /\ stored'.known = TRUE /\ stored'.list = reader.list /\ stored'.by = "tool" /\ stored'.whole = FALSE
        /\ stored' = [known |-> stored'.known, list |-> stored'.list, expires |-> stored'.expires,
                      by |-> stored'.by, whole |-> stored'.whole]
    BY <1>1, <1>4 DEF Stored
  <2>2. Types'
    <3>1. Records'
      BY <1>1, <2>1 DEF Types, Records
    <3>2. Switches'
      BY <1>1, <2>1 DEF Types, Switches
    <3>3. DaysFit'
      BY <1>1, <2>1 DEF Types, DaysFit
    <3> QED BY <3>1, <3>2, <3>3 DEF Types
  <2>3. StoredFits' /\ TextsFit' /\ ReaderFits' /\ TextsAreReady'
    BY <1>1, <1>2, <2>1 DEF StoredFits, TextsFit, ReaderFits, TextsAreReady, Accepts
  <2>4. UsesFit' /\ YesterdayFits' /\ BeforeFits' /\ FoundFits' /\ NextUseReported' /\ ChangesOfUseReported'
    BY <1>1, <2>1 DEF UsesFit, YesterdayFits, BeforeFits, FoundFits, NextUseReported, ChangesOfUseReported
  <2> QED BY <2>2, <2>3, <2>4
<1> QED BY <1>3, <1>4 DEF Types, Switches

LEMMA ReadTextKeeps == ASSUME Inv, ReadText PROVE Inv'
<1> USE DEF Inv
<1> DEFINE right == reader.version \notin WrongTexts
           after == /\ check.last = day /\ reader.day = day
                    /\ ~check.running /\ reader.list = stored.list /\ stored.by = "check"
<1>1. /\ reader.phase = "text" /\ bodies \subseteq bodies'
      /\ reader' = IF right THEN NoReader ELSE [NoReader EXCEPT !.phase = "unavailable"]
      /\ used' = IF right /\ after THEN [used EXCEPT !.today = reader.version] ELSE used
      /\ UNCHANGED <<day, dbUp, stored, check, checked, reported>>
  BY DEF ReadText
<1>2. reader'.phase \notin {"write", "text"}
  BY <1>1 DEF NoReader
<1>3. CASE right /\ after
  <2>1. /\ used'.today = SelectVersion(stored.list, day) /\ used'.yesterday = used.yesterday
        /\ used' = [yesterday |-> used'.yesterday, today |-> used'.today]
    BY <1>1, <1>3 DEF ReaderFits, Types, Records, Switches, DaysFit
  <2>2. Types'
    <3>1. Records'
      BY <1>1, <2>1 DEF Types, Records
    <3>2. Switches'
      BY <1>1, <2>1 DEF Types, Switches
    <3>3. DaysFit'
      BY <1>1, <2>1 DEF Types, DaysFit
    <3> QED BY <3>1, <3>2, <3>3 DEF Types
  <2>3. StoredFits' /\ TextsFit' /\ ReaderFits' /\ TextsAreReady'
    BY <1>1, <1>2 DEF StoredFits, TextsFit, ReaderFits, TextsAreReady, Accepts
  <2>4. UsesFit' /\ YesterdayFits' /\ BeforeFits' /\ FoundFits' /\ NextUseReported'
    BY <1>1, <1>3, <2>1 DEF UsesFit, YesterdayFits, BeforeFits, FoundFits, NextUseReported
  <2>5. ChangesOfUseReported'
    BY <1>1, <1>3, <2>1 DEF ChangesOfUseReported, NextUseReported
  <2> QED BY <2>2, <2>3, <2>4, <2>5
<1>4. CASE ~(right /\ after)
  <2>1. used' = used
    BY <1>1, <1>4
  <2>2. Types' /\ StoredFits' /\ TextsFit' /\ ReaderFits' /\ TextsAreReady'
    BY <1>1, <1>2, <2>1 DEF Types, Records, Switches, DaysFit, StoredFits, TextsFit, ReaderFits, TextsAreReady, Accepts
  <2>3. UsesFit' /\ YesterdayFits' /\ BeforeFits' /\ FoundFits' /\ NextUseReported' /\ ChangesOfUseReported'
    BY <1>1, <2>1 DEF UsesFit, YesterdayFits, BeforeFits, FoundFits, NextUseReported, ChangesOfUseReported
  <2> QED BY <2>2, <2>3
<1> QED BY <1>3, <1>4

-----------------------------------------------------------------------------
LEMMA NextInv == Inv /\ [Next]_vars => Inv'
<1> SUFFICES ASSUME Inv, [Next]_vars PROVE Inv'
  OBVIOUS
<1>1. CASE Publish \/ DbFails \/ DbTriedAgain
  <2>1. UNCHANGED <<day, stored, bodies, check, checked, used, reported>> /\ UNCHANGED reader
    BY <1>1 DEF Publish, DbFails, DbTriedAgain
  <2>2. dbUp' \in BOOLEAN
    BY <1>1 DEF Publish, DbFails, DbTriedAgain, Inv, Types, Records, Switches, DaysFit
  <2> QED BY <2>1, <2>2, OthersKeep
<1>2. CASE NextDay
  BY <1>2, NextDayKeeps
<1>3. CASE CheckFails
  <2>1. ~checked
    BY <1>3 DEF CheckFails, Inv, NextUseReported
  <2> QED BY <1>3, <2>1, CheckStopsKeeps DEF CheckFails
<1>4. CASE CheckTextFails
  <2>1. ~checked /\ check.last = day
    BY <1>4 DEF CheckTextFails, Inv, NextUseReported, Types, Records, Switches, DaysFit
  <2> QED BY <1>4, <2>1, CheckStopsKeeps DEF CheckTextFails
<1>5. CASE CheckList
  BY <1>5, CheckListKeeps
<1>6. CASE CheckText
  BY <1>6, CheckTextKeeps
<1>7. CASE CheckEnds
  BY <1>7, CheckEndsKeeps
<1>8. CASE ReadStored \/ ReadAnswered \/ ReadUnanswered \/ ReadTextFails \/ Leave
  BY <1>8, ReadsKeep
<1>9. CASE ReadWrites
  BY <1>9, ReadWritesKeeps
<1>10. CASE ReadText
  BY <1>10, ReadTextKeeps
<1>11. CASE UNCHANGED vars
  <2>1. UNCHANGED <<day, stored, bodies, check, checked, used, reported>> /\ UNCHANGED <<reader, dbUp>>
    BY <1>11 DEF vars
  <2> QED BY <2>1, OthersKeep DEF Inv, Types, Switches
<1> QED BY <1>1, <1>2, <1>3, <1>4, <1>5, <1>6, <1>7, <1>8, <1>9, <1>10, <1>11 DEF Next

LEMMA SpecInv == Spec => []Inv
BY InitInv, NextInv, PTL DEF Spec

(* After a check that went through, the text of every version in the list is    *)
(* stored, whatever the database and the tools did meanwhile (refresh_laws).   *)
THEOREM TextsAreStored == Spec => []TextsAreReady
<1>1. Inv => TextsAreReady
  BY DEF Inv
<1> QED BY SpecInv, <1>1, PTL

(* If tools use another version than the day before, and the check of that     *)
(* night compared with the list of another check, it has reported the change   *)
(* (detect_changes).                                                          *)
THEOREM ChangesAreReported == Spec => []ChangesOfUseReported
<1>1. Inv => ChangesOfUseReported
  BY DEF Inv
<1> QED BY SpecInv, <1>1, PTL

(* A list once stored is only replaced by one that names a version, and serves   *)
(* every tool that can see it when the ministry does not answer                *)
(* (USE_STALE_ON_ERROR).                                                      *)
THEOREM ListsServe == Spec => StoredListsServe
<1>1. Inv /\ [Next]_vars =>
        [/\ stored.known => stored'.known /\ stored'.list.items # {}
         /\ reader'.phase = "failed" /\ reader.phase = "idle" => ~Cached.known]_vars
  <2> SUFFICES ASSUME Inv, Next
               PROVE  /\ stored.known => stored'.known /\ stored'.list.items # {}
                      /\ reader'.phase = "failed" /\ reader.phase = "idle" => ~Cached.known
    OBVIOUS
  <2>1. ASSUME stored.known PROVE stored'.known /\ stored'.list.items # {}
    <3>1. CASE CheckList \/ ReadWrites
      BY <2>1, <3>1 DEF CheckList, ReadWrites, Write, Stored, Inv, StoredFits, Accepts
    <3>2. CASE CheckEnds
      BY <2>1, <3>2 DEF CheckEnds, Inv, Types, Records, Switches, DaysFit, StoredFits, Accepts
    <3>3. CASE ~(CheckList \/ ReadWrites \/ CheckEnds)
      <4>1. stored' = stored
        BY <3>3 DEF Next, Publish, NextDay, DbFails, DbTriedAgain, CheckFails, CheckText, CheckTextFails,
                    ReadStored, ReadAnswered, ReadUnanswered, ReadText, ReadTextFails, Leave
      <4> QED BY <2>1, <4>1 DEF Inv, StoredFits, Accepts
    <3> QED BY <3>1, <3>2, <3>3
  <2>2. ASSUME reader'.phase = "failed", reader.phase = "idle" PROVE ~Cached.known
    <3>1. CASE ReadStored \/ ReadAnswered
      <4>1. reader'.phase \in {"write", "text", "unavailable"}
        <5>1. CASE ReadAnswered /\ Accepts(ministry)
          BY <5>1 DEF ReadAnswered, NoReader
        <5>2. CASE ReadStored \/ ~Accepts(ministry)
          BY <3>1, <5>2, PickedFits DEF ReadStored, ReadAnswered
        <5> QED BY <3>1, <5>1, <5>2
      <4> QED BY <2>2, <4>1
    <3>2. CASE ReadUnanswered
      <4>1. CASE StaleIsEnough(Cached)
        BY <2>2, <3>2, <4>1, PickedFits DEF ReadUnanswered
      <4>2. CASE ~StaleIsEnough(Cached)
        BY <4>2 DEF StaleIsEnough
      <4> QED BY <4>1, <4>2
    <3>3. CASE ~(ReadStored \/ ReadAnswered \/ ReadUnanswered)
      BY <2>2, <3>3 DEF Next, Publish, NextDay, DbFails, DbTriedAgain, CheckFails, CheckList, CheckText,
                        CheckTextFails, CheckEnds, ReadWrites, ReadText, ReadTextFails, Leave
    <3> QED BY <3>1, <3>2, <3>3
  <2> QED BY <2>1, <2>2
<1> QED BY SpecInv, <1>1, PTL DEF Spec, StoredListsServe

-----------------------------------------------------------------------------
(* The collected cases.                                                       *)
Ingests ==
  [at : {"rests", "lists", "deletes", "fetches"}, runs : Nat, total : Nat, pages : SUBSET Nat, doc_ids : SUBSET Nat,
   existing : SUBSET Nat, todo : SUBSET Nat, failed : SUBSET Nat, saved : SUBSET Nat, removed : SUBSET Nat,
   result : {"none", "skipped", "failed", "ok", "partial"}, began : SUBSET Nat, crowded : BOOLEAN]

CaseTypes ==
  /\ published \in Seq(Nat)
  /\ cases \in [coded : SUBSET Nat, bare : SUBSET Nat]
  /\ ingest \in Ingests

(* New cases are on the first page only, which has been read.                  *)
NewsAreFirst ==
  ingest.at = "lists" /\ ~ingest.crowded =>
    \A i \in DOMAIN published: i > PageSize => published[i] \in ingest.began

SeenFits ==
  ingest.at # "rests" =>
    /\ IsFiniteSet(ingest.began) /\ Cardinality(ingest.began) <= ingest.total
    /\ \A number \in ingest.pages: number >= 2
    /\ ~ingest.crowded => ingest.doc_ids \subseteq ingest.began
    /\ ingest.result = "none"

Lost == ingest.at = "fetches" => ingest.doc_ids \subseteq Cases!Stored \cup ingest.todo \cup ingest.failed

ExistingFits ==
  /\ ingest.at = "deletes" => ingest.existing = Cases!Stored
  /\ ingest.at \in {"lists", "deletes"} => ingest.removed = {}

CaseInv ==
  /\ CaseTypes /\ NewsAreFirst /\ SeenFits /\ Lost /\ ExistingFits
  /\ Cases!ListedCasesStay /\ Cases!OkMeansStored

-----------------------------------------------------------------------------
LEMMA SameOperators ==
  /\ \A S: Cases!Cardinality(S) = Cardinality(S)
  /\ \A s: Cases!ToSet(s) = ToSet(s)
  /\ \A S: Cases!Min(S) = Min(S)
  /\ \A s, i: Cases!RemoveAt(s, i) = RemoveAt(s, i)
<1>1. \A S: Cases!Cardinality(S) = Cardinality(S)
  BY DEF Cardinality, Cases!Cardinality
<1>2. \A s: Cases!ToSet(s) = ToSet(s)
  BY DEF ToSet, Cases!ToSet
<1>3. \A S: Cases!Min(S) = Min(S)
  BY DEF Min, Cases!Min
<1>4. \A s, i: Cases!RemoveAt(s, i) = RemoveAt(s, i)
  BY DEF RemoveAt, Cases!RemoveAt
<1> QED BY <1>1, <1>2, <1>3, <1>4

LEMMA CasesOfList ==
  ASSUME NEW s \in Seq(Nat)
  PROVE  ToSet(s) \subseteq Nat /\ IsFiniteSet(ToSet(s)) /\ Cardinality(ToSet(s)) <= Len(s) /\ Len(s) \in Nat
<1>1. DOMAIN s = 1..Len(s) /\ Len(s) \in Nat /\ \A i \in 1..Len(s): s[i] \in Nat
  OBVIOUS
<1>2. [i \in 1..Len(s) |-> s[i]] \in Surjection(1..Len(s), ToSet(s))
  BY <1>1 DEF Surjection, ToSet
<1>3. IsFiniteSet(1..Len(s)) /\ Cardinality(1..Len(s)) = Len(s)
  BY <1>1, FS_Interval
<1>4. IsFiniteSet(ToSet(s)) /\ Cardinality(ToSet(s)) <= Cardinality(1..Len(s))
  BY <1>2, <1>3, FS_Surjection
<1> QED BY <1>1, <1>3, <1>4 DEF ToSet

(* A page holds what is in its places of the list.                            *)
LEMMA PageFits ==
  ASSUME CaseTypes, PageSize \in Nat \ {0}, NEW number \in Nat \ {0}
  PROVE  /\ Cases!Page(number) \subseteq Nat /\ Cases!Page(number) \subseteq ToSet(published)
         /\ number >= 2 => \A id \in Cases!Page(number): \E i \in DOMAIN published: i > PageSize /\ published[i] = id
<1> DEFINE from == (number - 1) * PageSize + 1
           to   == Min({number * PageSize, Len(published)})
<1>1. published \in Seq(Nat) /\ Len(published) \in Nat /\ number * PageSize \in Nat /\ (number - 1) * PageSize \in Nat
  BY DEF CaseTypes
<1>2. to \in Nat /\ to <= Len(published)
  BY <1>1 DEF Min
<1>3. from \in Nat /\ from >= 1 /\ (number >= 2 => from > PageSize)
  <2>1. ASSUME number >= 2 PROVE (number - 1) * PageSize >= PageSize
    <3>1. number - 2 \in Nat /\ (number - 2) * PageSize \in Nat
      BY <2>1
    <3>2. (number - 1) * PageSize = (number - 2) * PageSize + PageSize
      BY <2>1
    <3> QED BY <3>1, <3>2
  <2> QED BY <1>1, <2>1
<1>4. Cases!Page(number) = ToSet(SubSeq(published, from, to))
  BY SameOperators DEF Cases!Page
<1> HIDE DEF from, to
<1>5. ASSUME NEW id \in ToSet(SubSeq(published, from, to))
      PROVE  \E i \in DOMAIN published: i >= from /\ published[i] = id
  <2>1. PICK k \in DOMAIN SubSeq(published, from, to): id = SubSeq(published, from, to)[k]
    BY DEF ToSet
  <2>2. k \in Nat /\ k >= 1 /\ from + k - 1 <= to /\ id = published[from + k - 1]
    BY <1>1, <1>2, <1>3, <2>1
  <2>3. from + k - 1 \in DOMAIN published /\ from + k - 1 >= from
    BY <1>1, <1>2, <1>3, <2>2
  <2> QED BY <2>2, <2>3
<1>6. ToSet(published) \subseteq Nat
  BY <1>1, CasesOfList
<1>7. Cases!Page(number) \subseteq ToSet(published)
  BY <1>4, <1>5 DEF ToSet
<1>8. ASSUME number >= 2, NEW id \in Cases!Page(number) PROVE \E i \in DOMAIN published: i > PageSize /\ published[i] = id
  <2>1. PICK i \in DOMAIN published: i >= from /\ published[i] = id
    BY <1>4, <1>5, <1>8
  <2> QED BY <1>1, <1>3, <1>8, <2>1
<1> QED BY <1>6, <1>7, <1>8

LEMMA CaseInit == ASSUME Cases!CaseAssumption, Cases!Init PROVE CaseInv
<1>1. /\ ingest.at = "rests" /\ ingest.result = "none" /\ ingest.removed = {}
      /\ ingest \in Ingests
  BY DEF Cases!Init, Cases!Resting, Ingests
<1>2. PICK kept \in FirstStored: cases = [coded |-> kept \ WithoutCode, bare |-> kept \cap WithoutCode]
  BY Zenon DEF Cases!Init
<1>3. kept \subseteq Nat
  BY <1>2 DEF Cases!CaseAssumption
<1>4. CaseTypes
  BY <1>1, <1>2, <1>3 DEF Cases!CaseAssumption, Cases!Init, CaseTypes
<1> QED BY <1>1, <1>4 DEF CaseInv, NewsAreFirst, SeenFits, Lost, ExistingFits, Cases!ListedCasesStay,
                          Cases!OkMeansStored

LEMMA PublishKeeps ==
  ASSUME Cases!CaseAssumption, CaseInv, NEW id \in 1..LastCase, Cases!Publish(id) PROVE CaseInv'
<1>1. published' = <<id>> \o published /\ UNCHANGED <<withdrawn, cases>>
  BY DEF Cases!Publish
<1>2. /\ ingest' \in Ingests
      /\ \/ ingest' = ingest /\ (ingest.at = "lists" => ~Cases!Crowded)
         \/ ingest' = [ingest EXCEPT !.crowded = TRUE]
  <2>1. CASE ingest.at = "lists" /\ Cases!Crowded
    <3>1. ingest' = [ingest EXCEPT !.crowded = TRUE]
      BY <2>1 DEF Cases!Publish
    <3> QED BY <3>1 DEF CaseInv, CaseTypes, Ingests
  <2>2. CASE ~(ingest.at = "lists" /\ Cases!Crowded)
    <3>1. ingest' = [ingest EXCEPT !.crowded = ingest.crowded]
      BY <2>2 DEF Cases!Publish
    <3>2. ingest' = ingest
      BY <3>1 DEF CaseInv, CaseTypes, Ingests
    <3> QED BY <2>2, <3>2 DEF CaseInv, CaseTypes
  <2> QED BY <2>1, <2>2
<1>3. id \in Nat /\ published \in Seq(Nat)
  BY DEF CaseInv, CaseTypes, Cases!CaseAssumption
<1>4. CaseTypes'
  BY <1>1, <1>2, <1>3 DEF CaseInv, CaseTypes
<1>5. NewsAreFirst'
  <2> SUFFICES ASSUME ingest.at = "lists", ~ingest.crowded, ~Cases!Crowded, ingest' = ingest,
                      NEW i \in DOMAIN published', i > PageSize
               PROVE  published'[i] \in ingest.began
    BY <1>2 DEF NewsAreFirst, CaseInv, CaseTypes, Ingests
  <2>1. i - 1 \in DOMAIN published /\ published'[i] = published[i - 1] /\ i - 1 >= PageSize
    BY <1>1, <1>3 DEF Cases!CaseAssumption
  <2> QED BY <2>1 DEF Cases!Crowded
<1>6. SeenFits' /\ Lost' /\ ExistingFits' /\ Cases!ListedCasesStay' /\ Cases!OkMeansStored'
  <2>1. CASE ingest' = ingest
    BY <1>1, <2>1 DEF CaseInv, SeenFits, Lost, ExistingFits, Cases!ListedCasesStay, Cases!OkMeansStored, Cases!Stored
  <2>2. CASE ingest' = [ingest EXCEPT !.crowded = TRUE]
    <3>1. /\ ingest'.at = ingest.at /\ ingest'.total = ingest.total /\ ingest'.pages = ingest.pages
          /\ ingest'.doc_ids = ingest.doc_ids /\ ingest'.existing = ingest.existing /\ ingest'.todo = ingest.todo
          /\ ingest'.failed = ingest.failed /\ ingest'.saved = ingest.saved /\ ingest'.removed = ingest.removed
          /\ ingest'.result = ingest.result /\ ingest'.began = ingest.began /\ ingest'.crowded = TRUE
      BY <2>2 DEF CaseInv, CaseTypes, Ingests
    <3> QED BY <1>1, <3>1 DEF CaseInv, SeenFits, Lost, ExistingFits, Cases!ListedCasesStay, Cases!OkMeansStored,
                              Cases!Stored
  <2> QED BY <1>2, <2>1, <2>2
<1> QED BY <1>4, <1>5, <1>6 DEF CaseInv

LEMMA Joined ==
  ASSUME NEW a \in Seq(Nat), NEW b \in Seq(Nat)
  PROVE  /\ a \o b \in Seq(Nat) /\ Len(a \o b) = Len(a) + Len(b) /\ Len(a) \in Nat /\ Len(b) \in Nat
         /\ \A i \in 1..(Len(a) + Len(b)): (a \o b)[i] = IF i <= Len(a) THEN a[i] ELSE b[i - Len(a)]
<1>1. a \o b \in Seq(Nat) /\ Len(a \o b) = Len(a) + Len(b) /\ Len(a) \in Nat /\ Len(b) \in Nat
  OBVIOUS
<1>2. \A i \in 1..(Len(a) + Len(b)): (a \o b)[i] = IF i <= Len(a) THEN a[i] ELSE b[i - Len(a)]
  OBVIOUS
<1> QED BY <1>1, <1>2

LEMMA WithoutPlace ==
  ASSUME NEW s \in Seq(Nat), NEW place \in 1..Len(s)
  PROVE  /\ RemoveAt(s, place) \in Seq(Nat) /\ Len(RemoveAt(s, place)) = Len(s) - 1
         /\ \A i \in 1..(Len(s) - 1): RemoveAt(s, place)[i] = s[IF i < place THEN i ELSE i + 1]
<1> DEFINE a == SubSeq(s, 1, place - 1)
           b == SubSeq(s, place + 1, Len(s))
<1>1. a \in Seq(Nat) /\ Len(a) = place - 1 /\ \A i \in 1..(place - 1): a[i] = s[i]
  OBVIOUS
<1>2. b \in Seq(Nat) /\ Len(b) = Len(s) - place
  OBVIOUS
<1>3. \A i \in 1..(Len(s) - place): b[i] = s[place + i]
  <2> SUFFICES ASSUME NEW i \in 1..(Len(s) - place) PROVE b[i] = s[place + i]
    OBVIOUS
  <2>1. b[i] = s[place + 1 + i - 1] /\ place + 1 + i - 1 = place + i
    OBVIOUS
  <2> QED BY <2>1
<1>4. RemoveAt(s, place) = a \o b
  BY DEF RemoveAt
<1> HIDE DEF a, b
<1>7. Len(s) \in Nat /\ place \in Nat /\ place >= 1 /\ place <= Len(s)
  OBVIOUS
<1>8. a \o b \in Seq(Nat) /\ Len(a \o b) = Len(a) + Len(b)
      /\ \A i \in 1..(Len(a) + Len(b)): (a \o b)[i] = IF i <= Len(a) THEN a[i] ELSE b[i - Len(a)]
  BY <1>1, <1>2, Joined
<1>9. (place - 1) + (Len(s) - place) = Len(s) - 1
  BY <1>7
<1>5. a \o b \in Seq(Nat) /\ Len(a \o b) = Len(s) - 1
  BY <1>1, <1>2, <1>8, <1>9
<1>6. ASSUME NEW i \in 1..(Len(s) - 1) PROVE (a \o b)[i] = s[IF i < place THEN i ELSE i + 1]
  <2>1. CASE i < place
    <3>1. i \in 1..(place - 1) /\ (a \o b)[i] = a[i]
      BY <1>1, <1>2, <1>7, <1>8, <1>9, <2>1
    <3> QED BY <1>1, <2>1, <3>1
  <2>2. CASE ~(i < place)
    <3>4. i \in 1..(Len(a) + Len(b)) /\ ~(i <= Len(a))
      BY <1>1, <1>2, <1>7, <1>9, <2>2
    <3>1. i - (place - 1) \in 1..(Len(s) - place) /\ (a \o b)[i] = b[i - (place - 1)]
      BY <1>1, <1>7, <1>8, <2>2, <3>4
    <3>2. place + (i - (place - 1)) = i + 1
      OBVIOUS
    <3>3. b[i - (place - 1)] = s[i + 1]
      BY <1>3, <3>1, <3>2
    <3> QED BY <2>2, <3>1, <3>3
  <2> QED BY <2>1, <2>2
<1> QED BY <1>4, <1>5, <1>6

LEMMA WithdrawKeeps ==
  ASSUME Cases!CaseAssumption, CaseInv, NEW place \in DOMAIN published, Cases!Withdraw(place) PROVE CaseInv'
<1>1. published' = RemoveAt(published, place) /\ UNCHANGED <<cases, ingest>>
  BY SameOperators DEF Cases!Withdraw
<1>2. published \in Seq(Nat) /\ place \in 1..Len(published)
  BY DEF CaseInv, CaseTypes
<1>3. /\ published' \in Seq(Nat) /\ Len(published') = Len(published) - 1
      /\ \A i \in 1..Len(published'): published'[i] = published[IF i < place THEN i ELSE i + 1]
  BY <1>1, <1>2, WithoutPlace
<1>4. NewsAreFirst'
  <2> SUFFICES ASSUME ingest.at = "lists", ~ingest.crowded, NEW i \in DOMAIN published', i > PageSize
               PROVE  published'[i] \in ingest.began
    BY <1>1 DEF NewsAreFirst
  <2> DEFINE j == IF i < place THEN i ELSE i + 1
  <2>2. i \in 1..Len(published') /\ Len(published') = Len(published) - 1 /\ Len(published) \in Nat
    BY <1>2, <1>3
  <2>3. j \in DOMAIN published /\ j > PageSize
    BY <1>2, <2>2 DEF Cases!CaseAssumption
  <2>1. j \in DOMAIN published /\ j > PageSize /\ published'[i] = published[j]
    BY <1>3, <2>2, <2>3
  <2> QED BY <2>1 DEF CaseInv, NewsAreFirst
<1>5. CaseTypes'
  BY <1>1, <1>3 DEF CaseInv, CaseTypes
<1>6. SeenFits' /\ Lost' /\ ExistingFits' /\ Cases!ListedCasesStay' /\ Cases!OkMeansStored'
  BY <1>1 DEF CaseInv, SeenFits, Lost, ExistingFits, Cases!ListedCasesStay, Cases!OkMeansStored, Cases!Stored
<1> QED BY <1>4, <1>5, <1>6 DEF CaseInv

(* A run that begins has seen nothing but the list as it is.                   *)
LEMMA FirstPageKeeps ==
  ASSUME Cases!CaseAssumption, CaseInv, NEW by_hand \in BOOLEAN, Cases!FirstPage(by_hand) PROVE CaseInv'
<1>1. /\ UNCHANGED <<published, cases>> /\ ingest.runs \in Nat
      /\ ingest' = [Cases!Resting EXCEPT !.at = "lists", !.runs = ingest.runs + 1, !.total = Len(published),
                      !.pages = 2..Cases!Pages(Len(published)), !.doc_ids = Cases!Page(1),
                      !.began = ToSet(published)]
  BY SameOperators DEF Cases!FirstPage, CaseInv, CaseTypes, Ingests
<1>2. /\ published \in Seq(Nat) /\ ToSet(published) \subseteq Nat /\ IsFiniteSet(ToSet(published))
      /\ Cardinality(ToSet(published)) <= Len(published) /\ Len(published) \in Nat
  BY CasesOfList DEF CaseInv, CaseTypes
<1>3. Cases!Page(1) \subseteq ToSet(published)
  BY PageFits DEF CaseInv, Cases!CaseAssumption
<1>4. 2..Cases!Pages(Len(published)) \subseteq Nat /\ \A number \in 2..Cases!Pages(Len(published)): number >= 2
  <2>1. Cases!Pages(Len(published)) \in Int
    BY <1>2 DEF Cases!Pages, Cases!CaseAssumption
  <2> QED BY <2>1
<1> DEFINE news == ToSet(published)
           first == Cases!Page(1)
           more == 2..Cases!Pages(Len(published))
           length == Len(published)
<1>5. ingest' = [at |-> "lists", runs |-> ingest.runs + 1, total |-> length, pages |-> more, doc_ids |-> first,
                 existing |-> {}, todo |-> {}, failed |-> {}, saved |-> {}, removed |-> {}, result |-> "none",
                 began |-> news, crowded |-> FALSE]
  BY <1>1 DEF Cases!Resting
<1>6. \A i \in DOMAIN published: published[i] \in news
  BY DEF ToSet
<1> HIDE DEF news, first, more, length
<1>11. news \in SUBSET Nat /\ first \in SUBSET Nat /\ more \in SUBSET Nat /\ length \in Nat /\ ingest.runs + 1 \in Nat
  BY <1>1, <1>2, <1>3, <1>4 DEF news, first, more, length
<1>7. ingest' \in Ingests
  BY <1>5, <1>11 DEF Ingests
<1>12. published' = published /\ cases' = cases
  BY <1>1
<1>8. CaseTypes' /\ NewsAreFirst'
  BY <1>5, <1>6, <1>7, <1>12 DEF CaseInv, CaseTypes, NewsAreFirst
<1>9. SeenFits'
  BY <1>2, <1>3, <1>4, <1>5 DEF SeenFits, news, first, more, length
<1>10. Lost' /\ ExistingFits' /\ Cases!ListedCasesStay' /\ Cases!OkMeansStored'
  BY <1>5 DEF Lost, ExistingFits, Cases!ListedCasesStay, Cases!OkMeansStored
<1> QED BY <1>8, <1>9, <1>10 DEF CaseInv

LEMMA NextPageKeeps ==
  ASSUME Cases!CaseAssumption, CaseInv, NEW number \in ingest.pages, Cases!NextPage(number) PROVE CaseInv'
<1>1. /\ ingest.at = "lists" /\ UNCHANGED <<published, cases>>
      /\ ingest' = [ingest EXCEPT !.pages = @ \ {number}, !.doc_ids = @ \cup Cases!Page(number)]
  BY DEF Cases!NextPage
<1>2. number \in Nat /\ number >= 2
  BY <1>1 DEF CaseInv, SeenFits, CaseTypes, Ingests
<1>3. Cases!Page(number) \subseteq Nat
  BY <1>2, PageFits DEF CaseInv, Cases!CaseAssumption
<1>4. ~ingest.crowded => Cases!Page(number) \subseteq ingest.began
  <2> SUFFICES ASSUME ~ingest.crowded, NEW id \in Cases!Page(number) PROVE id \in ingest.began
    OBVIOUS
  <2>1. PICK i \in DOMAIN published: i > PageSize /\ published[i] = id
    BY <1>2, PageFits DEF CaseInv, Cases!CaseAssumption
  <2> QED BY <1>1, <2>1 DEF CaseInv, NewsAreFirst
<1> DEFINE page == Cases!Page(number)
<1> HIDE DEF page
<1>5. ingest' = [ingest EXCEPT !.pages = @ \ {number}, !.doc_ids = @ \cup page]
  BY <1>1 DEF page
<1>10. ingest.pages \ {number} \in SUBSET Nat /\ ingest.doc_ids \cup page \in SUBSET Nat
  BY <1>3 DEF CaseInv, CaseTypes, Ingests, page
<1>6. CaseTypes'
  BY <1>1, <1>5, <1>10 DEF CaseInv, CaseTypes, Ingests
<1>7. /\ ingest'.pages = ingest.pages \ {number} /\ ingest'.doc_ids = ingest.doc_ids \cup page
      /\ ingest'.at = "lists" /\ ingest'.crowded = ingest.crowded /\ ingest'.began = ingest.began
      /\ ingest'.total = ingest.total /\ ingest'.result = ingest.result /\ ingest'.removed = ingest.removed
  BY <1>1, <1>5 DEF CaseInv, CaseTypes, Ingests
<1>8. NewsAreFirst' /\ SeenFits'
  BY <1>1, <1>4, <1>7 DEF CaseInv, NewsAreFirst, SeenFits, page
<1>9. Lost' /\ ExistingFits' /\ Cases!ListedCasesStay' /\ Cases!OkMeansStored'
  BY <1>1, <1>7 DEF CaseInv, Lost, ExistingFits, Cases!ListedCasesStay, Cases!OkMeansStored, SeenFits
<1> QED BY <1>6, <1>8, <1>9 DEF CaseInv

(* A step that only ends the run, or only looks.                              *)
LEMMA RunFailsKeeps == ASSUME CaseInv, Cases!RunFails PROVE CaseInv'
<1>1. /\ ingest.at # "rests" /\ UNCHANGED <<published, cases>>
      /\ ingest' = [ingest EXCEPT !.at = "rests", !.result = "failed"]
  BY DEF Cases!RunFails, Cases!Ends
<1>2. ingest' \in Ingests /\ ingest'.at = "rests" /\ ingest'.result = "failed" /\ ingest'.removed = ingest.removed
      /\ ingest'.began = ingest.began /\ ingest'.crowded = ingest.crowded
  BY <1>1 DEF CaseInv, CaseTypes, Ingests
<1> QED BY <1>1, <1>2 DEF CaseInv, CaseTypes, NewsAreFirst, SeenFits, Lost, ExistingFits, Cases!ListedCasesStay,
                          Cases!OkMeansStored

LEMMA SkipKeeps == ASSUME CaseInv, Cases!Skip PROVE CaseInv'
<1>1. /\ UNCHANGED <<published, cases>> /\ ingest.runs \in Nat
      /\ ingest' = [Cases!Resting EXCEPT !.runs = ingest.runs + 1, !.result = "skipped"]
  BY DEF Cases!Skip, CaseInv, CaseTypes, Ingests
<1> DEFINE runs == ingest.runs + 1
<1>3. runs \in Nat
  BY <1>1
<1> HIDE DEF runs
<1>4. ingest' = [at |-> "rests", runs |-> runs, total |-> 0, pages |-> {}, doc_ids |-> {}, existing |-> {}, todo |-> {},
                 failed |-> {}, saved |-> {}, removed |-> {}, result |-> "skipped", began |-> {}, crowded |-> FALSE]
  BY <1>1 DEF Cases!Resting, runs
<1>2. ingest' \in Ingests /\ ingest'.at = "rests" /\ ingest'.result = "skipped" /\ ingest'.removed = {}
  BY <1>3, <1>4 DEF Ingests
<1> QED BY <1>1, <1>2 DEF CaseInv, CaseTypes, NewsAreFirst, SeenFits, Lost, ExistingFits, Cases!ListedCasesStay,
                          Cases!OkMeansStored

LEMMA LookKeeps == ASSUME CaseInv, Cases!Look PROVE CaseInv'
<1>1. /\ ingest.at = "lists" /\ UNCHANGED <<published, cases>> /\ Cases!Stored \in SUBSET Nat
      /\ ingest' = [ingest EXCEPT !.at = "deletes", !.existing = Cases!Stored]
  BY DEF Cases!Look, Cases!Stored, CaseInv, CaseTypes
<1>2. /\ ingest' \in Ingests /\ ingest'.at = "deletes" /\ ingest'.existing = Cases!Stored
      /\ ingest'.pages = ingest.pages /\ ingest'.doc_ids = ingest.doc_ids /\ ingest'.total = ingest.total
      /\ ingest'.removed = ingest.removed /\ ingest'.result = ingest.result
      /\ ingest'.began = ingest.began /\ ingest'.crowded = ingest.crowded
  BY <1>1 DEF CaseInv, CaseTypes, Ingests
<1> QED BY <1>1, <1>2 DEF CaseInv, CaseTypes, NewsAreFirst, SeenFits, Lost, ExistingFits, Cases!ListedCasesStay,
                          Cases!OkMeansStored, Cases!Stored

(* As many cases as there were, and none that was not there: all of them.       *)
LEMMA DeleteKeeps == ASSUME CaseInv, Cases!Delete PROVE CaseInv'
<1> DEFINE gone == Cases!Gone
           missing == ingest.doc_ids \ ingest.existing
           left == [coded |-> cases.coded \ gone, bare |-> cases.bare \ gone]
<1>1. /\ ingest.at = "deletes" /\ UNCHANGED published /\ cases' = left
      /\ ingest' = [ingest EXCEPT !.at = "fetches", !.removed = gone, !.todo = missing]
  BY DEF Cases!Delete
<1>2. /\ gone \subseteq ingest.existing \ ingest.doc_ids
      /\ gone # {} => ~(Cardinality(ingest.doc_ids) < ingest.total)
  BY SameOperators DEF Cases!Gone
<1>3. gone \in SUBSET Nat /\ missing \in SUBSET Nat
  BY <1>2 DEF CaseInv, CaseTypes, Ingests
<1>4. ~ingest.crowded => gone \cap ingest.began = {}
  <2> SUFFICES ASSUME ~ingest.crowded, gone # {} PROVE gone \cap ingest.began = {}
    OBVIOUS
  <2>1. /\ ingest.doc_ids \subseteq ingest.began /\ IsFiniteSet(ingest.began)
        /\ Cardinality(ingest.began) <= ingest.total /\ ingest.total \in Nat
    BY <1>1 DEF CaseInv, SeenFits, CaseTypes, Ingests
  <2>2. Cardinality(ingest.began) \in Nat /\ IsFiniteSet(ingest.doc_ids)
        /\ Cardinality(ingest.doc_ids) \in Nat /\ Cardinality(ingest.doc_ids) <= Cardinality(ingest.began)
        /\ (Cardinality(ingest.began) = Cardinality(ingest.doc_ids) => ingest.began = ingest.doc_ids)
    BY <2>1, FS_Subset, FS_CardinalityType
  <2>3. ingest.began = ingest.doc_ids
    BY <1>2, <2>1, <2>2
  <2> QED BY <1>2, <2>3
<1>5. left \in [coded : SUBSET Nat, bare : SUBSET Nat] /\ left.coded \cup left.bare = Cases!Stored \ gone
  BY DEF CaseInv, CaseTypes, Cases!Stored
<1>6. ingest.existing = Cases!Stored
  BY <1>1 DEF CaseInv, ExistingFits
<1> HIDE DEF gone, missing, left
<1>7. /\ ingest' \in Ingests /\ ingest'.at = "fetches" /\ ingest'.removed = gone /\ ingest'.todo = missing
      /\ ingest'.pages = ingest.pages /\ ingest'.doc_ids = ingest.doc_ids /\ ingest'.total = ingest.total
      /\ ingest'.result = ingest.result /\ ingest'.began = ingest.began /\ ingest'.crowded = ingest.crowded
      /\ ingest'.failed = ingest.failed
  BY <1>1, <1>3 DEF CaseInv, CaseTypes, Ingests
<1>8. Cases!Stored' = Cases!Stored \ gone
  BY <1>1, <1>5 DEF Cases!Stored
<1>9. Lost'
  BY <1>2, <1>6, <1>7, <1>8 DEF Lost, missing
<1>10. Cases!ListedCasesStay'
  BY <1>4, <1>7 DEF Cases!ListedCasesStay
<1>11. CaseTypes' /\ NewsAreFirst' /\ SeenFits' /\ ExistingFits' /\ Cases!OkMeansStored'
  BY <1>1, <1>5, <1>7 DEF CaseInv, CaseTypes, NewsAreFirst, SeenFits, ExistingFits, Cases!OkMeansStored
<1> QED BY <1>9, <1>10, <1>11 DEF CaseInv

LEMMA StoreKeeps ==
  ASSUME CaseInv, NEW chunk \in SUBSET ingest.todo, NEW failed \in SUBSET chunk, Cases!StoreChunk(chunk, failed)
  PROVE  CaseInv'
<1> DEFINE kept == [coded |-> cases.coded \cup ((chunk \ failed) \ WithoutCode),
                    bare  |-> cases.bare \cup ((chunk \ failed) \cap WithoutCode)]
<1>1. /\ ingest.at = "fetches" /\ UNCHANGED published /\ cases' = kept
      /\ ingest' = [ingest EXCEPT !.todo = @ \ chunk, !.failed = @ \cup failed, !.saved = @ \cup (chunk \ failed)]
  BY DEF Cases!StoreChunk
<1>2. /\ ingest.todo \ chunk \in SUBSET Nat /\ ingest.failed \cup failed \in SUBSET Nat
      /\ ingest.saved \cup (chunk \ failed) \in SUBSET Nat /\ chunk \subseteq Nat
  BY DEF CaseInv, CaseTypes, Ingests
<1>3. kept \in [coded : SUBSET Nat, bare : SUBSET Nat] /\ kept.coded \cup kept.bare = Cases!Stored \cup (chunk \ failed)
  BY <1>2 DEF CaseInv, CaseTypes, Cases!Stored
<1> HIDE DEF kept
<1>4. /\ ingest' \in Ingests /\ ingest'.at = "fetches" /\ ingest'.removed = ingest.removed
      /\ ingest'.todo = ingest.todo \ chunk /\ ingest'.failed = ingest.failed \cup failed
      /\ ingest'.pages = ingest.pages /\ ingest'.doc_ids = ingest.doc_ids /\ ingest'.total = ingest.total
      /\ ingest'.result = ingest.result /\ ingest'.began = ingest.began /\ ingest'.crowded = ingest.crowded
  BY <1>1, <1>2 DEF CaseInv, CaseTypes, Ingests
<1>5. Cases!Stored' = Cases!Stored \cup (chunk \ failed)
  BY <1>1, <1>3 DEF Cases!Stored
<1>6. Lost'
  BY <1>1, <1>4, <1>5 DEF CaseInv, Lost
<1>7. CaseTypes' /\ NewsAreFirst' /\ SeenFits' /\ ExistingFits' /\ Cases!ListedCasesStay' /\ Cases!OkMeansStored'
  BY <1>1, <1>3, <1>4 DEF CaseInv, CaseTypes, NewsAreFirst, SeenFits, ExistingFits, Cases!ListedCasesStay,
                          Cases!OkMeansStored
<1> QED BY <1>6, <1>7 DEF CaseInv

LEMMA RunEndsKeeps == ASSUME CaseInv, Cases!RunEnds PROVE CaseInv'
<1> DEFINE result == Cases!RunResult(ingest)
<1>1. /\ ingest.at = "fetches" /\ ingest.todo = {} /\ UNCHANGED <<published, cases>>
      /\ ingest' = [ingest EXCEPT !.at = "rests", !.result = result]
  BY DEF Cases!RunEnds, Cases!Ends
<1>2. /\ result \in {"ok", "failed", "partial"} /\ (result = "ok" => ingest.failed = {})
      /\ (result = "partial" => ingest.failed # {} /\ ingest.saved # {})
  BY DEF Cases!RunResult
<1> HIDE DEF result
<1>3. /\ ingest' \in Ingests /\ ingest'.at = "rests" /\ ingest'.result = result /\ ingest'.removed = ingest.removed
      /\ ingest'.doc_ids = ingest.doc_ids /\ ingest'.failed = ingest.failed /\ ingest'.saved = ingest.saved
      /\ ingest'.began = ingest.began /\ ingest'.crowded = ingest.crowded
  BY <1>1, <1>2 DEF CaseInv, CaseTypes, Ingests
<1> QED BY <1>1, <1>2, <1>3 DEF CaseInv, CaseTypes, NewsAreFirst, SeenFits, Lost, ExistingFits,
                                Cases!ListedCasesStay, Cases!OkMeansStored, Cases!Stored

LEMMA RefillKeeps ==
  ASSUME CaseInv, NEW filled \in SUBSET cases.bare, Cases!Refill(filled) PROVE CaseInv'
<1>1. UNCHANGED <<published, ingest>> /\ cases' = [coded |-> cases.coded \cup filled, bare |-> cases.bare \ filled]
  BY DEF Cases!Refill
<1>2. cases' \in [coded : SUBSET Nat, bare : SUBSET Nat] /\ Cases!Stored' = Cases!Stored
  BY <1>1 DEF CaseInv, CaseTypes, Cases!Stored
<1> QED BY <1>1, <1>2 DEF CaseInv, CaseTypes, NewsAreFirst, SeenFits, Lost, ExistingFits, Cases!ListedCasesStay,
                          Cases!OkMeansStored

LEMMA CaseNext == Cases!CaseAssumption /\ CaseInv /\ [Cases!Next]_Cases!caseVars => CaseInv'
<1> SUFFICES ASSUME Cases!CaseAssumption, CaseInv, [Cases!Next]_Cases!caseVars PROVE CaseInv'
  OBVIOUS
<1>1. CASE UNCHANGED Cases!caseVars
  BY <1>1 DEF Cases!caseVars, CaseInv, CaseTypes, NewsAreFirst, SeenFits, Lost, ExistingFits,
              Cases!ListedCasesStay, Cases!OkMeansStored, Cases!Stored
<1>2. CASE Cases!Next
  BY <1>2, PublishKeeps, WithdrawKeeps, SkipKeeps, RunFailsKeeps, LookKeeps, DeleteKeeps, RunEndsKeeps,
     FirstPageKeeps, NextPageKeeps, StoreKeeps, RefillKeeps DEF Cases!Next
<1> QED BY <1>1, <1>2

LEMMA CaseSpecInv == ASSUME Cases!CaseAssumption PROVE Cases!Spec => []CaseInv
<1>1. Cases!Init => CaseInv
  BY CaseInit
<1>2. CaseInv /\ [Cases!Next]_Cases!caseVars => CaseInv'
  BY CaseNext
<1> QED BY <1>1, <1>2, PTL DEF Cases!Spec

(* No case is deleted that was in the list when the run began, unless more than *)
(* a page of new ones came while it was read, for a list, pages and chunks of   *)
(* any length (ingest_clip_cases, collect_doc_ids).                           *)
THEOREM ListedCasesStayAlways == ASSUME Cases!CaseAssumption PROVE Cases!Spec => []Cases!ListedCasesStay
<1>1. CaseInv => Cases!ListedCasesStay
  BY DEF CaseInv
<1> QED BY CaseSpecInv, <1>1, PTL

(* A run that calls itself ok has stored every case it saw, a partial one names *)
(* those it has not (_run_result).                                            *)
THEOREM OkMeansStoredAlways == ASSUME Cases!CaseAssumption PROVE Cases!Spec => []Cases!OkMeansStored
<1>1. CaseInv => Cases!OkMeansStored
  BY DEF CaseInv
<1> QED BY CaseSpecInv, <1>1, PTL

-----------------------------------------------------------------------------
(* The evidence of the tools.                                                 *)
(* What the tools look for has a number, and articles and items have no branch.*)
Sought(n) ==
  /\ n.kind \in {"article", "paragraph", "item", "annex"} /\ n.number \in Nat \ {0}
  /\ n.kind \in {"article", "item"} => n.branch = 0

LEMMA NeedIsSought ==
  ASSUME NEW kind \in {"article", "paragraph", "item", "annex"}, NEW doc, NEW number \in Nat \ {0}, NEW words
  PROVE  Sought(Load!Need(kind, doc, number, words))
BY DEF Load!Need, Sought

LEMMA ArticlesAreSought ==
  \A doc, numbers: numbers \subseteq Nat \ {0} => \A n \in Load!Articles(doc, numbers): Sought(n)
BY NeedIsSought DEF Load!Articles

LEMMA NeedsAreSought ==
  ASSUME NEW tool \in DOMAIN Load!Needs PROVE \A n \in Load!Needs[tool] \cup Load!Extras[tool]: Sought(n)
<1>1. \A n \in Load!ElectricalNeeds: Sought(n)
  <2>1. /\ \A words: Sought(Load!Need("article", "rule", 3, words))
        /\ \A words: Sought(Load!Need("article", "notice", 3, words))
        /\ \A n \in 1..3: \A words: Sought(Load!Need("annex", "notice", n, words))
    BY NeedIsSought
  <2> QED BY <2>1, Zenon DEF Load!ElectricalNeeds
<1>2. \A n \in Load!RadioNeeds: Sought(n)
  <2>1. /\ \A words: Sought([Load!Need("paragraph", "law", 58, words) EXCEPT !.branch = 2])
        /\ \A words: Sought([Load!Need("annex", "decree", 6, words) EXCEPT !.branch = 2])
        /\ \A words: Sought(Load!Need("annex", "notice", 1, words))
    BY DEF Load!Need, Sought
  <2> QED BY <2>1, Zenon DEF Load!RadioNeeds
<1>3. \A n \in Load!ChildrenNeeds: Sought(n)
  <2>1. /\ \A words: Sought(Load!Need("item", "law", 2, words)) /\ Sought(Load!Need("annex", "rule", 3, words))
        /\ \A n \in 1..2: \A words: Sought(Load!Need("annex", "rule", n, words))
        /\ \A n \in 3..5: \A words: Sought(Load!Need("annex", "notice", n, words))
    BY NeedIsSought
  <2> QED BY <2>1, Zenon DEF Load!ChildrenNeeds
<1>4. \A n \in Load!FoodDrugNeeds: Sought(n)
  <2>1. \A doc, words: Sought(Load!Need("annex", doc, 1, words))
    BY NeedIsSought
  <2>2. /\ {2} \subseteq Nat \ {0} /\ {14, 15, 20, 2} \subseteq Nat \ {0} /\ {2, 15, 17, 26} \subseteq Nat \ {0}
        /\ {32} \subseteq Nat \ {0} /\ {3} \subseteq Nat \ {0} /\ {2, 3, 4, 8, 15} \subseteq Nat \ {0}
    OBVIOUS
  <2>3. /\ \A doc: \A n \in Load!Articles(doc, {2}): Sought(n)
        /\ \A doc: \A n \in Load!Articles(doc, {14, 15, 20, 2}): Sought(n)
        /\ \A doc: \A n \in Load!Articles(doc, {2, 15, 17, 26}): Sought(n)
        /\ \A doc: \A n \in Load!Articles(doc, {32}): Sought(n)
        /\ \A doc: \A n \in Load!Articles(doc, {3}): Sought(n)
        /\ \A doc: \A n \in Load!Articles(doc, {2, 3, 4, 8, 15}): Sought(n)
    BY <2>2, ArticlesAreSought, Zenon
  <2>4. SUFFICES ASSUME NEW n \in Load!FoodDrugNeeds PROVE Sought(n)
    OBVIOUS
  <2>5. \/ n \in Load!Articles("food", {2}) \/ n \in Load!Articles("imported", {14, 15, 20, 2})
        \/ n \in Load!Articles("decree", {2}) \/ n \in Load!Articles("device", {2, 15, 17, 26})
        \/ n \in Load!Articles("device rule", {32}) \/ n \in Load!Articles("health", {3})
        \/ n \in Load!Articles("cosmetics", {2, 3, 4, 8, 15}) \/ n \in Load!Articles("cosmetics rule", {2})
        \/ \E doc: n = Load!Need("annex", doc, 1, {"title", "text", "rows"})
        \/ n \in Load!Articles("cosmetics notice", {3})
    BY <2>4, Zenon DEF Load!FoodDrugNeeds
  <2> QED BY <2>1, <2>3, <2>5, Zenon
<1>5. \A n \in Load!CustomsNeeds: Sought(n)
  <2>1. /\ \A words: Sought(Load!Need("article", "act", 226, words))
        /\ \A words: Sought(Load!Need("article", "decree", 19, words))
        /\ \A words: Sought(Load!Need("article", "notice", 7, words))
        /\ \A words: Sought(Load!Need("annex", "notice", 2, words))
    BY NeedIsSought
  <2> QED BY <2>1, Zenon DEF Load!CustomsNeeds
<1>6. \A n \in Load!Extras[tool]: Sought(n)
  <2>1. /\ \A words: Sought(Load!Need("annex", "rule", 13, words))
        /\ \A words: Sought(Load!Need("article", "notice", 7, words))
    BY NeedIsSought
  <2>2. Load!Extras[tool] \subseteq {Load!Need("annex", "rule", 13, {"title", "text", "parts"}),
                                     Load!Need("article", "notice", 7, {"provisos"})}
    BY DEF Load!Extras, Load!Needs
  <2> QED BY <2>1, <2>2, Zenon
<1>7. tool \in {"electrical", "radio", "children", "food_drug", "customs"}
  BY DEF Load!Needs
<1>8. Load!Needs[tool] \in {Load!ElectricalNeeds, Load!RadioNeeds, Load!ChildrenNeeds, Load!FoodDrugNeeds, Load!CustomsNeeds}
  BY <1>7 DEF Load!Needs
<1> QED BY <1>1, <1>2, <1>3, <1>4, <1>5, <1>6, <1>8

LEMMA SameSize == \A S: Load!Cardinality(S) = Cardinality(S)
BY DEF Cardinality, Load!Cardinality

(* A piece that has the place of a need comes from the piece there.           *)
LEMMA PiecesOfPlace ==
  ASSUME NEW tool \in DOMAIN Load!Needs, NEW doc, NEW edit, NEW n \in Load!Needs[tool], n.doc = doc,
         edit.place = Load!Place(n), NEW piece \in Load!Body(tool, doc, edit), piece.kind = n.kind,
         \/ piece.number = n.number /\ piece.branch = n.branch
         \/ n.kind = "article" /\ piece.head = n.number
  PROVE  piece \in Load!Edited(Load!PieceAt(tool, doc, Load!Place(n)), edit.what)
<1>1. PICK p \in Load!Places(tool, doc):
        piece \in Load!Edited(Load!PieceAt(tool, doc, p), IF p = edit.place THEN edit.what ELSE "nothing")
  BY DEF Load!Body
<1>2. PICK m \in Load!Needs[tool] \cup Load!Extras[tool]: p = Load!Place(m)
  BY <1>1 DEF Load!Places, Load!Wanted
<1>3. Sought(m) /\ Sought(n)
  BY <1>2, NeedsAreSought
<1>4. CASE p = edit.place
  BY <1>1, <1>4
<1>5. CASE p # edit.place
  <2>1. piece = Load!PieceAt(tool, doc, p)
    BY <1>1, <1>5 DEF Load!Edited
  <2>2. piece.kind = m.kind /\ piece.number = m.number /\ piece.branch = m.branch /\ piece.head = m.number
    BY <1>2, <2>1 DEF Load!PieceAt, Load!Place
  <2>3. m.kind = n.kind /\ m.number = n.number /\ m.branch = n.branch
    BY <1>3, <2>2 DEF Sought
  <2> QED BY <1>2, <1>5, <2>3 DEF Load!Place
<1> QED BY <1>4, <1>5

(* What is found for a need comes from the piece at its place.                 *)
LEMMA FoundAtPlace ==
  ASSUME NEW tool \in DOMAIN Load!Needs, NEW doc, NEW edit, NEW n \in Load!Needs[tool], n.doc = doc,
         edit.place = Load!Place(n), NEW piece \in Load!Found(Load!Body(tool, doc, edit), n)
  PROVE  /\ piece \in Load!Edited(Load!PieceAt(tool, doc, Load!Place(n)), edit.what)
         /\ n.kind # "article" => piece.number = n.number
<1>1. Sought(n)
  BY NeedsAreSought
<1>2. /\ piece \in Load!Body(tool, doc, edit) /\ piece.kind = n.kind
      /\ \/ piece.number = n.number /\ piece.branch = n.branch
         \/ n.kind = "article" /\ piece.head = n.number
  <2>1. CASE n.kind = "article"
    <3>1. piece \in Load!ArticleText(Load!Body(tool, doc, edit), n)
      BY <2>1 DEF Load!Found
    <3> QED BY <1>1, <2>1, <3>1 DEF Load!ArticleText, Sought
  <2>2. CASE n.kind = "paragraph"
    <3>1. piece \in Load!LawParagraph(Load!Body(tool, doc, edit), n)
      BY <2>2 DEF Load!Found
    <3> QED BY <2>2, <3>1 DEF Load!LawParagraph
  <2>3. CASE n.kind = "item"
    <3>1. piece \in Load!LawItem(Load!Body(tool, doc, edit), n)
      BY <2>3 DEF Load!Found
    <3> QED BY <1>1, <2>3, <3>1 DEF Load!LawItem, Sought
  <2>4. CASE n.kind = "annex"
    <3>1. piece \in Load!AnnexText(Load!Body(tool, doc, edit), n)
      BY <2>4 DEF Load!Found
    <3> QED BY <2>4, <3>1 DEF Load!AnnexText
  <2> QED BY <1>1, <2>1, <2>2, <2>3, <2>4 DEF Sought
<1>3. piece \in Load!Edited(Load!PieceAt(tool, doc, Load!Place(n)), edit.what)
  BY <1>2, PiecesOfPlace
<1> QED BY <1>2, <1>3

(* The piece at the place of a need has its words.                            *)
LEMMA PieceFits ==
  ASSUME NEW tool \in DOMAIN Load!Needs, NEW n \in Load!Needs[tool]
  PROVE  LET piece == Load!PieceAt(tool, n.doc, Load!Place(n))
         IN /\ piece.kind = n.kind /\ piece.number = n.number /\ piece.branch = n.branch /\ piece.copy = 1
            /\ n.words \subseteq piece.words
            /\ piece = [kind |-> piece.kind, number |-> piece.number, branch |-> piece.branch, head |-> piece.head,
                        copy |-> piece.copy, words |-> piece.words]
<1>1. n \in {m \in Load!Wanted(tool, n.doc): Load!Place(m) = Load!Place(n)}
  BY DEF Load!Wanted
<1>2. n.words \subseteq UNION {m.words : m \in {m \in Load!Wanted(tool, n.doc): Load!Place(m) = Load!Place(n)}}
  BY <1>1
<1> QED BY <1>2 DEF Load!PieceAt, Load!Place

LEMMA EditIsOneOf ==
  \A places, whats: \A edit \in {Load!Whole} \cup {[place |-> p, what |-> w] : p \in places, w \in whats}:
    edit = Load!Whole \/ edit.what \in whats
OBVIOUS

(* If a document was read with a piece that is needed changed, the change is   *)
(* one the lookup sees through.                                               *)
LEMMA AvailableIsWhole ==
  ASSUME NEW source, source.tool \in DOMAIN Load!Needs, source.edit \in Load!Edits(source.tool, source.doc),
         Load!Available(source), NEW n \in Load!Needs[source.tool], n.doc = source.doc,
         Load!Place(n) = source.edit.place
  PROVE  \/ source.edit.what \in {"nothing", "branch beside"}
         \/ source.edit.what = "no number" /\ n.kind = "article"
         \/ source.edit.what = "twice" /\ n.kind = "item"
         \/ source.edit.what = "other words" /\ n.words \subseteq {"text", "title"}
<1> DEFINE body  == Load!Body(source.tool, source.doc, source.edit)
           piece == Load!PieceAt(source.tool, source.doc, Load!Place(n))
           found == Load!Found(body, n)
           what  == source.edit.what
<1>1. /\ Cardinality(found) = 1
      /\ \A p \in found: n.words \subseteq p.words
  BY SameSize, Zenon DEF Load!Available, Load!Met, Load!Received
<1>2. \A p \in found: p \in Load!Edited(piece, what) /\ (n.kind # "article" => p.number = n.number)
  BY FoundAtPlace
<1>3. found # {}
  BY <1>1, FS_EmptySet
<1>4. Sought(n)
  BY NeedsAreSought
<1>5. what \in {"nothing", "missing", "twice", "no number", "branch beside", "other words"}
  <2>1. source.edit = Load!Whole \/ source.edit.what \in Load!Changes
    BY EditIsOneOf DEF Load!Edits
  <2>2. source.edit = Load!Whole => what = "nothing"
    BY DEF Load!Whole
  <2> QED BY <2>1, <2>2, Zenon DEF Load!Changes
<1> DEFINE twin == [piece EXCEPT !.copy = 2]
<1>10. /\ piece.kind = n.kind /\ piece.number = n.number /\ piece.branch = n.branch /\ piece.copy = 1
       /\ n.words \subseteq piece.words
       /\ piece = [kind |-> piece.kind, number |-> piece.number, branch |-> piece.branch, head |-> piece.head,
                   copy |-> piece.copy, words |-> piece.words]
  BY PieceFits
<1>11. /\ twin.kind = n.kind /\ twin.number = n.number /\ twin.branch = n.branch /\ twin.copy = 2
       /\ n.words \subseteq twin.words
  BY <1>10
<1>12. /\ Load!Edited(piece, "missing") = {}
       /\ \A p \in Load!Edited(piece, "no number"): p.number = 0
       /\ \A p \in Load!Edited(piece, "other words"): p.words = {"text", "title"}
       /\ Load!Edited(piece, "twice") = {piece, twin}
  <2> HIDE DEF piece
  <2> QED BY <1>10 DEF Load!Edited
<1>13. Load!Place(n) \in Load!Places(source.tool, source.doc)
  BY DEF Load!Places, Load!Wanted
<1>14. what = "twice" => piece \in body /\ twin \in body
  <2> HIDE DEF twin
  <2> QED BY <1>12, <1>13 DEF Load!Body
<1> HIDE DEF piece, twin, body
<1>6. CASE what = "missing"
  BY <1>2, <1>3, <1>6, <1>12
<1>7. CASE what = "no number"
  <2>1. \A p \in found: p.number = 0
    BY <1>2, <1>7, <1>12
  <2> QED BY <1>2, <1>3, <1>4, <1>7, <2>1 DEF Sought
<1>8. CASE what = "other words"
  <2>1. \A p \in found: p.words = {"text", "title"}
    BY <1>2, <1>8, <1>12
  <2> QED BY <1>1, <1>3, <1>8, <2>1
<1>9. CASE what = "twice" /\ n.kind # "item"
  <2>1. found \subseteq {piece, twin}
    BY <1>2, <1>9, <1>12
  <2>2. piece \in found /\ twin \in found
    <3>1. CASE n.kind = "article"
      BY <1>4, <1>9, <1>10, <1>11, <1>14, <3>1 DEF Load!Found, Load!ArticleText, Sought
    <3>2. CASE n.kind = "paragraph"
      BY <1>4, <1>9, <1>10, <1>11, <1>14, <3>2 DEF Load!Found, Load!LawParagraph
    <3>3. CASE n.kind = "annex"
      BY <1>4, <1>9, <1>10, <1>11, <1>14, <3>3 DEF Load!Found, Load!AnnexText
    <3> QED BY <1>4, <1>9, <3>1, <3>2, <3>3 DEF Sought
  <2> HIDE DEF found
  <2>3. found = {piece} \cup {twin}
    BY <2>1, <2>2
  <2>4. IsFiniteSet({piece}) /\ IsFiniteSet({twin})
    BY FS_Singleton
  <2>5. IsFiniteSet(found)
    BY <2>3, <2>4, FS_Union
  <2>6. PICK x: found = {x}
    BY <1>1, <2>5, FS_Singleton
  <2>7. piece.copy # twin.copy
    BY <1>10, <1>11
  <2> QED BY <2>2, <2>6, <2>7
<1> QED BY <1>5, <1>6, <1>7, <1>8, <1>9

-----------------------------------------------------------------------------
Lacked == UNION {Load!Extras[tool] : tool \in DOMAIN Load!Needs}

LoadCalls == [at : {"idle", "waits", "reads"}, as_of : Days \cup {0}, read : Nat, calls : Nat]

LoadAnswers ==
  [what : {"nothing", "evidence", "lookup failed", "unavailable"}, as_of : Days \cup {0}, stored : Nat,
   lacks : SUBSET Lacked, asked : Days \cup {0}, at : Nat]

LoadTypes ==
  /\ clock \in Nat /\ cached \in LoadAnswers
  /\ loading \in [LoadThread -> LoadCalls] /\ served \in [LoadThread -> LoadAnswers]

EvidenceOfTool ==
  evidenceOf # Load!Unknown =>
    evidenceOf.tool \in DOMAIN Load!Needs /\ evidenceOf.edit \in Load!Edits(evidenceOf.tool, evidenceOf.doc)

(* Who loads, and what was loaded, knows the tool and its documents.           *)
CallsAreOfTool == \A t \in LoadThread: loading[t].at # "idle" => evidenceOf # Load!Unknown

(* Evidence, kept or served, stands on documents in which all that is needed    *)
(* was found.                                                                *)
Stands(evidence) == evidence.what = "evidence" => evidenceOf # Load!Unknown /\ Load!Available(evidenceOf)

EvidenceStands == Stands(cached) /\ \A t \in LoadThread: Stands(served[t])

LoadInv ==
  LoadTypes /\ EvidenceOfTool /\ CallsAreOfTool /\ EvidenceStands /\ Load!EvidenceIsOfItsDay

-----------------------------------------------------------------------------
LEMMA LoadInit == ASSUME Load!LoadAssumption, Load!Init PROVE LoadInv
<1>1. Load!Idle \in LoadCalls /\ Load!Nothing \in LoadAnswers
  BY DEF Load!Idle, Load!Nothing, LoadCalls, LoadAnswers
<1>2. LoadTypes
  BY <1>1 DEF Load!Init, LoadTypes
<1>3. Load!Nothing.what = "nothing" /\ Load!Idle.at = "idle"
  BY DEF Load!Nothing, Load!Idle
<1> QED BY <1>2, <1>3 DEF Load!Init, LoadInv, EvidenceOfTool, CallsAreOfTool, EvidenceStands, Stands,
                          Load!EvidenceIsOfItsDay

LEMMA ChooseKeeps ==
  ASSUME LoadInv, NEW tool \in DOMAIN Load!Needs, NEW doc, NEW edit \in Load!Edits(tool, doc),
         Load!Choose(tool, doc, edit)
  PROVE  LoadInv'
<1>1. evidenceOf = Load!Unknown /\ UNCHANGED <<clock, lock, cached, loading, served>>
  BY DEF Load!Choose
<1>2. EvidenceOfTool'
  BY DEF Load!Choose, EvidenceOfTool
<1>3. cached.what # "evidence" /\ \A t \in LoadThread: served[t].what # "evidence" /\ loading[t].at = "idle"
  BY <1>1 DEF LoadInv, EvidenceStands, Stands, CallsAreOfTool
<1>4. EvidenceStands' /\ CallsAreOfTool'
  BY <1>1, <1>3 DEF EvidenceStands, Stands, CallsAreOfTool
<1>5. LoadTypes' /\ Load!EvidenceIsOfItsDay'
  BY <1>1 DEF LoadInv, LoadTypes, Load!EvidenceIsOfItsDay
<1> QED BY <1>2, <1>4, <1>5 DEF LoadInv

LEMMA TickKeeps == ASSUME LoadInv, Load!Tick PROVE LoadInv'
<1>1. clock' = clock + 1 /\ UNCHANGED <<evidenceOf, lock, cached, loading, served>>
  BY DEF Load!Tick
<1>2. Load!Available(evidenceOf)' = Load!Available(evidenceOf)
  BY <1>1
<1> QED BY <1>1, <1>2 DEF LoadInv, LoadTypes, EvidenceOfTool, CallsAreOfTool, EvidenceStands, Stands,
                          Load!EvidenceIsOfItsDay

(* A thread that comes back, with an answer that fits what it asked for, leaves  *)
(* the lock to the others.                                                    *)
LEMMA BackKeeps ==
  ASSUME Load!LoadAssumption, LoadInv, NEW t \in LoadThread, NEW answer \in LoadAnswers, Load!Back(t, answer),
         UNCHANGED <<evidenceOf, clock>>, cached' \in {cached, answer},
         answer.what \in {"nothing", "evidence"} \/ cached' = cached,
         Stands(answer), loading[t].at # "idle", lock = None \/ lock = t,
         answer.what = "evidence" => answer.as_of = loading[t].as_of /\ clock - answer.stored < Ttl
  PROVE  LoadInv'
<1> DEFINE given == [answer EXCEPT !.asked = loading[t].as_of, !.at = clock]
           back  == [loading[t] EXCEPT !.at = "idle", !.read = 0]
<1>1. loading[t] \in LoadCalls /\ clock \in Nat
  BY DEF LoadInv, LoadTypes
<1>2. /\ given \in LoadAnswers /\ given.what = answer.what /\ given.as_of = answer.as_of
      /\ given.stored = answer.stored /\ given.asked = loading[t].as_of /\ given.at = clock
  BY <1>1 DEF LoadAnswers, LoadCalls
<1>3. back \in LoadCalls /\ back.at = "idle"
  BY <1>1 DEF LoadCalls
<1>4. /\ lock' = None
      /\ loading' = [loading EXCEPT ![t] = back]
      /\ served' = [served EXCEPT ![t] = given]
  BY DEF Load!Back
<1> HIDE DEF given, back
<1>5. /\ loading' \in [LoadThread -> LoadCalls] /\ loading'[t] = back
      /\ \A u \in LoadThread \ {t}: loading'[u] = loading[u]
  BY <1>3, <1>4 DEF LoadInv, LoadTypes
<1>6. /\ served' \in [LoadThread -> LoadAnswers] /\ served'[t] = given
      /\ \A u \in LoadThread \ {t}: served'[u] = served[u]
  BY <1>2, <1>4 DEF LoadInv, LoadTypes
<1>7. LoadTypes'
  BY <1>5, <1>6 DEF LoadInv, LoadTypes
<1>8. EvidenceOfTool' /\ CallsAreOfTool'
  BY <1>3, <1>5 DEF LoadInv, EvidenceOfTool, CallsAreOfTool
<1>9. EvidenceStands'
  BY <1>2, <1>6 DEF LoadInv, EvidenceStands, Stands
<1>10. Load!EvidenceIsOfItsDay'
  <2>1. \A u \in LoadThread: loading'[u].at # "reads"
    BY <1>3, <1>5 DEF LoadInv, Load!EvidenceIsOfItsDay, Load!LoadAssumption
  <2>2. \A u \in LoadThread: served'[u].what = "evidence" =>
          served'[u].as_of = served'[u].asked /\ served'[u].at - served'[u].stored < Ttl
    BY <1>2, <1>6 DEF LoadInv, Load!EvidenceIsOfItsDay
  <2>3. cached'.what \in {"nothing", "evidence"}
    BY DEF LoadInv, Load!EvidenceIsOfItsDay
  <2> QED BY <2>1, <2>2, <2>3 DEF Load!EvidenceIsOfItsDay
<1> QED BY <1>7, <1>8, <1>9, <1>10 DEF LoadInv

LEMMA CallKeeps == ASSUME LoadInv, NEW t \in LoadThread, NEW d \in Days, Load!Call(t, d) PROVE LoadInv'
<1> DEFINE call == [at |-> "waits", as_of |-> d, read |-> 0, calls |-> loading[t].calls + 1]
<1>1. /\ evidenceOf # Load!Unknown /\ UNCHANGED <<evidenceOf, clock, lock, cached, served>>
      /\ loading' = [loading EXCEPT ![t] = call]
  BY DEF Load!Call
<1>2. call \in LoadCalls /\ call.at = "waits"
  <2>1. loading[t].calls \in Nat
    BY DEF LoadInv, LoadTypes, LoadCalls
  <2> QED BY <2>1 DEF LoadCalls
<1> HIDE DEF call
<1>3. /\ loading' \in [LoadThread -> LoadCalls] /\ loading'[t] = call
      /\ \A u \in LoadThread \ {t}: loading'[u] = loading[u]
  BY <1>1, <1>2 DEF LoadInv, LoadTypes
<1> QED BY <1>1, <1>2, <1>3 DEF LoadInv, LoadTypes, EvidenceOfTool, CallsAreOfTool, EvidenceStands, Stands,
                                Load!EvidenceIsOfItsDay

LEMMA TakeLockKeeps ==
  ASSUME Load!LoadAssumption, LoadInv, NEW t \in LoadThread, Load!TakeLock(t) PROVE LoadInv'
<1>1. loading[t].at = "waits" /\ lock = None /\ UNCHANGED <<evidenceOf, clock, cached>>
  BY DEF Load!TakeLock
<1>2. CASE Load!Fresh(loading[t].as_of)
  <2>1. Load!Back(t, cached)
    BY <1>2 DEF Load!TakeLock
  <2>2. cached \in LoadAnswers /\ Stands(cached)
    BY DEF LoadInv, LoadTypes, EvidenceStands
  <2> QED BY <1>1, <1>2, <2>1, <2>2, BackKeeps DEF Load!Fresh
<1>3. CASE ~Load!Fresh(loading[t].as_of)
  <2> DEFINE reads == [loading[t] EXCEPT !.at = "reads"]
  <2>1. lock' = t /\ loading' = [loading EXCEPT ![t] = reads] /\ UNCHANGED served
    BY <1>3 DEF Load!TakeLock
  <2>2. reads \in LoadCalls /\ reads.at = "reads"
    <3>1. loading[t] \in LoadCalls
      BY DEF LoadInv, LoadTypes
    <3> QED BY <3>1 DEF LoadCalls
  <2> HIDE DEF reads
  <2>3. /\ loading' \in [LoadThread -> LoadCalls] /\ loading'[t] = reads
        /\ \A u \in LoadThread \ {t}: loading'[u] = loading[u]
    BY <2>1, <2>2 DEF LoadInv, LoadTypes
  <2>4. LoadTypes' /\ EvidenceOfTool' /\ CallsAreOfTool' /\ EvidenceStands'
    BY <1>1, <2>1, <2>2, <2>3 DEF LoadInv, LoadTypes, EvidenceOfTool, CallsAreOfTool, EvidenceStands, Stands
  <2>5. \A u \in LoadThread: loading[u].at # "reads"
    BY <1>1 DEF LoadInv, Load!EvidenceIsOfItsDay, Load!LoadAssumption
  <2>6. Load!EvidenceIsOfItsDay'
    BY <1>1, <2>1, <2>3, <2>5 DEF LoadInv, Load!EvidenceIsOfItsDay
  <2> QED BY <2>4, <2>6 DEF LoadInv
<1> QED BY <1>2, <1>3

LEMMA ReadDocumentKeeps == ASSUME LoadInv, NEW t \in LoadThread, Load!ReadDocument(t) PROVE LoadInv'
<1> DEFINE reads == [loading[t] EXCEPT !.read = @ + 1]
<1>1. UNCHANGED <<evidenceOf, clock, lock, cached, served>> /\ loading' = [loading EXCEPT ![t] = reads]
  BY DEF Load!ReadDocument
<1>2. reads \in LoadCalls /\ reads.at = loading[t].at
  <2>1. loading[t] \in LoadCalls
    BY DEF LoadInv, LoadTypes
  <2> QED BY <2>1 DEF LoadCalls
<1> HIDE DEF reads
<1>3. loading' \in [LoadThread -> LoadCalls] /\ \A u \in LoadThread: loading'[u].at = loading[u].at
  BY <1>1, <1>2 DEF LoadInv, LoadTypes
<1> QED BY <1>1, <1>3 DEF LoadInv, LoadTypes, EvidenceOfTool, CallsAreOfTool, EvidenceStands, Stands,
                          Load!EvidenceIsOfItsDay

LEMMA ReadFailsKeeps ==
  ASSUME Load!LoadAssumption, LoadInv, NEW t \in LoadThread, NEW how \in {"lookup failed", "unavailable"},
         Load!ReadFails(t, how)
  PROVE  LoadInv'
<1> DEFINE answer == [Load!Nothing EXCEPT !.what = how]
<1>1. answer \in LoadAnswers /\ answer.what = how
  BY DEF Load!Nothing, LoadAnswers
<1>2. loading[t].at = "reads" /\ Load!Back(t, answer) /\ UNCHANGED <<evidenceOf, clock, cached>>
  BY DEF Load!ReadFails
<1> HIDE DEF answer
<1>3. lock = t
  BY <1>2 DEF LoadInv, Load!EvidenceIsOfItsDay
<1>4. Stands(answer)
  BY <1>1 DEF Stands
<1> QED BY <1>1, <1>2, <1>3, <1>4, BackKeeps

LEMMA BuildKeeps ==
  ASSUME Load!LoadAssumption, LoadInv, NEW t \in LoadThread, Load!BuildEvidence(t) PROVE LoadInv'
<1>1. /\ loading[t].at = "reads" /\ Load!Back(t, Load!Built(t)) /\ UNCHANGED <<evidenceOf, clock>>
      /\ cached' = Load!Kept(Load!Built(t))
  BY DEF Load!BuildEvidence
<1>2. lock = t /\ evidenceOf # Load!Unknown /\ loading[t] \in LoadCalls /\ clock \in Nat
  BY <1>1 DEF LoadInv, LoadTypes, CallsAreOfTool, Load!EvidenceIsOfItsDay
<1>3. Load!Lacks(evidenceOf) \subseteq Lacked
  BY <1>2 DEF LoadInv, EvidenceOfTool, Load!Lacks, Lacked
<1>4. CASE Load!Available(evidenceOf)
  <2> DEFINE answer == [Load!Nothing EXCEPT !.what = "evidence", !.as_of = loading[t].as_of, !.stored = clock,
                                            !.lacks = Load!Lacks(evidenceOf)]
  <2>1. Load!Built(t) = answer
    BY <1>4 DEF Load!Built
  <2>2. /\ answer \in LoadAnswers /\ answer.what = "evidence" /\ answer.as_of = loading[t].as_of
        /\ answer.stored = clock
    BY <1>2, <1>3 DEF Load!Nothing, LoadAnswers, LoadCalls
  <2> HIDE DEF answer
  <2>3. Stands(answer) /\ cached' = answer /\ clock - answer.stored < Ttl
    BY <1>1, <1>2, <1>4, <2>1, <2>2 DEF Stands, Load!Kept, Load!LoadAssumption
  <2> QED BY <1>1, <1>2, <2>1, <2>2, <2>3, BackKeeps
<1>5. CASE ~Load!Available(evidenceOf)
  <2> DEFINE answer == [Load!Nothing EXCEPT !.what = "unavailable"]
  <2>1. Load!Built(t) = answer
    BY <1>5 DEF Load!Built
  <2>2. answer \in LoadAnswers /\ answer.what = "unavailable"
    BY DEF Load!Nothing, LoadAnswers
  <2> HIDE DEF answer
  <2>3. Stands(answer) /\ cached' = cached
    BY <1>1, <2>1, <2>2 DEF Stands, Load!Kept
  <2> QED BY <1>1, <1>2, <2>1, <2>2, <2>3, BackKeeps
<1> QED BY <1>4, <1>5

LEMMA LoadNext == Load!LoadAssumption /\ LoadInv /\ [Load!Next]_Load!loadVars => LoadInv'
<1> SUFFICES ASSUME Load!LoadAssumption, LoadInv, [Load!Next]_Load!loadVars PROVE LoadInv'
  OBVIOUS
<1>1. CASE UNCHANGED Load!loadVars
  <2>1. UNCHANGED <<evidenceOf, clock, lock, cached, loading, served>>
    BY <1>1 DEF Load!loadVars
  <2> QED BY <2>1 DEF LoadInv, LoadTypes, EvidenceOfTool, CallsAreOfTool, EvidenceStands, Stands,
                      Load!EvidenceIsOfItsDay
<1>2. CASE Load!Next
  BY <1>2, ChooseKeeps, TickKeeps, CallKeeps, TakeLockKeeps, ReadDocumentKeeps, ReadFailsKeeps, BuildKeeps
  DEF Load!Next
<1> QED BY <1>1, <1>2

LEMMA LoadSpecInv == ASSUME Load!LoadAssumption PROVE Load!Spec => []LoadInv
<1>1. Load!Init => LoadInv
  BY LoadInit
<1>2. LoadInv /\ [Load!Next]_Load!loadVars => LoadInv'
  BY LoadNext
<1> QED BY <1>1, <1>2, PTL DEF Load!Spec

(* Evidence is that of the day it was asked for and not older than Ttl, a       *)
(* failure is not kept, and one thread loads at a time, for any number of       *)
(* threads, days and calls (CachedLoader.load).                               *)
THEOREM EvidenceIsOfItsDayAlways == ASSUME Load!LoadAssumption PROVE Load!Spec => []Load!EvidenceIsOfItsDay
<1>1. LoadInv => Load!EvidenceIsOfItsDay
  BY DEF LoadInv
<1> QED BY LoadSpecInv, <1>1, PTL

(* A document in which a piece that a judgement needs was changed serves for    *)
(* none, unless the piece can be told all the same, whichever tool, document    *)
(* and change it is (article_text, law_paragraph, annex_text, _law_item).      *)
THEOREM EvidenceIsWholeAlways == ASSUME Load!LoadAssumption PROVE Load!Spec => []Load!EvidenceIsWhole
<1>1. LoadInv => Load!EvidenceIsWhole
  <2> SUFFICES ASSUME LoadInv, \E t \in LoadThread: served[t].what = "evidence",
                      NEW n \in Load!Needs[evidenceOf.tool]
               PROVE  LET edit == IF n.doc = evidenceOf.doc /\ Load!Place(n) = evidenceOf.edit.place
                                  THEN evidenceOf.edit.what ELSE "nothing"
                      IN \/ edit \in {"nothing", "branch beside"}
                         \/ edit = "no number" /\ n.kind = "article"
                         \/ edit = "twice" /\ n.kind = "item"
                         \/ edit = "other words" /\ n.words \subseteq {"text", "title"}
    BY DEF Load!EvidenceIsWhole
  <2>1. evidenceOf # Load!Unknown /\ Load!Available(evidenceOf)
    BY DEF LoadInv, EvidenceStands, Stands
  <2>2. evidenceOf.tool \in DOMAIN Load!Needs /\ evidenceOf.edit \in Load!Edits(evidenceOf.tool, evidenceOf.doc)
    BY <2>1 DEF LoadInv, EvidenceOfTool
  <2>3. CASE n.doc = evidenceOf.doc /\ Load!Place(n) = evidenceOf.edit.place
    BY <2>1, <2>2, <2>3, AvailableIsWhole, Zenon
  <2>4. CASE ~(n.doc = evidenceOf.doc /\ Load!Place(n) = evidenceOf.edit.place)
    BY <2>4
  <2> QED BY <2>3, <2>4
<1> QED BY LoadSpecInv, <1>1, PTL
=============================================================================

----------------------------- MODULE LawLibrary -----------------------------
(* The texts of one law in the database: a check every night that fetches the *)
(* list of versions and the text of each (app/db/law_cache.py, refresh_laws),  *)
(* and tools that read the version in force (load_law in                      *)
(* app/tools/common/law.py), both through fetchers that look into the          *)
(* database first (app/db/fetchers.py).  Calls of the ministry fail, the       *)
(* database fails and is left alone for a while, nights are missed while the   *)
(* server is down, and a tool may write what it was answered before a check.   *)
EXTENDS Naturals, FiniteSets, FiniteSetsExt, SequencesExt

-----------------------------------------------------------------------------
(* Versions of one law or notice, as a search of the ministry of legislation  *)
(* lists them: which is in force on a day, and what changed between two lists *)
(* (app/tools/common/law.py, law_sources.py; app/db/law_changes.py).          *)
(* Dates are numbers of days.                                                 *)

(* The same number may be listed twice, if parts of it come into force later.  *)
LawVersion(id, enforce, issued) == [id |-> id, enforce |-> enforce, issued |-> issued]

(* A list may be cut off: complete says that it has as many items as it counts.*)
Listed(items, complete) == [items |-> items, complete |-> complete]

Ids(versions) == {v.id : v \in versions}

InForce(list, day) == {v \in list.items: v.enforce <= day}

LatestIssued(versions) == {v \in versions: v.issued = Max({w.issued : w \in versions})}

LatestEnforced(versions) == {v \in versions: v.enforce = Max({w.enforce : w \in versions})}

(* Of the versions in force those issued last, and of these the last in force. *)
Applied(list, day) == LatestEnforced(LatestIssued(InForce(list, day)))

NoVersion == "none"

(* select_version: a version is not guessed, not from a list that is cut off   *)
(* and not among several that came into force the same day.                   *)
SelectVersion(list, day) ==
  IF ~list.complete \/ InForce(list, day) = {} THEN NoVersion
  ELSE IF Cardinality(Ids(Applied(list, day))) # 1 THEN NoVersion
  ELSE CHOOSE id \in Ids(Applied(list, day)): TRUE

-----------------------------------------------------------------------------
Change(kind, id, day) == [kind |-> kind, id |-> id, day |-> day]

(* Versions are compared with their dates: one that is postponed is announced  *)
(* again.  The first list announces nothing.                                  *)
Announced(known, before, after, today) ==
  IF ~known THEN {}
  ELSE {Change("announced", v.id, today) : v \in after.items \ before.items}

(* Mutant: what was applied yesterday is looked up as of today.               *)
PreviouslyAsOfToday(known, before, after, today) ==
  SelectVersion(IF known THEN before ELSE after, today)

Previously(known, before, after, today) ==
  SelectVersion(IF known THEN before ELSE after, today - 1)

AppliedChange(previous, after, today) ==
  LET current == SelectVersion(after, today)
  IN IF NoVersion \in {current, previous} \/ current = previous THEN {}
     ELSE {Change("applied", current, today)}

(* Versions of today that are not used, because another was issued later.      *)
SkippedChanges(after, today) ==
  {Change("skipped", v.id, today) :
     v \in {w \in after.items: w.enforce = today /\ w.id # SelectVersion(after, today)}}

DetectChanges(known, before, after, today) ==
  Announced(known, before, after, today)
    \cup AppliedChange(Previously(known, before, after, today), after, today)
    \cup SkippedChanges(after, today)

-----------------------------------------------------------------------------

CONSTANTS
  LawLists,          \* what the ministry may list, one after another
  LastDay,           \* bound: days
  Recheck,           \* days after which a tool asks again for the list
  WrongTexts         \* versions for whose number the ministry has another text

VARIABLES
  day,
  ministry,   \* what the ministry lists now
  dbUp,       \* the database is not skipped (DbSkip)
  stored,     \* the list in the database, until when it counts, who wrote it, and
              \* whether a check has stored the texts of all of it
  bodies,     \* ids of the versions whose text is in the database
  check,      \* the nightly check: before, found, what is to be fetched
  checked,    \* today's check ended without a failure, and compared with one before
  reader,     \* a tool that loads the law
  used,       \* the versions a tool used yesterday and today after the check, if any
  reported,   \* changes of today that were handed to the sink
  announced   \* ids of the versions that were ever reported as new

vars == <<day, ministry, dbUp, stored, bodies, check, checked, reader, used, reported, announced>>

NoList == [known |-> FALSE, list |-> Listed({}, TRUE), expires |-> 0, by |-> "nobody",
           whole |-> FALSE]

Stored(list, by) == [known |-> TRUE, list |-> list, expires |-> day + Recheck, by |-> by,
                      whole |-> FALSE]

NoCheck == [running |-> FALSE, last |-> 0, before |-> NoList, found |-> Listed({}, TRUE), todo |-> {},
            kept |-> TRUE]

NoReader == [phase |-> "idle", day |-> 0, list |-> Listed({}, TRUE), version |-> NoVersion]

Init ==
  /\ day = 1 /\ dbUp = TRUE /\ stored = NoList /\ bodies = {} /\ check = NoCheck
  /\ ministry = LawLists[1]
  /\ checked = FALSE /\ reader = NoReader
  /\ used = [yesterday |-> NoVersion, today |-> NoVersion] /\ reported = {} /\ announced = {}

(* The ministry issues, postpones and withdraws versions, and drops old ones.  *)
Publish ==
  /\ check.last # day /\ reader.phase = "idle"
  /\ ministry' \in ToSet(LawLists)
  /\ UNCHANGED <<day, dbUp, stored, bodies, check, checked, reader, used, reported, announced>>

NextDay ==
  /\ day < LastDay /\ ~check.running /\ reader.phase \in {"idle", "failed", "unavailable"}
  /\ day' = day + 1 /\ checked' = FALSE /\ reported' = {}
  /\ used' = [yesterday |-> used.today, today |-> NoVersion]
  /\ UNCHANGED <<ministry, dbUp, stored, bodies, check, reader, announced>>

(* After an error the database is skipped for a minute.                        *)
DbFails ==
  /\ dbUp /\ dbUp' = FALSE
  /\ UNCHANGED <<day, ministry, stored, bodies, check, checked, reader, used, reported, announced>>

DbTriedAgain ==
  /\ ~dbUp /\ dbUp' = TRUE
  /\ UNCHANGED <<day, ministry, stored, bodies, check, checked, reader, used, reported, announced>>

-----------------------------------------------------------------------------
(* cached: what the database has, whether expired or not.                     *)
Cached == IF dbUp THEN stored ELSE NoList

Write(list, by) == stored' = IF dbUp THEN Stored(list, by) ELSE stored

(* Mutant: any answer of the ministry replaces the list that is stored.        *)
AcceptsAll(list) == TRUE

(* An answer without a version of the law is not stored.                      *)
Accepts(list) == list.items # {}

CheckFails ==
  /\ check.last # day /\ ~check.running
  /\ check' = [NoCheck EXCEPT !.last = day]
  /\ UNCHANGED <<day, ministry, dbUp, stored, bodies, checked, reader, used, reported, announced>>

(* Mutant: only the texts of what is in force are fetched.                     *)
TextsInForce(list) == Ids(InForce(list, day))

TextsOf(list) == Ids(list.items)

(* search.refresh: the list is stored before the texts are fetched.            *)
CheckList ==
  /\ check.last # day /\ ~check.running /\ Accepts(ministry)
  /\ check' = [running |-> TRUE, last |-> day, before |-> Cached, found |-> ministry,
               todo |-> TextsOf(ministry), kept |-> dbUp]
  /\ Write(ministry, "check")
  /\ UNCHANGED <<day, ministry, dbUp, bodies, checked, reader, used, reported, announced>>

HasBody(id) == dbUp /\ id \in bodies

(* A text that is stored is not fetched again.                                *)
CheckText ==
  /\ check.running /\ check.todo # {}
  /\ \E id \in check.todo:
       /\ check' = [check EXCEPT !.todo = @ \ {id}, !.kept = @ /\ dbUp]
       /\ bodies' = IF dbUp THEN bodies \cup {id} ELSE bodies
  /\ UNCHANGED <<day, ministry, dbUp, stored, checked, reader, used, reported, announced>>

(* One text that cannot be fetched ends the check of the law.                  *)
CheckTextFails ==
  /\ check.running /\ \E id \in check.todo: ~HasBody(id)
  /\ check' = [NoCheck EXCEPT !.last = check.last]
  /\ UNCHANGED <<day, ministry, dbUp, stored, bodies, checked, reader, used, reported, announced>>

CheckEnds ==
  /\ check.running /\ check.todo = {}
  /\ check' = [NoCheck EXCEPT !.last = check.last]
  /\ checked' = (check.before.by = "check")
  /\ reported' = DetectChanges(check.before.known, check.before.list, check.found, day)
  /\ announced' = announced \cup {c.id : c \in {d \in reported': d.kind = "announced"}}
  /\ stored' = IF check.kept /\ stored.list = check.found /\ stored.by = "check"
               THEN [stored EXCEPT !.whole = TRUE] ELSE stored
  /\ UNCHANGED <<day, ministry, dbUp, bodies, reader, used>>

-----------------------------------------------------------------------------
Fresh(entry) == entry.known /\ entry.expires > day

(* What a tool makes of a list: the version in force on its day, or that there  *)
(* is none that can be trusted.                                               *)
Picked(as_of, list) ==
  LET id == SelectVersion(list, as_of)
  IN IF id = NoVersion THEN [NoReader EXCEPT !.phase = "unavailable"]
     ELSE [phase |-> "text", day |-> as_of, list |-> list, version |-> id]

ReadStored ==
  /\ reader.phase = "idle" /\ Fresh(Cached)
  /\ reader' = Picked(day, stored.list)
  /\ UNCHANGED <<day, ministry, dbUp, stored, bodies, check, checked, used, reported, announced>>

ReadAnswered ==
  /\ reader.phase = "idle" /\ ~Fresh(Cached)
  /\ reader' = IF Accepts(ministry)
               THEN [NoReader EXCEPT !.phase = "write", !.day = day, !.list = ministry]
               ELSE Picked(day, IF Cached.known THEN stored.list ELSE ministry)
  /\ UNCHANGED <<day, ministry, dbUp, stored, bodies, check, checked, used, reported, announced>>

StaleIsEnough(entry) == entry.known

ReadUnanswered ==
  /\ reader.phase = "idle" /\ ~Fresh(Cached)
  /\ reader' = IF StaleIsEnough(Cached) THEN Picked(day, stored.list)
               ELSE [NoReader EXCEPT !.phase = "failed"]
  /\ UNCHANGED <<day, ministry, dbUp, stored, bodies, check, checked, used, reported, announced>>

ReadWrites ==
  /\ reader.phase = "write"
  /\ Write(reader.list, "tool")
  /\ reader' = Picked(reader.day, reader.list)
  /\ UNCHANGED <<day, ministry, dbUp, bodies, check, checked, used, reported, announced>>

(* The text must say that it is of that law (check_body); it is stored before.  *)
ReadText ==
  /\ reader.phase = "text"
  /\ bodies' = IF dbUp THEN bodies \cup {reader.version} ELSE bodies
  /\ LET right == reader.version \notin WrongTexts
         after == /\ check.last = day /\ reader.day = day
                  /\ ~check.running /\ reader.list = stored.list /\ stored.by = "check"
     IN /\ reader' = IF right THEN NoReader ELSE [NoReader EXCEPT !.phase = "unavailable"]
        /\ used' = IF right /\ after THEN [used EXCEPT !.today = reader.version] ELSE used
  /\ UNCHANGED <<day, ministry, dbUp, stored, check, checked, reported, announced>>

ReadTextFails ==
  /\ reader.phase = "text" /\ ~HasBody(reader.version)
  /\ reader' = [NoReader EXCEPT !.phase = "failed"]
  /\ UNCHANGED <<day, ministry, dbUp, stored, bodies, check, checked, used, reported, announced>>

Leave ==
  /\ reader.phase \in {"unavailable", "failed"}
  /\ reader' = NoReader
  /\ UNCHANGED <<day, ministry, dbUp, stored, bodies, check, checked, used, reported, announced>>

Next ==
  \/ Publish \/ NextDay \/ DbFails \/ DbTriedAgain
  \/ CheckFails \/ CheckList \/ CheckText \/ CheckTextFails \/ CheckEnds
  \/ ReadStored \/ ReadAnswered \/ ReadUnanswered \/ ReadWrites \/ ReadText \/ ReadTextFails \/ Leave

Spec == Init /\ [][Next]_vars

-----------------------------------------------------------------------------
TypeOK ==
  /\ day \in 1 .. LastDay /\ dbUp \in BOOLEAN
  /\ stored.list \in ToSet(LawLists) \cup {Listed({}, TRUE)} /\ stored.by \in {"nobody", "check", "tool"}
  /\ check.todo \cup bodies \subseteq UNION {Ids(list.items) : list \in ToSet(LawLists)}
  /\ reader.phase \in {"idle", "write", "text", "unavailable", "failed"}

(* A list of versions that was stored stays until a better answer replaces it,  *)
(* and no tool that can see one is turned away because the ministry does not    *)
(* answer (USE_STALE_ON_ERROR, accept): the law of yesterday is mostly right.   *)
StoredListsServe ==
  [][/\ stored.known => stored'.known /\ stored'.list.items # {}
     /\ reader'.phase = "failed" /\ reader.phase = "idle" => ~Cached.known]_vars

(* On the day a version comes into force no tool needs the ministry for it:     *)
(* after a check that went through, the texts of all versions are stored, those *)
(* of the future too (law_cache.py, module docstring).                          *)
TextsAreReady == stored.whole => Ids(stored.list.items) \subseteq bodies

(* If tools use another version than the day before, the check of that night    *)
(* has reported it applied; unless it failed, or a tool replaced the list the   *)
(* check would have compared with.                                             *)
ChangesOfUseReported ==
  checked /\ NoVersion \notin {used.yesterday, used.today} /\ used.yesterday # used.today
    => Change("applied", used.today, day) \in reported

(* The list that is stored before a check is compared with the one that         *)
(* replaces it, and what is new is handed on (refresh_laws): once a check is     *)
(* over, no version it has stored anew is still to be announced.               *)
NewVersionsAnnounced ==
  [][check.running /\ ~check'.running /\ check.before.known /\ stored'.list = check.found
       => Ids(check.found.items \ check.before.list.items) \subseteq announced']_vars
=============================================================================

---------------------------- MODULE SessionManager ----------------------------
(***************************************************************************)
(* The diagnosis session manager of the AI server (ai/app/sessions).       *)
(*                                                                         *)
(* Threads: the event loop, which accepts, resumes and restores sessions   *)
(* one request at a time ("door"); the workers of the pool, which run the  *)
(* diagnosis job; and the expirers, the periodic sweeper and the drain at  *)
(* shutdown.  They share the store, the capacity counter, the pool queue   *)
(* and the list of futures, each behind its own lock: a step below is what *)
(* a thread does under one lock, and every step of another thread may fall *)
(* between two of them.  In particular a change is stored first and        *)
(* announced afterwards, outside the lock of the store.                    *)
(*                                                                         *)
(* Time is abstract: a run becomes overdue (SESSION_MAX_DURATION_SECONDS   *)
(* after it was accepted) and retentions end at any moment.  A request     *)
(* that is refused changes nothing and is not a step.                      *)
(***************************************************************************)
EXTENDS Integers, FiniteSets, Sequences

CONSTANTS Product,            \* product ids of the backend and of the sandbox
          DevProducts,        \* those issued by submit_dev: run type "test", no callbacks
          Worker,             \* threads of the pool
          MaxInflight,        \* MAX_INFLIGHT_SESSIONS
          MaxDevInflight,     \* MAX_DEV_INFLIGHT_SESSIONS
          MaxQuestionRounds,  \* MAX_QUESTION_ROUNDS
          PublicStages,       \* stages the backend is shown
          NoProduct,          \* owner of a run id not issued yet
          Restorable,         \* does the server have a database to archive sessions in?
          ArchiveMayFail,     \* may a write to, or the load of, the archive fail?
          MaxRuns,            \* bound: runs issued in a behaviour
          MaxBatch,           \* bound: products of one request
          MaxReports,         \* bound: stage and tool reports of one run
          MaxCrashes          \* bound: restarts of the server

ASSUME SizesAssumption ==
    /\ MaxInflight \in Nat /\ MaxDevInflight \in Nat /\ MaxQuestionRounds \in Nat
    /\ MaxRuns \in Nat /\ MaxBatch \in Nat /\ MaxReports \in Nat /\ MaxCrashes \in Nat
    /\ Restorable \in BOOLEAN /\ ArchiveMayFail \in BOOLEAN

ASSUME ProductAssumption ==
    /\ DevProducts \subseteq Product
    /\ NoProduct \notin Product
    /\ IsFiniteSet(Product) /\ IsFiniteSet(Worker)

Run      == 1 .. MaxRuns
Expirers == {"sweeper", "drain"}
NoRun    == 0

INSTANCE EventBuilder

-----------------------------------------------------------------------------
(***************************************************************************)
(* The transition table and the status traits of a diagnosis session       *)
(* (ai/app/sessions/transitions.py).  A change is applied to a session     *)
(* only from the statuses the table lists; anything else is refused.       *)
(***************************************************************************)

Statuses == {"ACCEPTED", "RUNNING", "AWAITING_INPUT", "COMPLETED", "FAILED"}

(* The statuses a change may be applied in, and the status it leads to.    *)
(* ChangeStage and ReportTool keep the status: they only announce.         *)
Sources == [ Start       |-> {"ACCEPTED"},
             ChangeStage |-> {"RUNNING"},
             ReportTool  |-> {"RUNNING"},
             Complete    |-> {"RUNNING"},
             AskUser     |-> {"RUNNING"},
             Resume      |-> {"AWAITING_INPUT"},
             Fail        |-> {"ACCEPTED", "RUNNING"} ]

Target == [ Start       |-> "RUNNING",
            ChangeStage |-> "RUNNING",
            ReportTool  |-> "RUNNING",
            Complete    |-> "COMPLETED",
            AskUser     |-> "AWAITING_INPUT",
            Resume      |-> "ACCEPTED",
            Fail        |-> "FAILED" ]

(* STATUS_TRAITS, one set per trait.                                        *)
BlocksNewAccept == {"ACCEPTED", "RUNNING"}
TimesOut        == {"ACCEPTED", "RUNNING"}
Retained        == Statuses \ TimesOut          \* purged once their retention is over
Archived        == {"ACCEPTED", "RUNNING", "AWAITING_INPUT"}

-----------------------------------------------------------------------------

VARIABLES
  sessions,   \* the store: product -> session
  archive,    \* rows of diagnosis_sessions: product -> session; survives a crash
  skipping,   \* DbSkip: the archive is left alone after a failure
  issued,     \* run ids 1..issued have been drawn
  owner,      \* the product of each run (its ExecutionContext)
  inflight,   \* SessionCapacity._inflight
  devRuns,    \* SessionCapacity._dev_runs
  queue,      \* work queue of the thread pool
  futures,    \* SessionManager._futures
  workers,    \* what each worker thread is doing
  expirers,   \* what each expirer is doing
  door,       \* what the event loop is doing
  overdue,    \* runs accepted longer ago than the maximum duration
  builder,    \* the EventBuilder
  sent,       \* callbacks put in the outbox so far, per product; a history
  phase,      \* "starting", "up", "draining" or "down"
  crashes     \* restarts so far

storeVars    == <<sessions, archive, skipping>>
capacityVars == <<inflight, devRuns>>
poolVars     == <<queue, futures, workers>>
callbackVars == <<builder, sent>>
contextVars  == <<issued, owner>>
lifeVars     == <<phase, crashes>>
vars == <<storeVars, capacityVars, poolVars, callbackVars, contextVars, lifeVars,
          expirers, door, overdue>>

-----------------------------------------------------------------------------
(* Sessions, their store and their archive.                                *)

Causes == {"none", "TIMEOUT", "JOB"}        \* error_code

Session == {s \in [run : Run \cup {NoRun}, status : Statuses \cup {"ABSENT"},
                   round : Nat, cause : Causes] : s.run = NoRun <=> s.status = "ABSENT"}

Absent == [run |-> NoRun, status |-> "ABSENT", round |-> 0, cause |-> "none"]
Accepted(r) == [run |-> r, status |-> "ACCEPTED", round |-> 0, cause |-> "none"]

(* SessionStore._archived: rows are kept for sessions to bring back after  *)
(* a restart, never for the sandbox.                                       *)
Kept(p, s) == s.status \in Archived /\ p \notin DevProducts

(* _archive_change: a session to keep is saved, any other one is removed.  *)
SavedOnly(p, s) == IF Kept(p, s) THEN s ELSE archive[p]     \* mutant: nothing is removed
Row(p, s) == IF Kept(p, s) THEN s ELSE Absent

(* The rows of the products whose session changes in this step.  While the *)
(* database is being skipped nothing is written; a batch that fails half   *)
(* way has written its first rows.                                         *)
Persist(changed) ==
    LET touched == {p \in changed : Restorable /\ (Kept(p, sessions[p]) \/ Kept(p, sessions'[p]))}
    IN \E done \in SUBSET touched :
         /\ \/ ~skipping /\ done = touched /\ UNCHANGED skipping
            \/ skipping /\ done = {} /\ UNCHANGED skipping
            \/ /\ ArchiveMayFail /\ ~skipping /\ done # touched
               /\ \A p \in done, q \in touched \ done : sessions'[p].run < sessions'[q].run
               /\ skipping' = TRUE
         /\ archive' = [p \in Product |-> IF p \in done THEN Row(p, sessions'[p]) ELSE archive[p]]

Set(p, s) == sessions' = [sessions EXCEPT ![p] = s] /\ Persist({p})

(* SessionStore.replace and the transition table: only the run the change  *)
(* is about may change the session, and only from a listed status.         *)
ApplicableToProduct(r, change) == sessions[owner[r]].status \in Sources[change]  \* mutant: run not compared
ApplicableToRun(r, change) == sessions[owner[r]].run = r       \* mutant: status not looked up
Applicable(r, change) ==
    LET s == sessions[owner[r]] IN s.run = r /\ s.status \in Sources[change]

Moved(s, change) == [s EXCEPT !.status = Target[change]]

SessionAfter(s, change, cause) ==
    CASE change = "AskUser" -> [Moved(s, change) EXCEPT !.round = @ + 1]
      [] change = "Fail"    -> [Moved(s, change) EXCEPT !.cause = cause]
      [] OTHER              -> Moved(s, change)

Apply(r, change, cause) ==
    /\ Applicable(r, change)
    /\ Set(owner[r], SessionAfter(sessions[owner[r]], change, cause))

(* SessionStore.unfinished.                                                *)
UnfinishedRunning == {p \in Product : sessions[p].status = "RUNNING"}   \* mutant: queued ones are left out
Unfinished == {p \in Product : sessions[p].status \in TimesOut}

(* SessionUpdater._publish: the listener numbers the callbacks and puts    *)
(* them in the outbox in one step.  Sandbox runs have no diagnosis_id.     *)
Publish(e) ==
    IF owner[e.run] \in DevProducts THEN UNCHANGED callbackVars
    ELSE \E convertible \in IF e.kind = "Completed" THEN BOOLEAN ELSE {TRUE} :
           /\ builder' = Remembered(builder, e)
           /\ sent' = [sent EXCEPT ![owner[e.run]] = @ \o Built(builder, e, convertible)]

EventOf(r, kind, stage) == [kind |-> kind, run |-> r, stage |-> stage]

(* The event an outcome leaves behind (transitions.py, apply).             *)
Announcement == [ Complete |-> "Completed", AskUser |-> "AwaitingInput", Fail |-> "Failed" ]

-----------------------------------------------------------------------------
(* SessionCapacity: check and take.                                        *)

RoomNow(n) == inflight <= MaxInflight                    \* mutant: the new runs are not counted
Room(n) == inflight + n <= MaxInflight
DevRoomForOne(n) == Cardinality(devRuns) < MaxDevInflight   \* mutant: the size of the batch is ignored
DevRoom(n) == Cardinality(devRuns) + n <= MaxDevInflight

OnePlaceMore(runs) == inflight + 1                       \* mutant: one place for the whole batch
PlacesWith(runs) == inflight + Cardinality(runs)

-----------------------------------------------------------------------------
(* The event loop: submit, submit_dev, resume, and restore at start-up.    *)

Closed == [pc |-> "idle", batch |-> << >>, run |-> NoRun, round |-> 0, todo |-> {}, fails |-> {}]

DoorPcs == {"idle", "add", "take", "resume", "schedule", "register", "announce"}

Door == {d \in [pc : DoorPcs, batch : Seq(Product), run : Run \cup {NoRun}, round : Nat,
                todo : SUBSET Run, fails : SUBSET Run] :
           d.run # NoRun <=> d.pc \in {"resume", "register", "announce"}}

Batches(products) ==
    UNION { {b \in [1 .. n -> products] : \A i, j \in 1 .. n : b[i] = b[j] => i = j}
            : n \in 1 .. MaxBatch }

(* _accept, the checks: room for the whole batch, and no product of it has *)
(* a session that blocks a new one.  Otherwise the whole batch is refused. *)
AcceptCheck(batch) ==
    /\ phase = "up" /\ door.pc = "idle"
    /\ issued + Len(batch) <= MaxRuns
    /\ Room(Len(batch))
    /\ \A i \in DOMAIN batch : sessions[batch[i]].status \notin BlocksNewAccept
    /\ door' = [Closed EXCEPT !.pc = "add", !.batch = batch]
    /\ UNCHANGED <<storeVars, capacityVars, poolVars, callbackVars, contextVars, lifeVars,
                   expirers, overdue>>

Submit == \E batch \in Batches(Product \ DevProducts) : AcceptCheck(batch)

(* submit_dev draws fresh product ids and also checks its own limit.       *)
SubmitDev ==
    \E batch \in Batches({p \in DevProducts : \A r \in Run : owner[r] # p}) :
        /\ DevRoom(Len(batch))
        /\ AcceptCheck(batch)

(* _accept, store.add: new sessions replace the finished or waiting ones.  *)
AcceptAdd ==
    LET new == issued + 1 .. issued + Len(door.batch) IN
    /\ door.pc = "add"
    /\ issued' = issued + Len(door.batch)
    /\ owner' = [r \in Run |-> IF r \in new THEN door.batch[r - issued] ELSE owner[r]]
    /\ sessions' = [p \in Product |->
                      IF \E r \in new : owner'[r] = p
                      THEN Accepted(CHOOSE r \in new : owner'[r] = p)
                      ELSE sessions[p]]
    /\ Persist({owner'[r] : r \in new})
    /\ door' = [Closed EXCEPT !.pc = "take", !.todo = new]
    /\ UNCHANGED <<capacityVars, poolVars, callbackVars, lifeVars, expirers, overdue>>

(* capacity.take, under the lock taken for the checks.                     *)
Take ==
    /\ door.pc = "take"
    /\ inflight' = PlacesWith(door.todo)
    /\ devRuns' = devRuns \cup {r \in door.todo : owner[r] \in DevProducts}
    /\ door' = [door EXCEPT !.pc = "schedule"]
    /\ UNCHANGED <<storeVars, poolVars, callbackVars, contextVars, lifeVars, expirers, overdue>>

(* resume, the capacity check and the read of the session.  A request that *)
(* names another run than the one found is refused later whatever happens. *)
(* Sandbox sessions are not found by the two routes that resume.           *)
ResumeCheck(p, r, round) ==
    /\ phase = "up" /\ door.pc = "idle"
    /\ issued < MaxRuns
    /\ Room(1)
    /\ sessions[p].status # "ABSENT" /\ p \notin DevProducts
    /\ sessions[p].run = r
    /\ door' = [Closed EXCEPT !.pc = "resume", !.run = r, !.round = round]
    /\ UNCHANGED <<storeVars, capacityVars, poolVars, callbackVars, contextVars, lifeVars,
                   expirers, overdue>>

(* resume, store.replace: the session still waits for the answers of this  *)
(* run and round; it becomes a new run, accepted anew.  Resumed tells the  *)
(* backend nothing.  Otherwise the request is refused.                     *)
ResumeReplace ==
    LET p == owner[door.run]
        new == issued + 1
    IN
    /\ door.pc = "resume"
    /\ IF Applicable(door.run, "Resume") /\ sessions[p].round = door.round
       THEN /\ issued' = new
            /\ owner' = [owner EXCEPT ![new] = p]
            /\ Set(p, [Moved(sessions[p], "Resume") EXCEPT !.run = new])
            /\ door' = [Closed EXCEPT !.pc = "take", !.todo = {new}]
       ELSE /\ door' = Closed
            /\ UNCHANGED <<storeVars, contextVars>>
    /\ UNCHANGED <<capacityVars, poolVars, callbackVars, lifeVars, expirers, overdue>>

(* _schedule, pool.submit: in the order the runs were accepted.            *)
Schedule(r) ==
    /\ door.pc = "schedule" /\ r \in door.todo
    /\ \A other \in door.todo : r <= other
    /\ queue' = Append(queue, r)
    /\ door' = [door EXCEPT !.pc = "register", !.run = r, !.todo = @ \ {r}]
    /\ UNCHANGED <<storeVars, capacityVars, futures, workers, callbackVars, contextVars,
                   lifeVars, expirers, overdue>>

QueuedRuns == {queue[i] : i \in DOMAIN queue}
BusyRuns   == {workers[w].run : w \in Worker} \ {NoRun}

(* _schedule, the future is listed; add_done_callback drops it at once     *)
(* when the run is already over.                                           *)
ListedForGood(r) == futures \cup {r}                     \* mutant: listed after its callback was added
Listed(r) == IF r \in QueuedRuns \cup BusyRuns THEN futures \cup {r} ELSE futures

Register ==
    /\ door.pc = "register"
    /\ futures' = Listed(door.run)
    /\ door' = [door EXCEPT !.pc = IF door.todo = {} /\ door.fails = {} THEN "idle" ELSE "schedule",
                            !.run = NoRun]
    /\ UNCHANGED <<storeVars, capacityVars, queue, workers, callbackVars, contextVars,
                   lifeVars, expirers, overdue>>

(* restore: archived sessions come back.  Those accepted and in time are   *)
(* given a place and queued again, without a check of the limit; those     *)
(* overdue and those interrupted while running are failed afterwards;      *)
(* those waiting for answers just wait.  A load that fails finds nothing.  *)
Runnable(s)  == s.status = "ACCEPTED" /\ s.run \notin overdue
WasRunning(s) == s.status = "RUNNING"                    \* mutant: overdue queued ones are overlooked
Interrupted(s) == s.status = "RUNNING" \/ (s.status = "ACCEPTED" /\ s.run \in overdue)

Boot(rows) ==
    LET runnable    == {rows[p].run : p \in {q \in Product : Runnable(rows[q])}}
        interrupted == {rows[p].run : p \in {q \in Product : Interrupted(rows[q])}}
    IN
    /\ phase = "down"
    /\ phase' = "starting"
    /\ sessions' = rows
    /\ inflight' = PlacesWith(runnable)
    /\ door' = IF runnable \cup interrupted = {} THEN Closed
               ELSE [Closed EXCEPT !.pc = "schedule", !.todo = runnable, !.fails = interrupted]
    /\ skipping' \in IF ArchiveMayFail THEN BOOLEAN ELSE {FALSE}
    /\ UNCHANGED <<archive, devRuns, poolVars, callbackVars, contextVars, crashes, expirers, overdue>>

Restore ==
    \/ Boot(archive)
    \/ ArchiveMayFail /\ Boot([p \in Product |-> Absent])

(* restore, the sessions that cannot go on fail as timed out, one by one.  *)
RestoreFail(r) ==
    /\ door.pc = "schedule" /\ door.todo = {} /\ r \in door.fails
    /\ IF Applicable(r, "Fail")
       THEN /\ Apply(r, "Fail", "TIMEOUT")
            /\ door' = [door EXCEPT !.pc = "announce", !.run = r, !.fails = @ \ {r}]
       ELSE /\ door' = [door EXCEPT !.fails = @ \ {r},
                                    !.pc = IF door.fails = {r} THEN "idle" ELSE "schedule"]
            /\ UNCHANGED storeVars
    /\ UNCHANGED <<capacityVars, poolVars, callbackVars, contextVars, lifeVars, expirers, overdue>>

RestoreAnnounce ==
    /\ door.pc = "announce"
    /\ Publish(EventOf(door.run, "Failed", "none"))
    /\ door' = [door EXCEPT !.pc = IF door.fails = {} THEN "idle" ELSE "schedule", !.run = NoRun]
    /\ UNCHANGED <<storeVars, capacityVars, poolVars, contextVars, lifeVars, expirers, overdue>>

(* lifespan: requests are served once the sessions are restored.           *)
Serve ==
    /\ phase = "starting" /\ door.pc = "idle"
    /\ phase' = "up"
    /\ UNCHANGED <<storeVars, capacityVars, poolVars, callbackVars, contextVars, crashes,
                   expirers, door, overdue>>

-----------------------------------------------------------------------------
(* A worker thread: _run and run_session.                                  *)

NoNews == [kind |-> "none", stage |-> "none"]

Idle == [pc |-> "idle", run |-> NoRun, round |-> 0, reports |-> 0, news |-> NoNews]

WorkerPcs == {"idle", "start", "job", "publish", "release", "done"}

Working == {x \in [pc : WorkerPcs, run : Run \cup {NoRun}, round : Nat, reports : 0 .. MaxReports,
                   news : [kind : EventKinds \cup {"none"},
                           stage : PublicStages \cup {"pipeline", "none"}]] :
              /\ x.run = NoRun <=> x.pc = "idle"
              /\ x.news.kind # "none" <=> x.pc = "publish"}

Pick(w) ==
    /\ workers[w].pc = "idle" /\ queue # << >>
    /\ workers' = [workers EXCEPT ![w] = [Idle EXCEPT !.pc = "start", !.run = Head(queue)]]
    /\ queue' = Tail(queue)
    /\ UNCHANGED <<storeVars, capacityVars, futures, callbackVars, contextVars, lifeVars,
                   expirers, door, overdue>>

(* Start; a run that timed out while it was queued is not executed.        *)
Start(w) ==
    LET r == workers[w].run IN
    /\ workers[w].pc = "start"
    /\ IF Applicable(r, "Start")
       THEN /\ Apply(r, "Start", "none")
            /\ workers' = [workers EXCEPT ![w].pc = "job", ![w].round = sessions[owner[r]].round]
       ELSE /\ workers' = [workers EXCEPT ![w].pc = "release"]
            /\ UNCHANGED storeVars
    /\ UNCHANGED <<capacityVars, queue, futures, callbackVars, contextVars, lifeVars,
                   expirers, door, overdue>>

(* _Progress.stage and _Progress.tool.  They leave the stored status as it *)
(* is, and announce nothing when the session is no longer running.         *)
Report(w, kind, stage) ==
    LET change == IF kind = "StageChanged" THEN "ChangeStage" ELSE "ReportTool" IN
    /\ workers[w].pc = "job" /\ workers[w].reports < MaxReports
    /\ Applicable(workers[w].run, change)
    /\ workers' = [workers EXCEPT ![w].pc = "publish", ![w].reports = @ + 1,
                                  ![w].news = [kind |-> kind, stage |-> stage]]
    /\ UNCHANGED <<storeVars, capacityVars, queue, futures, callbackVars, contextVars, lifeVars,
                   expirers, door, overdue>>

ReportStage(w) == \E stage \in PublicStages \cup {"pipeline"} : Report(w, "StageChanged", stage)
ReportTool(w)  == Report(w, "ToolProgressed", "none")

(* The outcome of the job: a result, questions, a failure or an exception. *)
(* Questions beyond the last round become an incomplete result; questions  *)
(* the session refuses are a failure.                                      *)
OutcomesWithOneMore(round) ==                            \* mutant: the limit is off by one
    {"Complete", "Fail"} \cup IF round > MaxQuestionRounds THEN {} ELSE {"AskUser"}
Outcomes(round) == {"Complete", "Fail"} \cup IF round >= MaxQuestionRounds THEN {} ELSE {"AskUser"}

(* The outcome is recorded; one that arrives too late is dropped.          *)
Finish(w) ==
    LET r == workers[w].run IN
    /\ workers[w].pc = "job"
    /\ \E change \in Outcomes(workers[w].round) :
         IF Applicable(r, change)
         THEN /\ Apply(r, change, "JOB")
              /\ workers' = [workers EXCEPT ![w].pc = "publish",
                               ![w].news = [kind |-> Announcement[change], stage |-> "none"]]
         ELSE /\ workers' = [workers EXCEPT ![w].pc = "release"]
              /\ UNCHANGED storeVars
    /\ UNCHANGED <<capacityVars, queue, futures, callbackVars, contextVars, lifeVars,
                   expirers, door, overdue>>

PublishNews(w) ==
    LET news == workers[w].news IN
    /\ workers[w].pc = "publish"
    /\ Publish(EventOf(workers[w].run, news.kind, news.stage))
    /\ workers' = [workers EXCEPT
                     ![w].pc = IF news.kind \in {"StageChanged", "ToolProgressed"} THEN "job" ELSE "release",
                     ![w].news = NoNews]
    /\ UNCHANGED <<storeVars, capacityVars, queue, futures, contextVars, lifeVars,
                   expirers, door, overdue>>

(* _run, finally: the place is given back.                                 *)
Release(w) ==
    /\ workers[w].pc = "release"
    /\ inflight' = inflight - 1
    /\ devRuns' = devRuns \ {workers[w].run}
    /\ workers' = [workers EXCEPT ![w].pc = "done"]
    /\ UNCHANGED <<storeVars, queue, futures, callbackVars, contextVars, lifeVars,
                   expirers, door, overdue>>

(* The future is done and its callback _forget drops it from the list.     *)
Forget(w) ==
    /\ workers[w].pc = "done"
    /\ futures' = futures \ {workers[w].run}
    /\ workers' = [workers EXCEPT ![w] = Idle]
    /\ UNCHANGED <<storeVars, capacityVars, queue, callbackVars, contextVars, lifeVars,
                   expirers, door, overdue>>

-----------------------------------------------------------------------------
(* expire_overdue, run by the sweeper and by drain, and purge.             *)

Resting == [pc |-> "idle", todo |-> {}, run |-> NoRun]

Expirer == {x \in [pc : {"idle", "expire", "publish", "purge", "exit"}, todo : SUBSET Run,
                   run : Run \cup {NoRun}] : x.run # NoRun <=> x.pc = "publish"}

(* What comes after the last overdue session: the sweeper purges, drain    *)
(* lets the process exit.                                                  *)
After(e) == IF e = "sweeper" THEN "purge" ELSE "exit"

(* A snapshot of the overdue sessions, taken under the lock of the store.  *)
Scan(e) ==
    LET late == {sessions[p].run : p \in Unfinished} \cap overdue IN
    /\ phase \in {"up", "draining"} /\ expirers[e].pc = "idle"
    /\ e = "drain" => phase = "draining"
    /\ expirers' = [expirers EXCEPT ![e] =
                      [Resting EXCEPT !.pc = IF late = {} THEN After(e) ELSE "expire", !.todo = late]]
    /\ UNCHANGED <<storeVars, capacityVars, poolVars, callbackVars, contextVars, lifeVars,
                   door, overdue>>

(* Each of them fails, unless it has ended or been replaced meanwhile.     *)
Expire(e, r) ==
    /\ expirers[e].pc = "expire" /\ r \in expirers[e].todo
    /\ IF Applicable(r, "Fail")
       THEN /\ Apply(r, "Fail", "TIMEOUT")
            /\ expirers' = [expirers EXCEPT ![e].pc = "publish", ![e].run = r, ![e].todo = @ \ {r}]
       ELSE /\ expirers' = [expirers EXCEPT ![e].todo = @ \ {r},
                              ![e].pc = IF expirers[e].todo = {r} THEN After(e) ELSE "expire"]
            /\ UNCHANGED storeVars
    /\ UNCHANGED <<capacityVars, poolVars, callbackVars, contextVars, lifeVars, door, overdue>>

PublishTimeout(e) ==
    /\ expirers[e].pc = "publish"
    /\ Publish(EventOf(expirers[e].run, "Failed", "none"))
    /\ expirers' = [expirers EXCEPT ![e].run = NoRun,
                      ![e].pc = IF expirers[e].todo = {} THEN After(e) ELSE "expire"]
    /\ UNCHANGED <<storeVars, capacityVars, poolVars, contextVars, lifeVars, door, overdue>>

(* SessionStore.purge: sessions whose retention is over are forgotten.     *)
Purge ==
    /\ expirers["sweeper"].pc = "purge"
    /\ \E old \in SUBSET {p \in Product : sessions[p].status \in Retained} :
         /\ sessions' = [p \in Product |-> IF p \in old THEN Absent ELSE sessions[p]]
         /\ Persist(old)
    /\ expirers' = [expirers EXCEPT !["sweeper"] = Resting]
    /\ UNCHANGED <<capacityVars, poolVars, callbackVars, contextVars, lifeVars, door, overdue>>

-----------------------------------------------------------------------------
(* Time, shutdown and restart.                                             *)

(* SESSION_MAX_DURATION_SECONDS have passed since the run was accepted.    *)
Live(r) ==
    \E p \in Product :
        \/ phase # "down" /\ sessions[p].run = r /\ sessions[p].status \in TimesOut
        \/ phase = "down" /\ archive[p].run = r /\ archive[p].status \in TimesOut

BecomeOverdue(r) ==
    /\ Live(r) /\ r \notin overdue
    /\ \A earlier \in Run : earlier < r /\ Live(earlier) => earlier \in overdue
    /\ overdue' = overdue \cup {r}
    /\ UNCHANGED <<storeVars, capacityVars, poolVars, callbackVars, contextVars, lifeVars,
                   expirers, door>>

(* DbSkip: CACHE_DB_RETRY_SECONDS have passed since the failure.           *)
RetryArchive ==
    /\ skipping /\ phase # "down"
    /\ skipping' = FALSE
    /\ UNCHANGED <<sessions, archive, capacityVars, poolVars, callbackVars, contextVars, lifeVars,
                   expirers, door, overdue>>

(* drain, once the server has answered its last request: queued runs are   *)
(* cancelled, and their futures with them.  Their places are not given     *)
(* back, and running ones are waited for, up to a limit.                   *)
Drain ==
    /\ phase = "up" /\ door.pc = "idle" /\ crashes < MaxCrashes
    /\ phase' = "draining"
    /\ queue' = << >>
    /\ futures' = futures \ QueuedRuns
    /\ UNCHANGED <<storeVars, capacityVars, workers, callbackVars, contextVars, crashes,
                   expirers, door, overdue>>

(* The process is gone, with everything but the archive: it was killed, or *)
(* it exits after drain.                                                   *)
Stop ==
    /\ phase # "down"
    /\ phase' = "down"
    /\ crashes' = crashes + 1
    /\ sessions' = [p \in Product |-> Absent]
    /\ skipping' = FALSE
    /\ inflight' = 0 /\ devRuns' = {}
    /\ queue' = << >> /\ futures' = {} /\ workers' = [w \in Worker |-> Idle]
    /\ expirers' = [e \in Expirers |-> Resting]
    /\ door' = Closed
    /\ builder' = NewBuilder
    /\ UNCHANGED <<archive, sent, contextVars, overdue>>

Crash == crashes < MaxCrashes /\ Stop
Exit  == expirers["drain"].pc = "exit" /\ Stop

-----------------------------------------------------------------------------
Init ==
    /\ sessions = [p \in Product |-> Absent]
    /\ archive = [p \in Product |-> Absent]
    /\ skipping = FALSE
    /\ issued = 0 /\ owner = [r \in Run |-> NoProduct]
    /\ inflight = 0 /\ devRuns = {}
    /\ queue = << >> /\ futures = {} /\ workers = [w \in Worker |-> Idle]
    /\ expirers = [e \in Expirers |-> Resting]
    /\ door = Closed
    /\ overdue = {}
    /\ builder = NewBuilder
    /\ sent = [p \in Product |-> << >>]
    /\ phase = "up" /\ crashes = 0

Resume == \E p \in Product, r \in Run, round \in 1 .. MaxQuestionRounds : ResumeCheck(p, r, round)

Loop == \/ Submit \/ SubmitDev \/ AcceptAdd \/ Take \/ Resume \/ ResumeReplace
        \/ \E r \in Run : Schedule(r)
        \/ Register

StartUp == Restore \/ RestoreAnnounce \/ Serve \/ \E r \in Run : RestoreFail(r)

Work(w) == Pick(w) \/ Start(w) \/ ReportStage(w) \/ ReportTool(w) \/ Finish(w)
           \/ PublishNews(w) \/ Release(w) \/ Forget(w)

Sweep(e) == Scan(e) \/ PublishTimeout(e) \/ \E r \in Run : Expire(e, r)

Next == \/ Loop \/ StartUp
        \/ \E w \in Worker : Work(w)
        \/ \E e \in Expirers : Sweep(e)
        \/ Purge \/ RetryArchive \/ Drain \/ Crash \/ Exit
        \/ \E r \in Run : BecomeOverdue(r)

Spec == Init /\ [][Next]_vars

(* What the server's scheduling justifies: the event loop, the sweeper and *)
(* the threads keep running and clocks advance, a stopped server is        *)
(* started again; nobody has to ask for a diagnosis.                       *)
LoopProceeds == AcceptAdd \/ Take \/ ResumeReplace \/ Register \/ \E r \in Run : Schedule(r)

SweeperFairness ==
    /\ WF_vars(LoopProceeds) /\ WF_vars(StartUp)
    /\ \A e \in Expirers : WF_vars(Sweep(e))
    /\ WF_vars(Purge) /\ WF_vars(Exit)
    /\ \A r \in Run : WF_vars(BecomeOverdue(r))

(* A thread in a job may hang for ever: reports and outcomes are not fair. *)
WorkerFairness ==
    \A w \in Worker : WF_vars(Pick(w) \/ Start(w) \/ PublishNews(w) \/ Release(w) \/ Forget(w))

HungJobSpec == Spec /\ SweeperFairness
FairSpec    == Spec /\ SweeperFairness /\ WorkerFairness

-----------------------------------------------------------------------------
(* Properties.                                                             *)

(* Types of all variables; what is stored, queued and sent has the shape   *)
(* the code gives it.                                                      *)
TypeOK ==
    /\ sessions \in [Product -> Session] /\ archive \in [Product -> Session]
    /\ skipping \in BOOLEAN
    /\ issued \in 0 .. MaxRuns /\ owner \in [Run -> Product \cup {NoProduct}]
    /\ inflight \in Int /\ devRuns \subseteq Run
    /\ queue \in Seq(Run) /\ futures \subseteq Run /\ workers \in [Worker -> Working]
    /\ expirers \in [Expirers -> Expirer] /\ door \in Door
    /\ overdue \subseteq Run
    /\ builder \in Builder /\ sent \in [Product -> Seq(Callback)]
    /\ phase \in {"starting", "up", "draining", "down"} /\ crashes \in Nat

(* Runs a slot is held for: about to be queued, queued, or in a worker     *)
(* that has not given its slot back.                                       *)
Scheduled == IF door.pc \in {"schedule", "register", "announce"} THEN door.todo ELSE {}
Executing == {w \in Worker : workers[w].pc \notin {"idle", "done"}}
Holders   == Scheduled \cup QueuedRuns \cup {workers[w].run : w \in Executing}

(* The counter of SessionCapacity is exactly the number of runs that still *)
(* have to be executed or are being executed: no slot leaks when a run     *)
(* times out in the queue, is replaced or fails, and none is given back    *)
(* twice (take, release).                                                  *)
CapacityMatchesWork == phase \in {"starting", "up"} => inflight = Cardinality(Holders)

(* The two limits of SessionCapacity hold at every moment, not only when a *)
(* request is checked: runs that timed out but are still executed and late *)
(* answers keep their places.  Restored runs take theirs unchecked, so the *)
(* overall limit is promised only while no restart found rows left over.   *)
WithinLimits ==
    /\ Cardinality(devRuns) <= MaxDevInflight
    /\ inflight >= 0
    /\ crashes = 0 \/ ~ArchiveMayFail => inflight <= MaxInflight

(* A session waiting to run or running always has somebody who will bring  *)
(* it further: its run is about to be queued, queued, in a worker, or will *)
(* be failed by restore (manager.py, _schedule and _run).                  *)
NoStrandedSession ==
    phase \in {"starting", "up"} =>
      \A p \in Product :
        LET s == sessions[p] IN
        /\ s.status = "ACCEPTED" =>
             \/ s.run \in door.todo \cup door.fails \cup QueuedRuns
             \/ \E w \in Worker : workers[w].run = s.run /\ workers[w].pc = "start"
        /\ s.status = "RUNNING" =>
             \/ s.run \in door.fails
             \/ \E w \in Worker : workers[w].run = s.run /\ workers[w].pc \in {"job", "publish"}

(* When no request is being scheduled, the listed futures are those of the *)
(* runs not yet over, so that drain waits for all of them and no others    *)
(* (manager.py, _schedule, _forget and drain).                             *)
FuturesAreTheRuns ==
    door.pc # "register" /\ phase # "down" => futures = QueuedRuns \cup BusyRuns

(* With a database that works, a restart finds exactly the sessions the    *)
(* store would bring back (store.py, _archive_change and purge).           *)
ArchiveMirrorsStore ==
    Restorable /\ ~ArchiveMayFail /\ phase # "down" =>
      archive = [p \in Product |-> IF Kept(p, sessions[p]) THEN sessions[p] ELSE Absent]

(* Questions, result or failure are the last callback of a run, whichever  *)
(* threads announce it and in whatever order, also across a restart        *)
(* (callbacks/events.py and schemas/callback.py:4).                        *)
EndingIsLast ==
    \A p \in Product : \A i, j \in DOMAIN sent[p] :
      i < j /\ sent[p][i].run = sent[p][j].run => sent[p][i].kind \notin Endings

(* The callbacks of a run are numbered from 1 in the order in which they   *)
(* enter the outbox (schemas/callback.py:43, callbacks/__init__.py).       *)
NumberedInOrder ==
    \A p \in Product : \A j \in DOMAIN sent[p] :
      sent[p][j].sequence = Cardinality({i \in 1 .. j : sent[p][i].run = sent[p][j].run})

(* A run fails with TIMEOUT only when it is overdue itself, although the   *)
(* sweeper works on a snapshot that may be older than the session.         *)
TimesOutOnlyOverdue ==
    \A p \in Product : sessions[p].cause = "TIMEOUT" => sessions[p].run \in overdue

(* The backend is asked at most MAX_QUESTION_ROUNDS times for a product,   *)
(* counted over the runs that answers start (runner.py:77).                *)
QuestionRoundsBounded == \A p \in Product : sessions[p].round <= MaxQuestionRounds

(* The run is over: it was issued and nothing will execute it any more.    *)
Ended(r) == r <= issued /\ ~Live(r)
Told(r)  == \E p \in Product : \E i \in DOMAIN sent[p] :
               sent[p][i].run = r /\ sent[p][i].kind \in Endings

RunState(r) == IF r > issued THEN "unused" ELSE IF Live(r) THEN "live" ELSE "ended"

(* What the manager promises: runs are admitted up to the limit, each ends *)
(* once and for all, and is announced at most once, after its end; neither *)
(* late results nor restarts bring one back.                               *)
Lifecycle == INSTANCE RunLifecycle
    WITH Limit <- MaxInflight,
         state <- [r \in Run |-> RunState(r)],
         told  <- [r \in Run |-> Told(r)]
LifecycleSpec == Lifecycle!Spec

(* Every accepted run comes to an end, even if its job hangs for ever or   *)
(* the server restarts (expire_overdue, restore).                          *)
EveryRunEnds == \A r \in Run : Live(r) ~> ~Live(r)

(* Every run of the backend that has ended is announced, unless the        *)
(* process dies first.                                                     *)
EveryEndIsTold ==
    \A r \in Run :
      (Ended(r) /\ owner[r] \notin DevProducts /\ crashes = 0) ~> (Told(r) \/ crashes > 0)

(* transitions.py:130: a finished session is not archived, because its     *)
(* result callback has already gone out.  So a run the archive knows       *)
(* nothing of when the process dies has been announced.                    *)
FinishedWereAnnounced ==
    phase = "down" =>
      \A r \in 1 .. issued :
        owner[r] \notin DevProducts /\ archive[owner[r]] = Absent => Told(r)

(* manager.py:246: restored sessions take their places without a check,    *)
(* because they were within the limit when they were archived.             *)
RestoredWithinLimit == phase = "starting" => inflight <= MaxInflight

=============================================================================

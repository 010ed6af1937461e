------------------------- MODULE DiagnosisProtocol -------------------------
(***************************************************************************)
(* The backend (DiagnosesBackend) and the AI server talking over a network *)
(* that loses, delays and repeats.  The AI server is what its manager      *)
(* promises per product: one session, accepted or resumed as a whole or    *)
(* refused; SessionManager has the detail.  Its callbacks wait in the lane *)
(* of their product (CallbackOutbox), are sent one at a time, and a        *)
(* request that timed out may still be handled after later callbacks.      *)
(***************************************************************************)
EXTENDS DiagnosesBackend, Sequences, SequencesExt

CONSTANTS
  MaxWaiting,  \* callbacks in a lane before more progress is reported
  MaxLate,     \* timed-out callback requests that may still be handled at one time
  MaxCrashes,  \* restarts of the AI server
  ArchiveMayFail  \* may a write to, or the load of, the archive fail?

ASSUME ProtocolAssumption ==
    {MaxWaiting, MaxLate, MaxCrashes} \subseteq Nat /\ ArchiveMayFail \in BOOLEAN

VARIABLES
  ai,       \* product -> its session in the AI server
  archive,  \* product -> its row of diagnosis_sessions; survives a crash
  lanes,    \* product -> callbacks waiting to be sent
  late,     \* callback requests the AI has given up waiting for
  issued,   \* run ids 1..issued have been drawn
  crashes,
  astray    \* products once restored from a row that was out of date; a history

aiVars == <<ai, archive, lanes, late, issued, crashes, astray>>
vars   == <<backendVars, aiVars>>

Session == [status: {"none", "accepted", "running", "waiting", "ended"}, run: Run \cup {NoRun},
            round: Nat, told: Nat]
NoSession == [status |-> "none", run |-> NoRun, round |-> 0, told |-> 0]
Accepted(run, round) == [status |-> "accepted", run |-> run, round |-> round, told |-> 0]
Unfinished == {"accepted", "running"}

(* SessionStore._archived: what is kept of a session to bring it back      *)
(* after a restart.  How much it has told is only in memory.               *)
Kept(s) == IF s.status \in Unfinished \cup {"waiting"} THEN [s EXCEPT !.told = 0] ELSE NoSession

(* _archive_change: a session to keep is saved, any other is removed.      *)
(* While the database fails or is skipped a row stays as it was.           *)
Persist(changed) ==
    LET touched == {p \in changed : Kept(ai[p]) # NoSession \/ Kept(ai'[p]) # NoSession} IN
    \E done \in IF ArchiveMayFail THEN SUBSET touched ELSE {touched} :
        archive' = [p \in Product |-> IF p \in done THEN Kept(ai'[p]) ELSE archive[p]]

Tell(p, kind, number) ==
    lanes' = [lanes EXCEPT ![p] =
                Append(@, [product |-> p, run |-> ai[p].run, kind |-> kind, number |-> number])]

-----------------------------------------------------------------------------
(* Requests.                                                               *)

Reply(c, answer) == calls' = [calls EXCEPT ![c].answer = answer]
Asked(c, kind)   == calls[c] # NoCall /\ calls[c].answer = Open /\ calls[c].kind = kind
Conflicts(products) == {p \in products : ai[p].status \in Unfinished}

(* SessionManager.submit: all the products or none.  A session that waits  *)
(* for answers is replaced.                                                *)
Submit(c) ==
    LET products == calls[c].products
        order    == SetToSeq(products)
        runs     == [p \in products |-> issued + CHOOSE i \in DOMAIN order : order[i] = p]
    IN
    /\ Asked(c, "diagnose")
    /\ IF Conflicts(products) # {}
       THEN /\ Reply(c, [outcome |-> "conflict", conflicts |-> Conflicts(products)])
            /\ UNCHANGED <<ai, archive, issued>>
       ELSE /\ issued + Cardinality(products) <= MaxRuns
            /\ issued' = issued + Cardinality(products)
            /\ ai' = [p \in Product |-> IF p \in products THEN Accepted(runs[p], 0) ELSE ai[p]]
            /\ Persist(products)
            /\ Reply(c, [outcome |-> "accepted", runs |-> runs])
    /\ UNCHANGED <<rows, overall, retries, stuck, lanes, late, crashes, astray>>

(* SessionManager.resume: the session must wait for the answers to this    *)
(* very round of this very run.                                            *)
Waits(p, run, round) == ai[p].status = "waiting" /\ ai[p].run = run /\ ai[p].round = round

ResumeSession(c) ==
    /\ Asked(c, "resume")
    /\ \E p \in calls[c].products :
        \/ /\ ai[p].status = "none"
           /\ Reply(c, [outcome |-> "not_found"])
           /\ UNCHANGED <<ai, archive, issued>>
        \/ /\ ai[p].status # "none" /\ ~Waits(p, calls[c].run, calls[c].round)
           /\ Reply(c, [outcome |-> "conflict"])
           /\ UNCHANGED <<ai, archive, issued>>
        \/ /\ Waits(p, calls[c].run, calls[c].round)
           /\ issued < MaxRuns /\ issued' = issued + 1
           /\ ai' = [ai EXCEPT ![p] = Accepted(issued + 1, ai[p].round)]
           /\ Persist({p})
           /\ Reply(c, [outcome |-> "accepted", runs |-> [q \in {p} |-> issued + 1]])
    /\ UNCHANGED <<rows, overall, retries, stuck, lanes, late, crashes, astray>>

-----------------------------------------------------------------------------
(* Runs.                                                                   *)

Changes(p, statuses, next) ==
    ai[p].status \in statuses /\ ai' = [ai EXCEPT ![p] = next] /\ Persist({p})

(* A thread of the pool takes it.                                          *)
StartRun(p) ==
    /\ Changes(p, {"accepted"}, [ai[p] EXCEPT !.status = "running"])
    /\ UNCHANGED <<backendVars, lanes, late, issued, crashes, astray>>

(* The status stays, so nothing is written to the archive.                 *)
ReportProgress(p) ==
    /\ ai[p].status = "running"
    /\ ai[p].told < MaxProgress[p] /\ Len(lanes[p]) < MaxWaiting
    /\ ai' = [ai EXCEPT ![p].told = @ + 1]
    /\ Tell(p, "progress", ai[p].told + 1)
    /\ UNCHANGED <<backendVars, archive, late, issued, crashes, astray>>

AskUser(p) ==
    /\ ai[p].round < MaxRounds[p]
    /\ Changes(p, {"running"}, [ai[p] EXCEPT !.status = "waiting", !.round = @ + 1, !.told = 0])
    /\ Tell(p, "questions", ai[p].round + 1)
    /\ UNCHANGED <<backendVars, late, issued, crashes, astray>>

Over(s) == [s EXCEPT !.status = "ended", !.told = 0]
EndRun(p) ==
    /\ Changes(p, {"running"}, Over(ai[p]))
    /\ \E kind \in {"result", "failed", "fatal"} : Tell(p, kind, 0)
    /\ UNCHANGED <<backendVars, late, issued, crashes, astray>>

(* A run that was not started in time fails.                               *)
Expire(p) ==
    /\ Changes(p, {"accepted"}, Over(ai[p]))
    /\ Tell(p, "failed", 0)
    /\ UNCHANGED <<backendVars, late, issued, crashes, astray>>

(* The retention of an ended or a waiting session has passed.              *)
Forget(p) ==
    /\ Changes(p, {"waiting", "ended"}, NoSession)
    /\ UNCHANGED <<backendVars, lanes, late, issued, crashes, astray>>

(* A crash takes the sessions and the callbacks with it, and restore       *)
(* brings back the rows it can read, current or not.  A session that waits *)
(* waits again; one that was accepted runs again, or is overdue and fails; *)
(* one that ran fails.  Rows of failed sessions and rows that cannot be    *)
(* read are removed (without a database no row is ever read), unless the   *)
(* database fails: it may also fail to give any row, and keep them all.    *)
Restore(read, failed, left) ==
    /\ {p \in read : archive[p].status = "running"} \subseteq failed
    /\ ai' = [p \in Product |-> IF p \notin read THEN NoSession
                                ELSE IF p \in failed THEN Over(archive[p]) ELSE archive[p]]
    /\ lanes' = [p \in Product |->
                    IF p \in failed
                    THEN <<[product |-> p, run |-> archive[p].run, kind |-> "failed", number |-> 0]>>
                    ELSE <<>>]
    /\ \/ left = read \ failed
       \/ ArchiveMayFail /\ read \ failed \subseteq left /\ left \subseteq read
       \/ ArchiveMayFail /\ read = {} /\ left = Product
    /\ archive' = [p \in Product |-> IF p \in left THEN archive[p] ELSE NoSession]
    /\ astray' = astray \cup {p \in read : archive[p] # Kept(ai[p])}

CrashAI ==
    /\ crashes < MaxCrashes /\ crashes' = crashes + 1
    /\ \E read \in SUBSET {p \in Product : archive[p] # NoSession}, left \in SUBSET Product :
       \E failed \in SUBSET {p \in read : archive[p].status \in Unfinished} :
           Restore(read, failed, left)
    /\ UNCHANGED <<backendVars, late, issued>>

-----------------------------------------------------------------------------
(* Callbacks on their way.                                                 *)

(* The request of the lane's first callback is answered for good.          *)
Deliver(p) ==
    /\ lanes[p] # <<>>
    /\ \E reply \in {"ok", "refused"} : Handle(Head(lanes[p]), reply)
    /\ lanes' = [lanes EXCEPT ![p] = Tail(@)]
    /\ UNCHANGED <<retries, calls, stuck, ai, archive, late, issued, crashes, astray>>

(* The outbox gives up after its retries: no reply, or "again" each time.  *)
GiveUp(p) ==
    /\ lanes[p] # <<>>
    /\ lanes' = [lanes EXCEPT ![p] = Tail(@)]
    /\ UNCHANGED <<backendVars, ai, archive, late, issued, crashes, astray>>

(* The AI stops waiting for the reply and will send the callback again,    *)
(* while the backend may handle the request yet.                           *)
TimeOut(p) ==
    /\ lanes[p] # <<>> /\ Cardinality(late) < MaxLate
    /\ late' = late \cup {Head(lanes[p])}
    /\ UNCHANGED <<backendVars, ai, archive, lanes, issued, crashes, astray>>

HandleLate(m) ==
    /\ m \in late /\ late' = late \ {m}
    /\ \E reply \in {"ok", "refused", "again"} : Handle(m, reply)
    /\ UNCHANGED <<retries, calls, stuck, ai, archive, lanes, issued, crashes, astray>>

-----------------------------------------------------------------------------
Init ==
    /\ BackendInit
    /\ ai = [p \in Product |-> NoSession] /\ lanes = [p \in Product |-> <<>>]
    /\ archive = [p \in Product |-> NoSession]
    /\ late = {} /\ issued = 0 /\ crashes = 0 /\ astray = {}

Backend   == BackendStep /\ UNCHANGED aiVars
Server    == \/ \E c \in Caller : Submit(c) \/ ResumeSession(c)
             \/ \E p \in Product : StartRun(p) \/ ReportProgress(p) \/ AskUser(p) \/ EndRun(p)
                                  \/ Expire(p) \/ Forget(p)
             \/ CrashAI
Delivery  == \/ \E p \in Product : Deliver(p) \/ GiveUp(p) \/ TimeOut(p)
             \/ \E m \in late : HandleLate(m)

Next == Backend \/ Server \/ Delivery
Spec == Init /\ [][Next]_vars

(* Nothing is assumed of the user, of the AI or of the delivery.           *)
FairSpec == Spec /\ BackendFairness

-----------------------------------------------------------------------------
TypeOK ==
    /\ rows \in [Product -> Row(Run, Nat, Nat) \cup {NoRow}]
    /\ overall \in ProcessingStatus \cup {NoRow, "DELETED"}
    /\ \A c \in Caller : calls[c] = NoCall \/ calls[c].products \subseteq Product
    /\ stuck \subseteq Product
    /\ ai \in [Product -> Session] /\ archive \in [Product -> Session] /\ astray \subseteq Product
    /\ \A p \in Product : lanes[p] \in Seq(Callback)
    /\ late \subseteq Callback /\ issued \in 0 .. MaxRuns

(* The stored overall status is what the products' statuses add up to: no  *)
(* transaction changes a product's status and forgets the diagnoses row.   *)
OverallStatus ==
    IF overall = NoRow THEN Existing(rows) = {} ELSE overall = Overall(rows)

(* A product waits for the user only while the AI waits for the answers to *)
(* the same round of the same run, or has no session any more: nobody is   *)
(* asked a question whose answer the AI refuses.  A product whose session  *)
(* was once restored from a row that was out of date is not promised this. *)
AsksWhatAIWaitsFor ==
    \A p \in Product \ astray : StatusIn(p, {"AWAITING_INPUT"}) =>
        \/ Waits(p, rows[p].run, LatestQuestionRound(rows[p]))
        \/ ai[p].status = "none"

(* AiResumeRequestUseCase's default branch is for a wrong request of the   *)
(* backend: whatever is lost or late, an answer that is sent for the first *)
(* time is not refused with 409, so it never ends a product for good.      *)
(* Unless, again, the session is one an out-of-date row brought back.      *)
FirstResumeFits ==
    \A p \in Product \ astray : rows[p] # NoRow => rows[p].error # "RESUME_CONFLICT"

(* What the comments say of every product: 409 answers a wrong request     *)
(* (AiResumeRequestUseCase, AI_COMMON_CONTRACT), and a session brought     *)
(* back although it was over does no harm (session_archive.py).            *)
OnlyWrongRequestsConflict ==
    \A p \in Product : rows[p] # NoRow => rows[p].error # "RESUME_CONFLICT"

(* A product that is completed shows the result of the AI's last run for   *)
(* it: no later run is going on or has ended otherwise, and no out-of-date *)
(* row has put an earlier one in its place.                                *)
ResultOfLastRun ==
    \A p \in Product \ astray : StatusIn(p, {"COMPLETED"}) =>
        ai[p].status = "none" \/ (ai[p].status = "ended" /\ ai[p].run = rows[p].run)

(* A run id is forgotten and learnt with the statuses: a product waiting   *)
(* to be requested has none, and one with questions or a result has the    *)
(* run that led there.  A resume to be sent again belongs to a product in  *)
(* progress, unless an out-of-date session went on by itself meanwhile.    *)
RunIdFitsStatus ==
    \A p \in Product :
        /\ StatusIn(p, {"PENDING"}) => ~IsRunAssigned(rows[p])
        /\ StatusIn(p, {"AWAITING_INPUT", "COMPLETED"}) => IsRunAssigned(rows[p])
        /\ rows[p] # NoRow /\ rows[p].resumePending /\ p \notin astray =>
              rows[p].status = "IN_PROGRESS" /\ rows[p].rounds # {}

(* Progress of a run is never replaced by earlier progress of it, in       *)
(* whatever order repeated callbacks are handled.                          *)
ProgressForward ==
    [][\A p \in Product :
         (rows[p] # NoRow /\ rows'[p] # NoRow /\ rows[p].progress.run = rows'[p].progress.run)
            => rows'[p].progress.number >= rows[p].progress.number]_vars

(* What the owner sees of a product keeps the promises of ProductLifecycle.*)
LifeOf(p) ==
    IF rows[p] = NoRow THEN IF overall = NoRow THEN "none" ELSE "removed"
    ELSE CASE rows[p].status \in {"PENDING", "IN_PROGRESS"} -> "working"
           [] rows[p].status = "AWAITING_INPUT" -> "asking"
           [] rows[p].status = "COMPLETED" -> "done"
           [] rows[p].status = "FAILED" -> IF Retryable(rows[p].error) THEN "failed" ELSE "dead"
RoundOf(p) == IF rows[p] = NoRow THEN 0 ELSE LatestQuestionRound(rows[p])

Lifecycle == INSTANCE ProductLifecycle
               WITH life <- [p \in Product |-> LifeOf(p)], round <- [p \in Product |-> RoundOf(p)]
LifecycleSpec == Lifecycle!Spec

(* A product the user waits for leaves PENDING and IN_PROGRESS, however    *)
(* the AI behaves and whatever the network loses.                          *)
EveryProductSettles ==
    \A p \in Product : StatusIn(p, {"PENDING", "IN_PROGRESS"}) ~>
                         ~StatusIn(p, {"PENDING", "IN_PROGRESS"})
=============================================================================

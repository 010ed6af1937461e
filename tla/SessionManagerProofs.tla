------------------------- MODULE SessionManagerProofs -------------------------
(***************************************************************************)
(* What holds of the session manager for any number of products, workers,  *)
(* runs, restarts and places, whether or not the archive fails.            *)
(*                                                                         *)
(* Type correctness comes first, one lemma per action.  The types of the   *)
(* door, the workers and the expirers also say when they name a run; that  *)
(* is what makes them inductive.  Then come the rounds of questions, the   *)
(* archive, and the work: which runs hold a place and a future, and who    *)
(* has each unfinished session in hand.  The second half is how runs end   *)
(* and what is told of them: why a run fails, how its callbacks are        *)
(* numbered, that its ending is the last of them, that the limits of the   *)
(* server hold, and that the manager implements RunLifecycle.              *)
(***************************************************************************)
EXTENDS SessionManager, SequenceTheorems, FiniteSetTheorems, TLAPS

StoreOK    == sessions \in [Product -> Session] /\ archive \in [Product -> Session]
              /\ skipping \in BOOLEAN
ContextOK  == issued \in 0 .. MaxRuns /\ owner \in [Run -> Product \cup {NoProduct}]
CapacityOK == inflight \in Int /\ devRuns \subseteq Run
PoolOK     == queue \in Seq(Run) /\ futures \subseteq Run /\ workers \in [Worker -> Working]
ExpirersOK == expirers \in [Expirers -> Expirer]
OverdueOK  == overdue \subseteq Run
CallbackOK == builder \in Builder /\ sent \in [Product -> Seq(Callback)]
LifeOK     == phase \in {"starting", "up", "draining", "down"} /\ crashes \in Nat

(* A batch that was let in still fits below the bound on runs.             *)
DoorOK == /\ door \in Door
          /\ door.pc = "add" => issued + Len(door.batch) <= MaxRuns
          /\ door.pc = "resume" => issued < MaxRuns

TypeInv == StoreOK /\ ContextOK /\ CapacityOK /\ PoolOK /\ ExpirersOK /\ DoorOK /\ OverdueOK
           /\ CallbackOK /\ LifeOK

LEMMA RunFacts == NoRun \notin Run /\ Run \subseteq Nat /\ IsFiniteSet(Run)
<1>1. NoRun \notin Run /\ Run \subseteq Nat
  BY SizesAssumption DEF Run, NoRun
<1>2. IsFiniteSet(Run)
  BY SizesAssumption, FS_Interval DEF Run
<1> QED BY <1>1, <1>2

LEMMA RunsAreNumbers == \A r \in Run \cup {NoRun} : r \in Nat
  BY RunFacts DEF NoRun

(* Every run somebody knows of has been issued, and an issued run is one   *)
(* of a product.                                                           *)
Issued == 1 .. issued

OwnersKnown   == \A r \in Issued : owner[r] \in Product
StoredIssued  == \A p \in Product : sessions[p].run <= issued /\ archive[p].run <= issued
WorkersIssued == \A w \in Worker : workers[w].run <= issued
QueueIssued   == \A i \in DOMAIN queue : queue[i] <= issued
DoorIssued    == /\ \A r \in door.todo \cup door.fails : r <= issued
                 /\ door.run <= issued

RunsIssued == OwnersKnown /\ StoredIssued /\ WorkersIssued /\ QueueIssued /\ DoorIssued

-----------------------------------------------------------------------------
(* Stored sessions.                                                        *)

LEMMA AbsentIsSession == Absent \in Session
  BY DEF Absent, Session, Causes

LEMMA AcceptedIsSession == ASSUME NEW r \in Run PROVE Accepted(r) \in Session
  BY RunFacts DEF Accepted, Session, Statuses, Causes

LEMMA PersistType ==
    ASSUME StoreOK, sessions' \in [Product -> Session], NEW changed, Persist(changed)
    PROVE  StoreOK'
  BY AbsentIsSession DEF StoreOK, Persist, Row

LEMMA SetType ==
    ASSUME StoreOK, NEW p, NEW s \in Session, Set(p, s)
    PROVE  StoreOK'
<1>1. sessions' \in [Product -> Session]
  BY DEF Set, StoreOK
<1> QED BY <1>1, PersistType DEF Set

Changes == {"Start", "ChangeStage", "ReportTool", "Complete", "AskUser", "Resume", "Fail"}

LEMMA MovedIsSession ==
    ASSUME NEW s \in Session, NEW change \in Changes, s.status \in Sources[change]
    PROVE  Moved(s, change) \in Session /\ Moved(s, change).run = s.run
           /\ Moved(s, change).round = s.round /\ s.run \in Run
<1> DEFINE t == Moved(s, change)
<1>1. /\ s \in [run : Run \cup {NoRun}, status : Statuses \cup {"ABSENT"}, round : Nat, cause : Causes]
      /\ s.status \in Statuses /\ s.run \in Run
  BY DEF Session, Changes, Sources, Statuses
<1>2. Target[change] \in Statuses
  BY DEF Changes, Target, Statuses
<1>3. /\ t \in [run : Run \cup {NoRun}, status : Statuses \cup {"ABSENT"}, round : Nat, cause : Causes]
      /\ t.run = s.run /\ t.round = s.round /\ t.status = Target[change]
  BY <1>1, <1>2 DEF Moved
<1> QED BY <1>1, <1>2, <1>3, RunFacts DEF Session, Statuses

LEMMA ApplyType ==
    ASSUME StoreOK, NEW r \in Run, NEW change \in Changes, NEW cause \in Causes,
           Apply(r, change, cause)
    PROVE  StoreOK'
<1> DEFINE p == owner[r]
           s == SessionAfter(sessions[p], change, cause)
<1>1. Set(p, s)
  BY DEF Apply
<1>2. CASE p \in Product
  <2>1. sessions[p] \in Session /\ sessions[p].status \in Sources[change]
    BY <1>2 DEF StoreOK, Apply, Applicable
  <2>2. Moved(sessions[p], change) \in Session
    BY <2>1, MovedIsSession
  <2>3. s \in Session
    BY <2>2 DEF SessionAfter, Session, Causes
  <2> QED BY <1>1, <2>3, SetType
<1>3. CASE p \notin Product
  <2>1. sessions' \in [Product -> Session] /\ Persist({p})
    BY <1>1, <1>3 DEF Set, StoreOK
  <2> QED BY <2>1, PersistType
<1> QED BY <1>2, <1>3

-----------------------------------------------------------------------------
(* Callbacks.                                                              *)

LEMMA BuiltType ==
    ASSUME NEW b \in Builder, NEW e \in Event, NEW convertible \in BOOLEAN
    PROVE  Built(b, e, convertible) \in Seq(Callback)
<1> DEFINE at == b.runs[e.run]
<1>1. /\ e.run \in Run /\ at.sequence \in Nat \ {0} /\ at.stage \in PublicStages \cup {"none"}
      /\ e.kind \in EventKinds /\ e.stage \in PublicStages \cup {"pipeline", "none"}
  BY DEF Builder, Event, Progress
<1>2. \A n \in Nat \ {0}, kind \in Endings \cup {"started", "completed", "tool"},
        stage \in PublicStages \cup {"none"} : Number(e.run, n, kind, stage) \in Callback
  BY <1>1 DEF Number, Callback
<1>3. ASSUME e.stage \in PublicStages
      PROVE  StageCallbacks(e.run, at, e.stage) \in Seq(Callback)
  BY <1>1, <1>2, <1>3 DEF StageCallbacks
<1>4. << Number(e.run, at.sequence, "tool", at.stage) >> \in Seq(Callback)
  BY <1>1, <1>2
<1>5. Last(e, at, convertible) \in Seq(Callback)
  BY <1>1, <1>2 DEF Last, Ending, Endings
<1> QED BY <1>1, <1>3, <1>4, <1>5 DEF Built, Announces

LEMMA RememberedType ==
    ASSUME NEW b \in Builder, NEW e \in Event
    PROVE  Remembered(b, e) \in Builder
<1> DEFINE at == b.runs[e.run]
           x == [sequence |-> at.sequence + NumbersUsed(e, at),
                 stage    |-> IF e.kind = "StageChanged" THEN e.stage ELSE at.stage]
<1>1. /\ e.run \in Run /\ at.sequence \in Nat \ {0} /\ at.stage \in PublicStages \cup {"none"}
      /\ b = [runs |-> b.runs, finished |-> b.finished]
      /\ b.runs \in [Run -> Progress] /\ b.finished \subseteq Run
  BY DEF Builder, Event, Progress
<1>2. CASE Announces(b, e) /\ e.kind \in {"StageChanged", "ToolProgressed"}
  <2>1. NumbersUsed(e, at) \in {1, 2}
    <3>1. Len(StageCallbacks(e.run, at, e.stage)) \in {1, 2}
      BY DEF StageCallbacks
    <3> QED BY <3>1 DEF NumbersUsed
  <2>a. at.sequence + NumbersUsed(e, at) \in Nat \ {0}
    BY <1>1, <2>1
  <2>b. x \in Progress
    BY <1>1, <1>2, <2>a DEF Progress, Announces
  <2>2. Remembered(b, e) = [runs |-> [b.runs EXCEPT ![e.run] = x], finished |-> b.finished]
    BY <1>1, <1>2 DEF Remembered
  <2> HIDE DEF x
  <2> QED BY <1>1, <2>b, <2>2 DEF Builder
<1>3. CASE Announces(b, e) /\ e.kind \notin {"StageChanged", "ToolProgressed"}
  <2>1. Fresh \in Progress
    BY DEF Fresh, Progress
  <2>2. Remembered(b, e) = [runs |-> [b.runs EXCEPT ![e.run] = Fresh],
                            finished |-> b.finished \cup {e.run}]
    BY <1>1, <1>3 DEF Remembered
  <2> QED BY <1>1, <2>1, <2>2 DEF Builder
<1>4. CASE ~Announces(b, e)
  BY <1>4 DEF Remembered
<1> QED BY <1>2, <1>3, <1>4

LEMMA PublishType ==
    ASSUME CallbackOK, NEW e \in Event, Publish(e)
    PROVE  CallbackOK'
<1>1. CASE owner[e.run] \in DevProducts
  BY <1>1 DEF Publish, callbackVars, CallbackOK
<1>2. CASE owner[e.run] \notin DevProducts
  <2>1. PICK convertible \in BOOLEAN :
          /\ builder' = Remembered(builder, e)
          /\ sent' = [sent EXCEPT ![owner[e.run]] = @ \o Built(builder, e, convertible)]
    BY <1>2 DEF Publish
  <2>2. builder' \in Builder /\ Built(builder, e, convertible) \in Seq(Callback)
    BY <2>1, BuiltType, RememberedType DEF CallbackOK
  <2>3. sent' \in [Product -> Seq(Callback)]
    BY <2>1, <2>2, ConcatProperties DEF CallbackOK
  <2> QED BY <2>2, <2>3 DEF CallbackOK
<1> QED BY <1>1, <1>2

-----------------------------------------------------------------------------
(* What an action leaves alone keeps its type.                             *)
LEMMA Untouched ==
    /\ StoreOK /\ UNCHANGED storeVars => StoreOK'
    /\ ContextOK /\ UNCHANGED contextVars => ContextOK'
    /\ CapacityOK /\ UNCHANGED capacityVars => CapacityOK'
    /\ PoolOK /\ UNCHANGED poolVars => PoolOK'
    /\ ExpirersOK /\ UNCHANGED expirers => ExpirersOK'
    /\ DoorOK /\ UNCHANGED <<door, contextVars>> => DoorOK'
    /\ OverdueOK /\ UNCHANGED overdue => OverdueOK'
    /\ CallbackOK /\ UNCHANGED callbackVars => CallbackOK'
    /\ LifeOK /\ UNCHANGED lifeVars => LifeOK'
  BY DEF StoreOK, ContextOK, CapacityOK, PoolOK, ExpirersOK, DoorOK, OverdueOK, CallbackOK, LifeOK,
         storeVars, contextVars, capacityVars, poolVars, callbackVars, lifeVars

(* The event loop.                                                         *)

LEMMA DoorRecord ==
    ASSUME NEW pc \in DoorPcs, NEW batch \in Seq(Product), NEW run \in Run \cup {NoRun},
           NEW round \in Nat, NEW todo \in SUBSET Run, NEW fails \in SUBSET Run,
           run # NoRun <=> pc \in {"resume", "register", "announce"}
    PROVE  [pc |-> pc, batch |-> batch, run |-> run, round |-> round,
            todo |-> todo, fails |-> fails] \in Door
  BY DEF Door

(* The door without a batch.                                               *)
OpenedTo(pc, run, round, todo, fails) ==
    [pc |-> pc, batch |-> << >>, run |-> run, round |-> round, todo |-> todo, fails |-> fails]

LEMMA DoorOpened ==
    ASSUME NEW pc \in DoorPcs, NEW run \in Run \cup {NoRun}, NEW round \in Nat,
           NEW todo \in SUBSET Run, NEW fails \in SUBSET Run,
           run # NoRun <=> pc \in {"resume", "register", "announce"}
    PROVE  OpenedTo(pc, run, round, todo, fails) \in Door
<1>1. << >> \in Seq(Product)
  BY EmptySeq
<1> QED BY <1>1, DoorRecord DEF OpenedTo

LEMMA ClosedIsDoor == Closed \in Door
<1>1. Closed = OpenedTo("idle", NoRun, 0, {}, {})
  BY DEF Closed, OpenedTo
<1>2. "idle" \in DoorPcs
  BY DEF DoorPcs
<1>3. NoRun \in Run \cup {NoRun} /\ 0 \in Nat /\ {} \in SUBSET Run
  OBVIOUS
<1> QED BY <1>1, <1>2, <1>3, DoorOpened

LEMMA BatchType ==
    ASSUME NEW P \in SUBSET Product, NEW batch \in Batches(P)
    PROVE  batch \in Seq(Product) /\ Len(batch) \in Nat
<1>1. PICK n \in 1 .. MaxBatch : batch \in [1 .. n -> P]
  BY DEF Batches
<1> QED BY <1>1, SizesAssumption, SeqDef, LenProperties

LEMMA AcceptCheckType ==
    ASSUME TypeInv, NEW batch \in Seq(Product), AcceptCheck(batch)
    PROVE  TypeInv'
<1>1. DoorOK'
  <2>1. /\ door' = [Closed EXCEPT !.pc = "add", !.batch = batch]
        /\ issued' = issued /\ issued + Len(batch) <= MaxRuns
    BY DEF AcceptCheck, contextVars
  <2>2. door' \in Door
    BY <2>1, RunFacts DEF Closed, Door, DoorPcs
  <2> QED BY <2>1, <2>2 DEF DoorOK, Closed
<1> QED BY <1>1, Untouched DEF TypeInv, AcceptCheck

LEMMA SubmitType == ASSUME TypeInv, Submit \/ SubmitDev PROVE TypeInv'
<1>1. CASE Submit
  <2>1. PICK batch \in Batches(Product \ DevProducts) : AcceptCheck(batch)
    BY <1>1 DEF Submit
  <2> QED BY <2>1, BatchType, AcceptCheckType
<1>2. CASE SubmitDev
  <2> DEFINE P == {p \in DevProducts : \A r \in Run : owner[r] # p}
  <2>1. PICK batch \in Batches(P) : AcceptCheck(batch)
    BY <1>2 DEF SubmitDev
  <2>2. P \in SUBSET Product
    BY ProductAssumption
  <2> HIDE DEF P
  <2> QED BY <2>1, <2>2, BatchType, AcceptCheckType
<1> QED BY <1>1, <1>2

LEMMA AcceptAddType == ASSUME TypeInv, AcceptAdd PROVE TypeInv'
<1> DEFINE new == issued + 1 .. issued + Len(door.batch)
<1>1. /\ door.batch \in Seq(Product) /\ Len(door.batch) \in Nat
      /\ issued \in 0 .. MaxRuns /\ issued + Len(door.batch) <= MaxRuns
  BY LenProperties DEF TypeInv, DoorOK, Door, AcceptAdd, ContextOK
<1>2. new \subseteq Run
  BY <1>1, SizesAssumption DEF Run
<1>3. ContextOK'
  <2>1. issued' \in 0 .. MaxRuns
    BY <1>1, SizesAssumption DEF AcceptAdd
  <2>2. \A r \in new : door.batch[r - issued] \in Product
    BY <1>1, ElementOfSeq
  <2>3. owner' \in [Run -> Product \cup {NoProduct}]
    BY <2>2 DEF AcceptAdd, TypeInv, ContextOK
  <2> QED BY <2>1, <2>3 DEF ContextOK
<1>4. StoreOK'
  <2>1. sessions' = [p \in Product |->
                      IF \E r \in new : owner'[r] = p
                      THEN Accepted(CHOOSE r \in new : owner'[r] = p)
                      ELSE sessions[p]]
    BY DEF AcceptAdd
  <2>2. \A p \in Product : (\E r \in new : owner'[r] = p) => (CHOOSE r \in new : owner'[r] = p) \in Run
    BY <1>2
  <2>3. sessions' \in [Product -> Session]
    BY <2>1, <2>2, AcceptedIsSession DEF TypeInv, StoreOK
  <2>4. Persist({owner'[r] : r \in new})
    BY DEF AcceptAdd
  <2> QED BY <2>3, <2>4, PersistType DEF TypeInv
<1>5. DoorOK'
  <2>1. door' = [Closed EXCEPT !.pc = "take", !.todo = new]
    BY DEF AcceptAdd
  <2>2. door' \in Door
    <3>1. door' = OpenedTo("take", NoRun, 0, new, {})
      BY <2>1 DEF Closed, OpenedTo
    <3>2. "take" \in DoorPcs
      BY DEF DoorPcs
    <3> HIDE DEF new
    <3> QED BY <1>2, <3>1, <3>2, DoorOpened
  <2> QED BY <2>1, <2>2 DEF DoorOK, Closed
<1> QED BY <1>3, <1>4, <1>5, Untouched DEF TypeInv, AcceptAdd

LEMMA TakeType == ASSUME TypeInv, Take PROVE TypeInv'
<1>1. CapacityOK'
  <2>1. door.todo \subseteq Run
    BY DEF TypeInv, DoorOK, Door
  <2>2. Cardinality(door.todo) \in Nat
    BY <2>1, RunFacts, FS_Subset, FS_CardinalityType
  <2> QED BY <2>1, <2>2 DEF TypeInv, CapacityOK, Take, PlacesWith
<1>2. DoorOK'
  BY DEF TypeInv, DoorOK, Door, DoorPcs, Take, contextVars
<1> QED BY <1>1, <1>2, Untouched DEF TypeInv, Take

LEMMA ResumeType == ASSUME TypeInv, Resume PROVE TypeInv'
<1>1. PICK p \in Product, r \in Run, round \in 1 .. MaxQuestionRounds : ResumeCheck(p, r, round)
  BY DEF Resume
<1>2. DoorOK'
  <2>1. /\ door' = [Closed EXCEPT !.pc = "resume", !.run = r, !.round = round]
        /\ issued' = issued /\ issued < MaxRuns /\ round \in Nat
    BY <1>1, SizesAssumption DEF ResumeCheck, contextVars
  <2>2. door' \in Door
    <3>1. door' = OpenedTo("resume", r, round, {}, {})
      BY <2>1 DEF Closed, OpenedTo
    <3>2. "resume" \in DoorPcs /\ r # NoRun
      BY RunFacts DEF DoorPcs
    <3> QED BY <2>1, <3>1, <3>2, DoorOpened
  <2> QED BY <2>1, <2>2 DEF DoorOK, Closed
<1> QED BY <1>1, <1>2, Untouched DEF TypeInv, ResumeCheck

LEMMA ResumeReplaceType == ASSUME TypeInv, ResumeReplace PROVE TypeInv'
<1> DEFINE p == owner[door.run]
           new == issued + 1
<1>0. /\ door.run \in Run /\ issued \in Nat /\ new \in Run /\ new \in 0 .. MaxRuns
      /\ owner \in [Run -> Product \cup {NoProduct}]
  BY SizesAssumption DEF TypeInv, DoorOK, Door, ResumeReplace, ContextOK, NoRun, Run
<1>1. CASE Applicable(door.run, "Resume") /\ sessions[p].round = door.round
  <2>1. /\ issued' = new /\ owner' = [owner EXCEPT ![new] = p]
        /\ Set(p, [Moved(sessions[p], "Resume") EXCEPT !.run = new])
        /\ door' = [Closed EXCEPT !.pc = "take", !.todo = {new}]
    BY <1>1 DEF ResumeReplace
  <2>2. ContextOK'
    BY <1>0, <2>1 DEF ContextOK
  <2>3. StoreOK'
    <3>1. CASE p \in Product
      <4>1. Moved(sessions[p], "Resume") \in Session /\ Moved(sessions[p], "Resume").run \in Run
        BY <1>1, <3>1, MovedIsSession DEF TypeInv, StoreOK, Applicable, Changes
      <4>2. [Moved(sessions[p], "Resume") EXCEPT !.run = new] \in Session
        BY <1>0, <4>1, RunFacts DEF Session
      <4> QED BY <2>1, <4>2, SetType DEF TypeInv
    <3>2. CASE p \notin Product
      <4>1. sessions' \in [Product -> Session] /\ Persist({p})
        BY <2>1, <3>2 DEF Set, TypeInv, StoreOK
      <4> QED BY <4>1, PersistType DEF TypeInv
    <3> QED BY <3>1, <3>2
  <2>4. DoorOK'
    <3>1. door' = OpenedTo("take", NoRun, 0, {new}, {})
      BY <2>1 DEF Closed, OpenedTo
    <3>2. "take" \in DoorPcs
      BY DEF DoorPcs
    <3>3. door' \in Door
      BY <1>0, <3>1, <3>2, DoorOpened
    <3> QED BY <2>1, <3>3 DEF DoorOK, Closed
  <2> QED BY <2>2, <2>3, <2>4, Untouched DEF TypeInv, ResumeReplace
<1>2. CASE ~(Applicable(door.run, "Resume") /\ sessions[p].round = door.round)
  <2>1. door' = Closed /\ UNCHANGED <<storeVars, contextVars>>
    BY <1>2 DEF ResumeReplace
  <2>2. DoorOK'
    BY <2>1, ClosedIsDoor DEF DoorOK, Closed
  <2> QED BY <2>1, <2>2, Untouched DEF TypeInv, ResumeReplace
<1> QED BY <1>1, <1>2

LEMMA ScheduleType == ASSUME TypeInv, NEW r \in Run, Schedule(r) PROVE TypeInv'
<1>1. PoolOK'
  BY AppendProperties DEF TypeInv, PoolOK, Schedule
<1>2. DoorOK'
  BY RunFacts DEF TypeInv, DoorOK, Door, DoorPcs, Schedule, contextVars
<1> QED BY <1>1, <1>2, Untouched DEF TypeInv, Schedule

LEMMA RegisterType == ASSUME TypeInv, Register PROVE TypeInv'
<1>1. door.run \in Run
  BY DEF TypeInv, DoorOK, Door, Register
<1>2. PoolOK'
  BY <1>1 DEF TypeInv, PoolOK, Register, Listed
<1>3. DoorOK'
  BY RunFacts DEF TypeInv, DoorOK, Door, DoorPcs, Register, contextVars
<1> QED BY <1>2, <1>3, Untouched DEF TypeInv, Register

(* Start-up.                                                               *)

LEMMA BootType ==
    ASSUME TypeInv, NEW rows \in [Product -> Session], Boot(rows)
    PROVE  TypeInv'
<1> DEFINE runnable    == {rows[p].run : p \in {q \in Product : Runnable(rows[q])}}
           interrupted == {rows[p].run : p \in {q \in Product : Interrupted(rows[q])}}
<1>1. runnable \subseteq Run /\ interrupted \subseteq Run
  BY DEF Runnable, Interrupted, Session
<1>2. StoreOK'
  <2>1. sessions' = rows /\ archive' = archive /\ skipping' \in BOOLEAN
    BY DEF Boot
  <2> QED BY <2>1 DEF TypeInv, StoreOK
<1>3. CapacityOK'
  <2>1. inflight' = inflight + Cardinality(runnable) /\ devRuns' = devRuns
    BY DEF Boot, PlacesWith
  <2>2. Cardinality(runnable) \in Nat
    BY <1>1, RunFacts, FS_Subset, FS_CardinalityType
  <2> QED BY <2>1, <2>2 DEF TypeInv, CapacityOK
<1>4. DoorOK'
  <2>1. CASE runnable \cup interrupted = {}
    BY <2>1, ClosedIsDoor DEF Boot, DoorOK, Closed
  <2>2. CASE runnable \cup interrupted # {}
    <3>1. door' = OpenedTo("schedule", NoRun, 0, runnable, interrupted)
      BY <2>2 DEF Boot, Closed, OpenedTo
    <3>2. "schedule" \in DoorPcs
      BY DEF DoorPcs
    <3> HIDE DEF runnable, interrupted
    <3>3. door' \in Door
      BY <1>1, <3>1, <3>2, DoorOpened
    <3> QED BY <3>1, <3>3 DEF DoorOK, OpenedTo
  <2> QED BY <2>1, <2>2
<1>5. LifeOK'
  BY DEF TypeInv, LifeOK, Boot
<1> QED BY <1>2, <1>3, <1>4, <1>5, Untouched DEF TypeInv, Boot

LEMMA RestoreType == ASSUME TypeInv, Restore PROVE TypeInv'
<1>1. archive \in [Product -> Session] /\ [p \in Product |-> Absent] \in [Product -> Session]
  BY AbsentIsSession DEF TypeInv, StoreOK
<1> QED BY <1>1, BootType DEF Restore

LEMMA RestoreFailType == ASSUME TypeInv, NEW r \in Run, RestoreFail(r) PROVE TypeInv'
<1>1. StoreOK'
  <2>1. "Fail" \in Changes /\ "TIMEOUT" \in Causes
    BY DEF Changes, Causes
  <2> QED BY <2>1, ApplyType, Untouched DEF RestoreFail, TypeInv
<1>2. DoorOK'
  <2>1. door' \in Door
    <3>1. CASE Applicable(r, "Fail")
      <4>1. door' = [pc |-> "announce", batch |-> door.batch, run |-> r, round |-> door.round,
                     todo |-> door.todo, fails |-> door.fails \ {r}]
        BY <3>1 DEF RestoreFail, TypeInv, DoorOK, Door
      <4>2. /\ door.batch \in Seq(Product) /\ door.round \in Nat /\ door.todo \in SUBSET Run
            /\ door.fails \ {r} \in SUBSET Run /\ r # NoRun /\ "announce" \in DoorPcs
        BY RunFacts DEF TypeInv, DoorOK, Door, DoorPcs
      <4> QED BY <4>1, <4>2, DoorRecord
    <3>2. CASE ~Applicable(r, "Fail")
      <4>1. door' = [door EXCEPT !.fails = @ \ {r},
                                 !.pc = IF door.fails = {r} THEN "idle" ELSE "schedule"]
        BY <3>2 DEF RestoreFail
      <4>2. door.pc = "schedule"
        BY DEF RestoreFail
      <4> QED BY <4>1, <4>2 DEF TypeInv, DoorOK, Door, DoorPcs
    <3> QED BY <3>1, <3>2
  <2>2. door'.pc \in {"announce", "idle", "schedule"}
    BY DEF RestoreFail, TypeInv, DoorOK, Door
  <2> QED BY <2>1, <2>2 DEF DoorOK
<1> QED BY <1>1, <1>2, Untouched DEF TypeInv, RestoreFail

LEMMA RestoreAnnounceType == ASSUME TypeInv, RestoreAnnounce PROVE TypeInv'
<1>1. door.run \in Run
  BY DEF TypeInv, DoorOK, Door, RestoreAnnounce
<1>2. CallbackOK'
  <2>1. EventOf(door.run, "Failed", "none") \in Event
    BY <1>1 DEF EventOf, Event, EventKinds
  <2> QED BY <2>1, PublishType DEF RestoreAnnounce, TypeInv
<1>3. DoorOK'
  BY DEF RestoreAnnounce, TypeInv, DoorOK, Door, DoorPcs
<1> QED BY <1>2, <1>3, Untouched DEF TypeInv, RestoreAnnounce

LEMMA ServeType == ASSUME TypeInv, Serve PROVE TypeInv'
<1>1. LifeOK'
  BY DEF TypeInv, LifeOK, Serve
<1> QED BY <1>1, Untouched DEF TypeInv, Serve

-----------------------------------------------------------------------------
(* The workers.                                                            *)

LEMMA IdleIsWorking == Idle \in Working
  BY SizesAssumption, RunFacts DEF Idle, Working, WorkerPcs, NoNews, EventKinds

News == [kind : EventKinds \cup {"none"}, stage : PublicStages \cup {"pipeline", "none"}]

LEMMA WorkingRecord ==
    ASSUME NEW pc \in WorkerPcs, NEW run \in Run \cup {NoRun}, NEW round \in Nat,
           NEW reports \in 0 .. MaxReports, NEW news \in News,
           run = NoRun <=> pc = "idle", news.kind # "none" <=> pc = "publish"
    PROVE  [pc |-> pc, run |-> run, round |-> round, reports |-> reports, news |-> news] \in Working
  BY DEF Working, News

LEMMA WorkerMoves ==
    ASSUME NEW x \in Working, NEW pc \in {"job", "release", "done"}, NEW round \in Nat,
           x.pc \notin {"idle", "publish"}
    PROVE  /\ [x EXCEPT !.pc = pc] \in Working
           /\ [x EXCEPT !.pc = pc, !.round = round] \in Working
<1>1. /\ x = [pc |-> x.pc, run |-> x.run, round |-> x.round, reports |-> x.reports, news |-> x.news]
      /\ x.run \in Run /\ x.round \in Nat /\ x.reports \in 0 .. MaxReports
      /\ x.news \in News /\ x.news.kind = "none"
  BY DEF Working, News
<1>2. pc \in WorkerPcs
  BY DEF WorkerPcs
<1>3. x.run # NoRun
  BY <1>1, RunFacts
<1>4. [x EXCEPT !.pc = pc] \in Working
  <2>1. [x EXCEPT !.pc = pc]
          = [pc |-> pc, run |-> x.run, round |-> x.round, reports |-> x.reports, news |-> x.news]
    BY <1>1
  <2> QED BY <1>1, <1>2, <1>3, <2>1, WorkingRecord
<1>5. [x EXCEPT !.pc = pc, !.round = round] \in Working
  <2>1. [x EXCEPT !.pc = pc, !.round = round]
          = [pc |-> pc, run |-> x.run, round |-> round, reports |-> x.reports, news |-> x.news]
    <3>1. [x EXCEPT !.pc = pc, !.round = round] = [[x EXCEPT !.pc = pc] EXCEPT !.round = round]
      BY <1>1
    <3>2. [x EXCEPT !.pc = pc]
            = [pc |-> pc, run |-> x.run, round |-> x.round, reports |-> x.reports, news |-> x.news]
      BY <1>1
    <3>3. [[pc |-> pc, run |-> x.run, round |-> x.round, reports |-> x.reports, news |-> x.news]
              EXCEPT !.round = round]
            = [pc |-> pc, run |-> x.run, round |-> round, reports |-> x.reports, news |-> x.news]
      OBVIOUS
    <3> QED BY <3>1, <3>2, <3>3, Zenon
  <2> QED BY <1>1, <1>2, <1>3, <2>1, WorkingRecord
<1> QED BY <1>4, <1>5

LEMMA WorkerBecomes ==
    ASSUME workers \in [Worker -> Working], NEW w \in Worker, NEW y \in Working,
           workers' = [workers EXCEPT ![w] = y]
    PROVE  workers' \in [Worker -> Working]
  OBVIOUS

(* A worker that does something has a run.                                 *)
LEMMA WorkersRun ==
    ASSUME TypeInv, NEW w \in Worker, workers[w].pc # "idle"
    PROVE  workers[w].run \in Run
  BY DEF TypeInv, PoolOK, Working

LEMMA PickType == ASSUME TypeInv, NEW w \in Worker, Pick(w) PROVE TypeInv'
<1>1. Head(queue) \in Run /\ Tail(queue) \in Seq(Run)
  BY HeadTailProperties DEF TypeInv, PoolOK, Pick
<1>2. [Idle EXCEPT !.pc = "start", !.run = Head(queue)] \in Working
  <2>1. [Idle EXCEPT !.pc = "start", !.run = Head(queue)]
          = [pc |-> "start", run |-> Head(queue), round |-> 0, reports |-> 0, news |-> NoNews]
    <3>1. [Idle EXCEPT !.pc = "start", !.run = Head(queue)]
            = [[Idle EXCEPT !.pc = "start"] EXCEPT !.run = Head(queue)]
      BY DEF Idle
    <3>2. [Idle EXCEPT !.pc = "start"]
            = [pc |-> "start", run |-> NoRun, round |-> 0, reports |-> 0, news |-> NoNews]
      BY DEF Idle
    <3>3. [[pc |-> "start", run |-> NoRun, round |-> 0, reports |-> 0, news |-> NoNews]
              EXCEPT !.run = Head(queue)]
            = [pc |-> "start", run |-> Head(queue), round |-> 0, reports |-> 0, news |-> NoNews]
      OBVIOUS
    <3> QED BY <3>1, <3>2, <3>3, Zenon
  <2>a. "start" \in WorkerPcs
    BY DEF WorkerPcs
  <2>b. NoNews \in News /\ NoNews.kind = "none"
    BY DEF NoNews, News
  <2>c. 0 \in 0 .. MaxReports
    BY SizesAssumption
  <2>2. "start" \in WorkerPcs /\ NoNews \in News /\ NoNews.kind = "none" /\ 0 \in 0 .. MaxReports
    BY <2>a, <2>b, <2>c
  <2>3. Head(queue) # NoRun
    BY <1>1, RunFacts
  <2> QED BY <1>1, <2>1, <2>2, <2>3, WorkingRecord
<1>3. PoolOK'
  BY <1>1, <1>2 DEF TypeInv, PoolOK, Pick
<1> QED BY <1>3, Untouched DEF TypeInv, Pick

LEMMA StartType == ASSUME TypeInv, RunsIssued, NEW w \in Worker, Start(w) PROVE TypeInv'
<1> DEFINE r == workers[w].run
<1>1. r \in Run
  BY WorkersRun DEF Start
<1>2. StoreOK'
  <2>1. "Start" \in Changes /\ "none" \in Causes
    BY DEF Changes, Causes
  <2> QED BY <1>1, <2>1, ApplyType, Untouched DEF Start, TypeInv
<1>3. workers' \in [Worker -> Working]
  <2>1. CASE Applicable(r, "Start")
    <3>1. sessions[owner[r]].round \in Nat
      <4>1. r \in Issued
        BY <1>1, SizesAssumption DEF RunsIssued, WorkersIssued, TypeInv, ContextOK, Run, Issued
      <4>2. owner[r] \in Product
        BY <4>1 DEF RunsIssued, OwnersKnown
      <4> QED BY <4>2 DEF TypeInv, StoreOK, Session
    <3>2. workers' = [workers EXCEPT ![w] = [workers[w] EXCEPT !.pc = "job",
                                                           !.round = sessions[owner[r]].round]]
      BY <2>1 DEF Start, TypeInv, PoolOK, Working
    <3>3. [workers[w] EXCEPT !.pc = "job", !.round = sessions[owner[r]].round] \in Working
      BY <3>1, WorkerMoves DEF Start, TypeInv, PoolOK
    <3> QED BY <3>2, <3>3, WorkerBecomes DEF TypeInv, PoolOK
  <2>2. CASE ~Applicable(r, "Start")
    <3>1. workers' = [workers EXCEPT ![w] = [workers[w] EXCEPT !.pc = "release"]]
      BY <2>2 DEF Start
    <3>2. [workers[w] EXCEPT !.pc = "release"] \in Working
      BY WorkerMoves DEF Start, TypeInv, PoolOK
    <3> QED BY <3>1, <3>2, WorkerBecomes DEF TypeInv, PoolOK
  <2> QED BY <2>1, <2>2
<1>4. PoolOK'
  BY <1>3 DEF Start, TypeInv, PoolOK
<1> QED BY <1>2, <1>4, Untouched DEF TypeInv, Start

LEMMA ReportType ==
    ASSUME TypeInv, NEW w \in Worker, NEW kind \in {"StageChanged", "ToolProgressed"},
           NEW stage \in PublicStages \cup {"pipeline", "none"}, Report(w, kind, stage)
    PROVE  TypeInv'
<1> DEFINE x == workers[w]
           y == [pc |-> "publish", run |-> x.run, round |-> x.round, reports |-> x.reports + 1,
                 news |-> [kind |-> kind, stage |-> stage]]
<1>1. y \in Working
  <2>1. /\ x.run \in Run \cup {NoRun} /\ x.round \in Nat /\ x.reports \in 0 .. MaxReports
        /\ x.reports < MaxReports /\ x.run # NoRun
    BY DEF TypeInv, PoolOK, Working, Report
  <2>2. x.reports + 1 \in 0 .. MaxReports /\ "publish" \in WorkerPcs
    BY <2>1, SizesAssumption DEF WorkerPcs
  <2>3. [kind |-> kind, stage |-> stage] \in News /\ kind # "none"
    BY DEF News, EventKinds
  <2> QED BY <2>1, <2>2, <2>3, WorkingRecord
<1>2. workers' = [workers EXCEPT ![w] = y]
  BY DEF Report, TypeInv, PoolOK, Working
<1>3. PoolOK'
  <2> HIDE DEF y
  <2> QED BY <1>1, <1>2 DEF TypeInv, PoolOK, Report
<1> QED BY <1>3, Untouched DEF TypeInv, Report

LEMMA FinishType == ASSUME TypeInv, NEW w \in Worker, Finish(w) PROVE TypeInv'
<1> DEFINE r == workers[w].run
<1>1. r \in Run
  BY WorkersRun DEF Finish
<1>2. PICK change \in Outcomes(workers[w].round) :
         IF Applicable(r, change)
         THEN /\ Apply(r, change, "JOB")
              /\ workers' = [workers EXCEPT ![w].pc = "publish",
                               ![w].news = [kind |-> Announcement[change], stage |-> "none"]]
         ELSE /\ workers' = [workers EXCEPT ![w].pc = "release"]
              /\ UNCHANGED storeVars
  BY DEF Finish
<1>3. change \in {"Complete", "Fail", "AskUser"}
  BY DEF Outcomes
<1>4. change \in Changes /\ "JOB" \in Causes
  BY <1>3 DEF Changes, Causes
<1>5. StoreOK'
  BY <1>1, <1>2, <1>4, ApplyType, Untouched DEF TypeInv
<1>6. PoolOK'
  <2>1. Announcement[change] \in EventKinds
    BY <1>3 DEF Announcement, EventKinds
  <2>2. workers' \in [Worker -> Working]
    <3>1. CASE Applicable(r, change)
      <4> DEFINE x == workers[w]
                 news == [kind |-> Announcement[change], stage |-> "none"]
                 y == [pc |-> "publish", run |-> x.run, round |-> x.round, reports |-> x.reports,
                       news |-> news]
      <4>1. /\ x.run \in Run \cup {NoRun} /\ x.round \in Nat /\ x.reports \in 0 .. MaxReports
            /\ x.run # NoRun
        BY DEF TypeInv, PoolOK, Working, Finish
      <4>2. news \in News /\ news.kind # "none" /\ "publish" \in WorkerPcs
        BY <2>1 DEF News, EventKinds, WorkerPcs
      <4>3. y \in Working
        <5> HIDE DEF news, x
        <5> QED BY <4>1, <4>2, WorkingRecord
      <4>4. workers' = [workers EXCEPT ![w] = y]
        BY <1>2, <3>1 DEF TypeInv, PoolOK, Working
      <4> HIDE DEF y
      <4> QED BY <4>3, <4>4 DEF TypeInv, PoolOK
    <3>2. CASE ~Applicable(r, change)
      <4>1. workers' = [workers EXCEPT ![w] = [workers[w] EXCEPT !.pc = "release"]]
        BY <1>2, <3>2
      <4>2. [workers[w] EXCEPT !.pc = "release"] \in Working
        BY WorkerMoves DEF Finish, TypeInv, PoolOK
      <4> QED BY <4>1, <4>2, WorkerBecomes DEF TypeInv, PoolOK
    <3> QED BY <3>1, <3>2
  <2> QED BY <2>2 DEF TypeInv, PoolOK, Finish
<1> QED BY <1>5, <1>6, Untouched DEF TypeInv, Finish

LEMMA PublishNewsType == ASSUME TypeInv, NEW w \in Worker, PublishNews(w) PROVE TypeInv'
<1>1. workers[w].run \in Run
  BY WorkersRun DEF PublishNews
<1>2. CallbackOK'
  <2>1. EventOf(workers[w].run, workers[w].news.kind, workers[w].news.stage) \in Event
    BY <1>1 DEF EventOf, Event, PublishNews, TypeInv, PoolOK, Working
  <2> QED BY <2>1, PublishType DEF PublishNews, TypeInv
<1>3. PoolOK'
  BY DEF TypeInv, PoolOK, Working, WorkerPcs, NoNews, EventKinds, PublishNews
<1> QED BY <1>2, <1>3, Untouched DEF TypeInv, PublishNews

LEMMA ReleaseType == ASSUME TypeInv, NEW w \in Worker, Release(w) PROVE TypeInv'
<1>1. CapacityOK'
  BY DEF TypeInv, CapacityOK, Release
<1>2. PoolOK'
  BY DEF TypeInv, PoolOK, Working, WorkerPcs, Release
<1> QED BY <1>1, <1>2, Untouched DEF TypeInv, Release

LEMMA ForgetType == ASSUME TypeInv, NEW w \in Worker, Forget(w) PROVE TypeInv'
<1>1. PoolOK'
  BY IdleIsWorking DEF TypeInv, PoolOK, Forget
<1> QED BY <1>1, Untouched DEF TypeInv, Forget

-----------------------------------------------------------------------------
(* The expirers, time, shutdown and restart.                               *)

LEMMA RestingIsExpirer == Resting \in Expirer
  BY RunFacts DEF Resting, Expirer

LEMMA ExpirerOpened ==
    ASSUME NEW pc \in {"expire", "purge", "exit"}, NEW todo \in SUBSET Run
    PROVE  [Resting EXCEPT !.pc = pc, !.todo = todo] \in Expirer
<1>1. Resting \in Expirer /\ Resting.run = NoRun
  BY RestingIsExpirer DEF Resting
<1> QED BY <1>1 DEF Expirer

LEMMA ExpirerGoesOn ==
    ASSUME NEW pc \in {"expire", "purge", "exit"}, NEW x \in Expirer
    PROVE  [x EXCEPT !.run = NoRun, !.pc = pc] \in Expirer
  BY DEF Expirer

LEMMA ScanType == ASSUME TypeInv, NEW e \in Expirers, Scan(e) PROVE TypeInv'
<1> DEFINE late == {sessions[p].run : p \in Unfinished} \cap overdue
<1>1. late \in SUBSET Run
  BY DEF TypeInv, OverdueOK
<1>2. ExpirersOK'
  <2> DEFINE pc == IF late = {} THEN After(e) ELSE "expire"
  <2>1. expirers' = [expirers EXCEPT ![e] = [Resting EXCEPT !.pc = pc, !.todo = late]]
    BY Zenon DEF Scan
  <2>2. pc \in {"expire", "purge", "exit"}
    BY DEF After
  <2> HIDE DEF late, pc
  <2>3. [Resting EXCEPT !.pc = pc, !.todo = late] \in Expirer
    BY <1>1, <2>2, ExpirerOpened
  <2> QED BY <2>1, <2>3 DEF TypeInv, ExpirersOK
<1> QED BY <1>2, Untouched DEF TypeInv, Scan

LEMMA ExpireType == ASSUME TypeInv, NEW e \in Expirers, NEW r \in Run, Expire(e, r) PROVE TypeInv'
<1>1. StoreOK'
  <2>1. "Fail" \in Changes /\ "TIMEOUT" \in Causes
    BY DEF Changes, Causes
  <2> QED BY <2>1, ApplyType, Untouched DEF Expire, TypeInv
<1>2. expirers[e] \in Expirer /\ expirers[e].run = NoRun /\ expirers[e].todo \ {r} \in SUBSET Run
  BY DEF TypeInv, ExpirersOK, Expirer, Expire
<1>3. ExpirersOK'
  <2>1. CASE Applicable(r, "Fail")
    <3>1. expirers' = [expirers EXCEPT ![e] =
                         [pc |-> "publish", todo |-> expirers[e].todo \ {r}, run |-> r]]
      BY <1>2, <2>1 DEF Expire, TypeInv, ExpirersOK, Expirer
    <3>2. [pc |-> "publish", todo |-> expirers[e].todo \ {r}, run |-> r] \in Expirer
      BY <1>2, RunFacts DEF Expirer
    <3> QED BY <3>1, <3>2 DEF TypeInv, ExpirersOK
  <2>2. CASE ~Applicable(r, "Fail")
    <3> DEFINE pc == IF expirers[e].todo = {r} THEN After(e) ELSE "expire"
    <3>1. expirers' = [expirers EXCEPT ![e] =
                         [pc |-> pc, todo |-> expirers[e].todo \ {r}, run |-> NoRun]]
      BY <1>2, <2>2 DEF Expire, TypeInv, ExpirersOK, Expirer
    <3>2. pc \in {"purge", "exit", "expire"}
      BY DEF After
    <3> HIDE DEF pc
    <3>3. [pc |-> pc, todo |-> expirers[e].todo \ {r}, run |-> NoRun] \in Expirer
      BY <1>2, <3>2 DEF Expirer
    <3> QED BY <3>1, <3>3 DEF TypeInv, ExpirersOK
  <2> QED BY <2>1, <2>2
<1> QED BY <1>1, <1>3, Untouched DEF TypeInv, Expire

LEMMA PublishTimeoutType == ASSUME TypeInv, NEW e \in Expirers, PublishTimeout(e) PROVE TypeInv'
<1>1. expirers[e].run \in Run
  BY DEF TypeInv, ExpirersOK, Expirer, PublishTimeout
<1>2. CallbackOK'
  <2>1. EventOf(expirers[e].run, "Failed", "none") \in Event
    BY <1>1 DEF EventOf, Event, EventKinds
  <2> QED BY <2>1, PublishType DEF PublishTimeout, TypeInv
<1>3. ExpirersOK'
  <2> DEFINE pc == IF expirers[e].todo = {} THEN After(e) ELSE "expire"
  <2>1. expirers' = [expirers EXCEPT ![e] = [expirers[e] EXCEPT !.run = NoRun, !.pc = pc]]
    <3>1. expirers' = [expirers EXCEPT ![e].run = NoRun, ![e].pc = pc]
      BY Zenon DEF PublishTimeout
    <3> HIDE DEF pc
    <3> QED BY <3>1 DEF TypeInv, ExpirersOK
  <2>2. pc \in {"expire", "purge", "exit"}
    BY DEF After
  <2> HIDE DEF pc
  <2>3. [expirers[e] EXCEPT !.run = NoRun, !.pc = pc] \in Expirer
    BY <2>2, ExpirerGoesOn DEF TypeInv, ExpirersOK
  <2> QED BY <2>1, <2>3 DEF TypeInv, ExpirersOK
<1> QED BY <1>2, <1>3, Untouched DEF TypeInv, PublishTimeout

LEMMA PurgeType == ASSUME TypeInv, Purge PROVE TypeInv'
<1>1. PICK old \in SUBSET {p \in Product : sessions[p].status \in Retained} :
        /\ sessions' = [p \in Product |-> IF p \in old THEN Absent ELSE sessions[p]]
        /\ Persist(old)
  BY DEF Purge
<1>2. sessions' \in [Product -> Session]
  BY <1>1, AbsentIsSession DEF TypeInv, StoreOK
<1>3. StoreOK'
  BY <1>1, <1>2, PersistType DEF TypeInv
<1>4. ExpirersOK'
  BY RestingIsExpirer DEF Purge, TypeInv, ExpirersOK, Expirers
<1> QED BY <1>3, <1>4, Untouched DEF TypeInv, Purge

LEMMA OverdueType == ASSUME TypeInv, NEW r \in Run, BecomeOverdue(r) PROVE TypeInv'
<1>1. OverdueOK'
  BY DEF TypeInv, OverdueOK, BecomeOverdue
<1> QED BY <1>1, Untouched DEF TypeInv, BecomeOverdue

LEMMA RetryArchiveType == ASSUME TypeInv, RetryArchive PROVE TypeInv'
<1>1. StoreOK'
  BY DEF TypeInv, StoreOK, RetryArchive
<1> QED BY <1>1, Untouched DEF TypeInv, RetryArchive

LEMMA DrainType == ASSUME TypeInv, Drain PROVE TypeInv'
<1>1. PoolOK'
  BY EmptySeq DEF TypeInv, PoolOK, Drain
<1>2. LifeOK'
  BY DEF TypeInv, LifeOK, Drain
<1> QED BY <1>1, <1>2, Untouched DEF TypeInv, Drain

LEMMA StopType == ASSUME TypeInv, Stop PROVE TypeInv'
<1>1. StoreOK'
  BY AbsentIsSession DEF TypeInv, StoreOK, Stop
<1>2. CapacityOK'
  BY DEF TypeInv, CapacityOK, Stop
<1>3. PoolOK'
  BY EmptySeq, IdleIsWorking DEF TypeInv, PoolOK, Stop
<1>4. ExpirersOK'
  BY RestingIsExpirer DEF TypeInv, ExpirersOK, Stop
<1>5. DoorOK'
  BY ClosedIsDoor DEF DoorOK, Stop, Closed
<1>6. CallbackOK'
  <2>1. NewBuilder \in Builder
    BY DEF NewBuilder, Builder, Fresh, Progress
  <2> QED BY <2>1 DEF TypeInv, CallbackOK, Stop
<1>7. LifeOK'
  BY DEF TypeInv, LifeOK, Stop
<1> QED BY <1>1, <1>2, <1>3, <1>4, <1>5, <1>6, <1>7, Untouched DEF TypeInv, Stop

LEMMA InitType == ASSUME Init PROVE TypeInv
<1>1. StoreOK
  BY AbsentIsSession DEF StoreOK, Init
<1>2. ContextOK /\ CapacityOK /\ OverdueOK /\ LifeOK
  BY SizesAssumption DEF ContextOK, CapacityOK, OverdueOK, LifeOK, Init
<1>3. PoolOK
  BY EmptySeq, IdleIsWorking DEF PoolOK, Init
<1>4. ExpirersOK
  BY RestingIsExpirer DEF ExpirersOK, Init
<1>5. DoorOK
  BY ClosedIsDoor DEF DoorOK, Init, Closed
<1>6. CallbackOK
  <2>1. NewBuilder \in Builder
    BY DEF NewBuilder, Builder, Fresh, Progress
  <2> QED BY <2>1, EmptySeq DEF CallbackOK, Init
<1> QED BY <1>1, <1>2, <1>3, <1>4, <1>5, <1>6 DEF TypeInv

-----------------------------------------------------------------------------
(* Runs that are known have been issued.                                   *)

LEMMA IssuedUntouched ==
    /\ OwnersKnown /\ UNCHANGED contextVars => OwnersKnown'
    /\ StoredIssued /\ UNCHANGED <<storeVars, contextVars>> => StoredIssued'
    /\ WorkersIssued /\ UNCHANGED <<workers, contextVars>> => WorkersIssued'
    /\ QueueIssued /\ UNCHANGED <<queue, contextVars>> => QueueIssued'
    /\ DoorIssued /\ UNCHANGED <<door, contextVars>> => DoorIssued'
  BY DEF OwnersKnown, StoredIssued, WorkersIssued, QueueIssued, DoorIssued, Issued,
         storeVars, contextVars

(* A run drawn anew does not change what was known before.                 *)
LEMMA IssuedGrows ==
    ASSUME TypeInv, RunsIssued, issued' \in Nat, issued <= issued', UNCHANGED <<workers, queue>>
    PROVE  WorkersIssued' /\ QueueIssued'
<1>1. \A w \in Worker : workers[w].run \in Nat
  BY RunsAreNumbers DEF TypeInv, PoolOK, Working
<1>2. \A i \in DOMAIN queue : queue[i] \in Nat
  <2>1. queue \in Seq(Run) /\ DOMAIN queue = 1 .. Len(queue)
    BY LenProperties DEF TypeInv, PoolOK
  <2>2. \A i \in 1 .. Len(queue) : queue[i] \in Run
    BY <2>1, ElementOfSeq
  <2> QED BY <2>1, <2>2, RunFacts
<1> QED BY <1>1, <1>2 DEF TypeInv, ContextOK, RunsIssued, WorkersIssued, QueueIssued

LEMMA PersistIssued ==
    ASSUME StoreOK, NEW n \in Nat, NEW changed, Persist(changed),
           \A p \in Product : sessions'[p].run <= n /\ archive[p].run <= n
    PROVE  \A p \in Product : archive'[p].run <= n
<1>1. \A p \in Product : Row(p, sessions'[p]).run <= n
  BY DEF Row, Absent, NoRun
<1> QED BY <1>1 DEF Persist

LEMMA ApplyIssued ==
    ASSUME TypeInv, StoredIssued, UNCHANGED contextVars, NEW r \in Run, NEW change \in Changes,
           NEW cause \in Causes, Apply(r, change, cause)
    PROVE  StoredIssued'
<1> DEFINE q == owner[r]
           s == SessionAfter(sessions[q], change, cause)
<1>1. issued \in Nat /\ issued' = issued
  BY DEF TypeInv, ContextOK, contextVars
<1>2. q \in Product => s.run <= issued
  <2> SUFFICES ASSUME q \in Product PROVE s.run <= issued
    OBVIOUS
  <2>1. Moved(sessions[q], change) \in Session /\ Moved(sessions[q], change).run = sessions[q].run
    BY MovedIsSession DEF TypeInv, StoreOK, Apply, Applicable
  <2>2. s.run = sessions[q].run
    BY <2>1 DEF SessionAfter, Session
  <2> QED BY <2>2 DEF StoredIssued
<1>3. sessions' = [sessions EXCEPT ![q] = s] /\ Persist({q})
  BY DEF Apply, Set
<1> HIDE DEF q, s
<1>4. \A p \in Product : sessions'[p].run <= issued /\ archive[p].run <= issued
  BY <1>2, <1>3 DEF TypeInv, StoreOK, StoredIssued
<1>5. \A p \in Product : archive'[p].run <= issued
  BY <1>1, <1>3, <1>4, PersistIssued DEF TypeInv
<1> QED BY <1>1, <1>4, <1>5 DEF StoredIssued

LEMMA AcceptAddIssued == ASSUME TypeInv, RunsIssued, AcceptAdd PROVE RunsIssued'
<1> DEFINE new == issued + 1 .. issued + Len(door.batch)
<1>1. /\ door.batch \in Seq(Product) /\ Len(door.batch) \in Nat
      /\ issued \in Nat /\ issued + Len(door.batch) <= MaxRuns
      /\ issued' = issued + Len(door.batch)
  BY LenProperties, SizesAssumption DEF TypeInv, DoorOK, Door, AcceptAdd, ContextOK
<1>2. owner' = [r \in Run |-> IF r \in new THEN door.batch[r - issued] ELSE owner[r]]
  BY DEF AcceptAdd
<1>3. \A r \in new : door.batch[r - issued] \in Product
  BY <1>1, ElementOfSeq
<1>4. OwnersKnown'
  <2> SUFFICES ASSUME NEW r \in 1 .. issued' PROVE owner'[r] \in Product
    BY DEF OwnersKnown, Issued
  <2>1. r \in Run /\ (r \in new \/ r \in Issued)
    BY <1>1, SizesAssumption DEF Run, Issued
  <2> QED BY <1>2, <1>3, <2>1 DEF RunsIssued, OwnersKnown
<1>5. StoredIssued'
  <2>1. \A p \in Product : (\E r \in new : owner'[r] = p) => (CHOOSE r \in new : owner'[r] = p) \in new
    OBVIOUS
  <2>2. \A p \in Product : sessions'[p] = IF \E r \in new : owner'[r] = p
                                          THEN Accepted(CHOOSE r \in new : owner'[r] = p)
                                          ELSE sessions[p]
    BY DEF AcceptAdd
  <2>3. \A r \in new : r <= issued'
    BY <1>1
  <2>4. \A p \in Product : sessions[p].run \in Nat /\ archive[p].run \in Nat
    <3>1. \A p \in Product : sessions[p].run \in Run \cup {NoRun} /\ archive[p].run \in Run \cup {NoRun}
      BY DEF TypeInv, StoreOK, Session
    <3> QED BY <3>1, RunsAreNumbers
  <2>5. \A p \in Product : sessions[p].run <= issued' /\ archive[p].run <= issued'
    BY <1>1, <2>4 DEF RunsIssued, StoredIssued
  <2>8. \A r \in new : Accepted(r).run <= issued'
    BY <2>3 DEF Accepted
  <2> HIDE DEF new
  <2>6. \A p \in Product : sessions'[p].run <= issued' /\ archive[p].run <= issued'
    BY <2>1, <2>2, <2>8, <2>5
  <2>7. \A p \in Product : archive'[p].run <= issued'
    <3>1. StoreOK /\ issued' \in Nat
      BY <1>1 DEF TypeInv
    <3>2. PICK changed : Persist(changed)
      BY DEF AcceptAdd
    <3> QED BY <2>6, <3>1, <3>2, PersistIssued
  <2> QED BY <2>6, <2>7 DEF StoredIssued
<1>6. DoorIssued'
  <2>1. door' = [Closed EXCEPT !.pc = "take", !.todo = new]
    BY DEF AcceptAdd
  <2>2. \A r \in new : r <= issued'
    BY <1>1
  <2> HIDE DEF new
  <2> QED BY <1>1, <2>1, <2>2 DEF DoorIssued, Closed, NoRun
<1>7. WorkersIssued' /\ QueueIssued'
  BY <1>1, IssuedGrows DEF AcceptAdd, poolVars
<1> QED BY <1>4, <1>5, <1>6, <1>7 DEF RunsIssued

LEMMA SubmitIssued == ASSUME TypeInv, RunsIssued, Submit \/ SubmitDev PROVE RunsIssued'
<1>1. PICK batch : AcceptCheck(batch)
  BY DEF Submit, SubmitDev
<1>2. DoorIssued'
  BY <1>1 DEF AcceptCheck, Closed, DoorIssued, TypeInv, ContextOK, contextVars, NoRun
<1> QED BY <1>1, <1>2, IssuedUntouched DEF AcceptCheck, RunsIssued, poolVars

LEMMA ResumeIssued == ASSUME TypeInv, RunsIssued, Resume PROVE RunsIssued'
<1>1. PICK p \in Product, r \in Run, round \in 1 .. MaxQuestionRounds : ResumeCheck(p, r, round)
  BY DEF Resume
<1>2. DoorIssued'
  <2>1. r <= issued /\ issued' = issued
    BY <1>1 DEF ResumeCheck, RunsIssued, StoredIssued, contextVars
  <2> QED BY <1>1, <2>1 DEF ResumeCheck, Closed, DoorIssued
<1> QED BY <1>1, <1>2, IssuedUntouched DEF ResumeCheck, RunsIssued, poolVars

LEMMA ResumeReplaceIssued == ASSUME TypeInv, RunsIssued, ResumeReplace PROVE RunsIssued'
<1> DEFINE p == owner[door.run]
           new == issued + 1
           s == [Moved(sessions[p], "Resume") EXCEPT !.run = new]
<1>0. /\ door.run \in Run /\ issued \in Nat /\ new \in Run /\ new \in Nat
      /\ owner \in [Run -> Product \cup {NoProduct}] /\ door.run \in Issued
  BY RunFacts, SizesAssumption
  DEF TypeInv, DoorOK, Door, ResumeReplace, ContextOK, NoRun, Run, RunsIssued, DoorIssued, Issued
<1>1. p \in Product
  BY <1>0 DEF RunsIssued, OwnersKnown
<1>2. CASE Applicable(door.run, "Resume") /\ sessions[p].round = door.round
  <2>1. /\ issued' = new /\ owner' = [owner EXCEPT ![new] = p]
        /\ sessions' = [sessions EXCEPT ![p] = s] /\ Persist({p})
        /\ door' = [Closed EXCEPT !.pc = "take", !.todo = {new}]
    BY <1>2 DEF ResumeReplace, Set
  <2>2. OwnersKnown'
    BY <1>0, <1>1, <2>1 DEF OwnersKnown, RunsIssued, Issued
  <2>3. StoredIssued'
    <3>1. s.run = new
      BY DEF Moved, TypeInv, StoreOK, Session
    <3>2. \A q \in Product : sessions[q].run \in Nat /\ archive[q].run \in Nat
      <4>1. \A q \in Product : sessions[q].run \in Run \cup {NoRun} /\ archive[q].run \in Run \cup {NoRun}
        BY DEF TypeInv, StoreOK, Session
      <4> QED BY <4>1, RunsAreNumbers
    <3>3. \A q \in Product : sessions[q].run <= new /\ archive[q].run <= new
      BY <1>0, <3>2 DEF RunsIssued, StoredIssued
    <3> HIDE DEF s, p
    <3>4. \A q \in Product : sessions'[q].run <= new /\ archive[q].run <= new
      BY <1>0, <2>1, <3>1, <3>3 DEF TypeInv, StoreOK
    <3>5. \A q \in Product : archive'[q].run <= new
      <4>1. StoreOK
        BY DEF TypeInv
      <4> HIDE DEF new
      <4> QED BY <1>0, <2>1, <3>4, <4>1, PersistIssued
    <3> QED BY <2>1, <3>4, <3>5 DEF StoredIssued
  <2>4. DoorIssued'
    BY <1>0, <2>1 DEF DoorIssued, Closed, NoRun
  <2>5. WorkersIssued' /\ QueueIssued'
    <3>1. issued' \in Nat /\ issued <= issued' /\ UNCHANGED <<workers, queue>>
      BY <1>0, <2>1 DEF ResumeReplace, poolVars
    <3> QED BY <3>1, IssuedGrows
  <2> QED BY <2>2, <2>3, <2>4, <2>5 DEF RunsIssued
<1>3. CASE ~(Applicable(door.run, "Resume") /\ sessions[p].round = door.round)
  <2>1. door' = Closed /\ UNCHANGED <<storeVars, contextVars>>
    BY <1>3 DEF ResumeReplace
  <2>2. DoorIssued'
    BY <1>0, <2>1 DEF DoorIssued, Closed, NoRun, contextVars
  <2> QED BY <2>1, <2>2, IssuedUntouched DEF RunsIssued, ResumeReplace, poolVars
<1> QED BY <1>2, <1>3

LEMMA TakeIssued == ASSUME TypeInv, RunsIssued, Take PROVE RunsIssued'
<1>1. DoorIssued'
  BY DEF Take, DoorIssued, RunsIssued, TypeInv, DoorOK, Door, contextVars
<1> QED BY <1>1, IssuedUntouched DEF Take, RunsIssued, poolVars

LEMMA ScheduleIssued ==
    ASSUME TypeInv, RunsIssued, NEW r \in Run, Schedule(r) PROVE RunsIssued'
<1>1. r <= issued /\ issued' = issued
  BY DEF Schedule, RunsIssued, DoorIssued, contextVars
<1>2. DoorIssued'
  BY <1>1 DEF Schedule, DoorIssued, RunsIssued, TypeInv, DoorOK, Door
<1>3. QueueIssued'
  <2>1. queue' = Append(queue, r) /\ queue \in Seq(Run)
    BY DEF Schedule, TypeInv, PoolOK
  <2> QED BY <1>1, <2>1, AppendProperties DEF QueueIssued, RunsIssued
<1> QED BY <1>2, <1>3, IssuedUntouched DEF Schedule, RunsIssued

LEMMA RegisterIssued == ASSUME TypeInv, RunsIssued, Register PROVE RunsIssued'
<1>1. DoorIssued'
  BY DEF Register, DoorIssued, RunsIssued, TypeInv, DoorOK, Door, contextVars, ContextOK, NoRun
<1> QED BY <1>1, IssuedUntouched DEF Register, RunsIssued

LEMMA RestoreIssued == ASSUME TypeInv, RunsIssued, Restore PROVE RunsIssued'
<1>1. PICK rows \in {archive, [p \in Product |-> Absent]} : Boot(rows)
  BY DEF Restore
<1>2. \A p \in Product : rows[p].run <= issued
  BY <1>1 DEF RunsIssued, StoredIssued, Absent, NoRun, TypeInv, ContextOK
<1>3. issued' = issued /\ sessions' = rows /\ archive' = archive /\ issued \in Nat
  BY <1>1 DEF Boot, contextVars, TypeInv, ContextOK
<1>4. StoredIssued'
  BY <1>2, <1>3 DEF StoredIssued, RunsIssued
<1>5. DoorIssued'
  <2> DEFINE runnable    == {rows[p].run : p \in {q \in Product : Runnable(rows[q])}}
             interrupted == {rows[p].run : p \in {q \in Product : Interrupted(rows[q])}}
  <2>1. \A r \in runnable \cup interrupted : r <= issued
    BY <1>2
  <2>2. door' = IF runnable \cup interrupted = {} THEN Closed
                ELSE [Closed EXCEPT !.pc = "schedule", !.todo = runnable, !.fails = interrupted]
    BY <1>1 DEF Boot
  <2> HIDE DEF runnable, interrupted
  <2> QED BY <1>3, <2>1, <2>2 DEF DoorIssued, Closed, NoRun
<1> QED BY <1>1, <1>4, <1>5, IssuedUntouched DEF Boot, RunsIssued, poolVars

LEMMA RestoreFailIssued ==
    ASSUME TypeInv, RunsIssued, NEW r \in Run, RestoreFail(r) PROVE RunsIssued'
<1>1. r <= issued /\ issued' = issued
  BY DEF RestoreFail, RunsIssued, DoorIssued, contextVars
<1>2. StoredIssued'
  <2>1. "Fail" \in Changes /\ "TIMEOUT" \in Causes
    BY DEF Changes, Causes
  <2> QED BY <2>1, ApplyIssued, IssuedUntouched DEF RestoreFail, RunsIssued
<1>3. DoorIssued'
  <2>1. CASE Applicable(r, "Fail")
    <3>1. door' = [door EXCEPT !.pc = "announce", !.run = r, !.fails = @ \ {r}]
      BY <2>1 DEF RestoreFail
    <3>2. door'.run = r /\ door'.todo = door.todo /\ door'.fails = door.fails \ {r}
      BY <3>1 DEF TypeInv, DoorOK, Door
    <3> QED BY <1>1, <3>2 DEF DoorIssued, RunsIssued
  <2>2. CASE ~Applicable(r, "Fail")
    <3>1. door' = [door EXCEPT !.fails = @ \ {r},
                               !.pc = IF door.fails = {r} THEN "idle" ELSE "schedule"]
      BY <2>2 DEF RestoreFail
    <3>2. door'.run = door.run /\ door'.todo = door.todo /\ door'.fails = door.fails \ {r}
      BY <3>1 DEF TypeInv, DoorOK, Door
    <3> QED BY <1>1, <3>2 DEF DoorIssued, RunsIssued
  <2> QED BY <2>1, <2>2
<1> QED BY <1>2, <1>3, IssuedUntouched DEF RestoreFail, RunsIssued, poolVars

LEMMA RestoreAnnounceIssued == ASSUME TypeInv, RunsIssued, RestoreAnnounce PROVE RunsIssued'
<1>1. DoorIssued'
  BY DEF RestoreAnnounce, DoorIssued, RunsIssued, TypeInv, DoorOK, Door, contextVars, ContextOK, NoRun
<1> QED BY <1>1, IssuedUntouched DEF RestoreAnnounce, RunsIssued, poolVars

LEMMA PickIssued == ASSUME TypeInv, RunsIssued, NEW w \in Worker, Pick(w) PROVE RunsIssued'
<1>1. /\ queue \in Seq(Run) /\ queue # << >> /\ DOMAIN queue = 1 .. Len(queue)
      /\ issued' = issued /\ workers \in [Worker -> Working]
  BY LenProperties DEF Pick, TypeInv, PoolOK, contextVars
<1>2. Len(queue) \in Nat \ {0} /\ Head(queue) = queue[1] /\ Tail(queue) \in Seq(Run)
  BY <1>1, HeadTailProperties, EmptySeq
<1>3. WorkersIssued'
  <2>1. Head(queue) <= issued
    BY <1>1, <1>2 DEF RunsIssued, QueueIssued
  <2>2. [Idle EXCEPT !.pc = "start", !.run = Head(queue)].run = Head(queue)
    BY DEF Idle
  <2>3. workers' = [workers EXCEPT ![w] = [Idle EXCEPT !.pc = "start", !.run = Head(queue)]]
    BY DEF Pick
  <2> DEFINE y == [Idle EXCEPT !.pc = "start", !.run = Head(queue)]
  <2> HIDE DEF y
  <2>4. workers' = [workers EXCEPT ![w] = y] /\ y.run = Head(queue)
    BY <2>2, <2>3 DEF y
  <2> QED BY <1>1, <2>1, <2>4 DEF RunsIssued, WorkersIssued
<1>4. QueueIssued'
  <2>1. queue' = Tail(queue)
    BY DEF Pick
  <2>2. \A i \in 1 .. Len(Tail(queue)) : Tail(queue)[i] = queue[i + 1] /\ i + 1 \in 1 .. Len(queue)
    BY <1>1, <1>2, HeadTailProperties
  <2>3. DOMAIN Tail(queue) = 1 .. Len(Tail(queue))
    BY <1>2, LenProperties
  <2> QED BY <1>1, <2>1, <2>2, <2>3 DEF RunsIssued, QueueIssued
<1> QED BY <1>3, <1>4, IssuedUntouched DEF Pick, RunsIssued

(* What a worker does to itself leaves its run alone or drops it.          *)
WorkersKeepRuns == \A w \in Worker : workers'[w].run \in {workers[w].run, NoRun}

LEMMA KeepRunsIssued ==
    ASSUME TypeInv, RunsIssued, UNCHANGED issued, WorkersKeepRuns
    PROVE  WorkersIssued'
  BY DEF TypeInv, ContextOK, RunsIssued, WorkersIssued, WorkersKeepRuns, NoRun

LEMMA WorkersKeep ==
    ASSUME TypeInv, NEW w \in Worker
    PROVE  /\ Start(w) => WorkersKeepRuns
           /\ \A kind, stage : Report(w, kind, stage) => WorkersKeepRuns
           /\ Finish(w) => WorkersKeepRuns
           /\ PublishNews(w) => WorkersKeepRuns
           /\ Release(w) => WorkersKeepRuns
           /\ Forget(w) => WorkersKeepRuns
<1>1. /\ workers \in [Worker -> Working] /\ Idle.run = NoRun
      /\ \A v \in Worker : workers[v] = [pc |-> workers[v].pc, run |-> workers[v].run,
                              round |-> workers[v].round, reports |-> workers[v].reports,
                              news |-> workers[v].news]
  BY DEF TypeInv, PoolOK, Working, Idle
<1>2. Start(w) => WorkersKeepRuns
  BY <1>1 DEF Start, WorkersKeepRuns
<1>3. ASSUME NEW kind, NEW stage, Report(w, kind, stage) PROVE WorkersKeepRuns
  BY <1>1, <1>3 DEF Report, WorkersKeepRuns
<1>4. Finish(w) => WorkersKeepRuns
  BY <1>1 DEF Finish, WorkersKeepRuns
<1>5. PublishNews(w) => WorkersKeepRuns
  BY <1>1 DEF PublishNews, WorkersKeepRuns
<1>6. Release(w) => WorkersKeepRuns
  BY <1>1 DEF Release, WorkersKeepRuns
<1>7. Forget(w) => WorkersKeepRuns
  BY <1>1 DEF Forget, WorkersKeepRuns
<1> QED BY <1>2, <1>3, <1>4, <1>5, <1>6, <1>7

LEMMA WorkIssued ==
    ASSUME TypeInv, RunsIssued, NEW w \in Worker, Work(w) PROVE RunsIssued'
<1>1. CASE Pick(w)
  BY <1>1, PickIssued
<1>2. CASE Start(w)
  <2>1. StoredIssued'
    <3>1. workers[w].run \in Run /\ "Start" \in Changes /\ "none" \in Causes
      BY <1>2, WorkersRun DEF Start, Changes, Causes
    <3> QED BY <1>2, <3>1, ApplyIssued, IssuedUntouched DEF Start, RunsIssued
  <2>2. WorkersIssued'
    BY <1>2, WorkersKeep, KeepRunsIssued DEF Start, contextVars
  <2> QED BY <1>2, <2>1, <2>2, IssuedUntouched DEF Start, RunsIssued
<1>3. CASE ReportStage(w) \/ ReportTool(w)
  <2>1. PICK kind, stage : Report(w, kind, stage)
    BY <1>3 DEF ReportStage, ReportTool
  <2>2. WorkersIssued'
    BY <2>1, WorkersKeep, KeepRunsIssued DEF Report, contextVars
  <2> QED BY <2>1, <2>2, IssuedUntouched DEF Report, RunsIssued
<1>4. CASE Finish(w)
  <2>1. StoredIssued'
    <3>1. workers[w].run \in Run /\ Outcomes(workers[w].round) \subseteq Changes /\ "JOB" \in Causes
      BY <1>4, WorkersRun DEF Finish, Changes, Causes, Outcomes
    <3> QED BY <1>4, <3>1, ApplyIssued, IssuedUntouched DEF Finish, RunsIssued
  <2>2. WorkersIssued'
    BY <1>4, WorkersKeep, KeepRunsIssued DEF Finish, contextVars
  <2> QED BY <1>4, <2>1, <2>2, IssuedUntouched DEF Finish, RunsIssued
<1>5. CASE PublishNews(w)
  <2>1. WorkersIssued'
    BY <1>5, WorkersKeep, KeepRunsIssued DEF PublishNews, contextVars
  <2> QED BY <1>5, <2>1, IssuedUntouched DEF PublishNews, RunsIssued
<1>6. CASE Release(w)
  <2>1. WorkersIssued'
    BY <1>6, WorkersKeep, KeepRunsIssued DEF Release, contextVars
  <2> QED BY <1>6, <2>1, IssuedUntouched DEF Release, RunsIssued
<1>7. CASE Forget(w)
  <2>1. WorkersIssued'
    BY <1>7, WorkersKeep, KeepRunsIssued DEF Forget, contextVars
  <2> QED BY <1>7, <2>1, IssuedUntouched DEF Forget, RunsIssued
<1> QED BY <1>1, <1>2, <1>3, <1>4, <1>5, <1>6, <1>7 DEF Work

LEMMA SweepIssued ==
    ASSUME TypeInv, RunsIssued, NEW e \in Expirers, Sweep(e) PROVE RunsIssued'
<1>1. CASE Scan(e) \/ PublishTimeout(e)
  BY <1>1, IssuedUntouched DEF Scan, PublishTimeout, RunsIssued, poolVars
<1>2. ASSUME NEW r \in Run, Expire(e, r) PROVE RunsIssued'
  <2>1. "Fail" \in Changes /\ "TIMEOUT" \in Causes
    BY DEF Changes, Causes
  <2>2. StoredIssued'
    BY <1>2, <2>1, ApplyIssued, IssuedUntouched DEF Expire, RunsIssued
  <2> QED BY <1>2, <2>2, IssuedUntouched DEF Expire, RunsIssued, poolVars
<1> QED BY <1>1, <1>2 DEF Sweep

LEMMA PurgeIssued == ASSUME TypeInv, RunsIssued, Purge PROVE RunsIssued'
<1>1. PICK old \in SUBSET {p \in Product : sessions[p].status \in Retained} :
        /\ sessions' = [p \in Product |-> IF p \in old THEN Absent ELSE sessions[p]]
        /\ Persist(old)
  BY DEF Purge
<1>2. StoredIssued'
  <2>1. issued \in Nat /\ issued' = issued /\ StoreOK
    BY DEF Purge, contextVars, TypeInv, ContextOK
  <2>2. \A p \in Product : sessions'[p].run <= issued /\ archive[p].run <= issued
    BY <1>1, <2>1 DEF RunsIssued, StoredIssued, Absent, NoRun
  <2>3. \A p \in Product : archive'[p].run <= issued
    BY <1>1, <2>1, <2>2, PersistIssued
  <2> QED BY <2>1, <2>2, <2>3 DEF StoredIssued
<1> QED BY <1>2, IssuedUntouched DEF Purge, RunsIssued, poolVars

LEMMA StopIssued == ASSUME TypeInv, RunsIssued, Stop PROVE RunsIssued'
<1>1. issued' = issued /\ issued \in Nat
  BY DEF Stop, contextVars, TypeInv, ContextOK
<1>2. StoredIssued'
  BY <1>1 DEF Stop, RunsIssued, StoredIssued, Absent, NoRun
<1>3. WorkersIssued'
  BY <1>1 DEF Stop, WorkersIssued, Idle, NoRun
<1>4. QueueIssued'
  BY <1>1 DEF Stop, QueueIssued
<1>5. DoorIssued'
  BY <1>1 DEF Stop, DoorIssued, Closed, NoRun
<1> QED BY <1>2, <1>3, <1>4, <1>5, IssuedUntouched DEF Stop, RunsIssued

LEMMA DrainIssued == ASSUME TypeInv, RunsIssued, Drain PROVE RunsIssued'
<1>1. QueueIssued'
  BY DEF Drain, QueueIssued
<1> QED BY <1>1, IssuedUntouched DEF Drain, RunsIssued

LEMMA InitIssued == ASSUME Init PROVE RunsIssued
<1>1. OwnersKnown /\ QueueIssued
  BY DEF Init, OwnersKnown, Issued, QueueIssued
<1>2. StoredIssued /\ WorkersIssued /\ DoorIssued
  BY DEF Init, StoredIssued, WorkersIssued, DoorIssued, Absent, Idle, Closed, NoRun
<1> QED BY <1>1, <1>2 DEF RunsIssued

-----------------------------------------------------------------------------
(* The inductive invariant, and the theorem.                               *)

TypeAndRuns == TypeInv /\ RunsIssued

LEMMA LoopStep == ASSUME TypeAndRuns, Loop PROVE TypeAndRuns'
  BY SubmitType, SubmitIssued, AcceptAddType, AcceptAddIssued, TakeType, TakeIssued,
     ResumeType, ResumeIssued, ResumeReplaceType, ResumeReplaceIssued,
     ScheduleType, ScheduleIssued, RegisterType, RegisterIssued DEF TypeAndRuns, Loop

LEMMA StartUpStep == ASSUME TypeAndRuns, StartUp PROVE TypeAndRuns'
<1>1. CASE Serve
  <2>1. RunsIssued'
    BY <1>1, IssuedUntouched DEF TypeAndRuns, RunsIssued, Serve, poolVars
  <2> QED BY <1>1, <2>1, ServeType DEF TypeAndRuns
<1>2. CASE Restore \/ RestoreAnnounce \/ \E r \in Run : RestoreFail(r)
  BY <1>2, RestoreType, RestoreIssued, RestoreAnnounceType, RestoreAnnounceIssued,
     RestoreFailType, RestoreFailIssued DEF TypeAndRuns
<1> QED BY <1>1, <1>2 DEF StartUp

LEMMA WorkStep == ASSUME TypeAndRuns, NEW w \in Worker, Work(w) PROVE TypeAndRuns'
<1>1. TypeInv'
  <2>1. CASE ReportStage(w) \/ ReportTool(w)
    BY <2>1, ReportType DEF TypeAndRuns, ReportStage, ReportTool
  <2>2. CASE ~(ReportStage(w) \/ ReportTool(w))
    BY <2>2, PickType, StartType, FinishType, PublishNewsType, ReleaseType, ForgetType
    DEF TypeAndRuns, Work
  <2> QED BY <2>1, <2>2
<1> QED BY <1>1, WorkIssued DEF TypeAndRuns

LEMMA SweepStep == ASSUME TypeAndRuns, NEW e \in Expirers, Sweep(e) PROVE TypeAndRuns'
  BY ScanType, PublishTimeoutType, ExpireType, SweepIssued DEF TypeAndRuns, Sweep

LEMMA LifeStep ==
    ASSUME TypeAndRuns,
           Purge \/ RetryArchive \/ Drain \/ Crash \/ Exit \/ \E r \in Run : BecomeOverdue(r)
    PROVE  TypeAndRuns'
<1>1. CASE RetryArchive \/ \E r \in Run : BecomeOverdue(r)
  <2>1. StoredIssued'
    BY <1>1 DEF TypeAndRuns, RunsIssued, StoredIssued, RetryArchive, BecomeOverdue, storeVars, contextVars
  <2>2. RunsIssued'
    BY <1>1, <2>1, IssuedUntouched DEF TypeAndRuns, RunsIssued, RetryArchive, BecomeOverdue, poolVars
  <2> QED BY <1>1, <2>2, RetryArchiveType, OverdueType DEF TypeAndRuns
<1>2. CASE Crash \/ Exit
  BY <1>2, StopType, StopIssued DEF TypeAndRuns, Crash, Exit
<1>3. CASE Purge \/ Drain
  BY <1>3, PurgeType, PurgeIssued, DrainType, DrainIssued DEF TypeAndRuns
<1> QED BY <1>1, <1>2, <1>3

LEMMA TypeAndRunsInductive == TypeAndRuns /\ [Next]_vars => TypeAndRuns'
<1> SUFFICES ASSUME TypeAndRuns, [Next]_vars PROVE TypeAndRuns'
  OBVIOUS
<1>1. CASE UNCHANGED vars
  BY <1>1, Untouched, IssuedUntouched DEF TypeAndRuns, TypeInv, RunsIssued, vars, poolVars
<1>2. CASE Next
  BY <1>2, LoopStep, StartUpStep, WorkStep, SweepStep, LifeStep DEF Next
<1> QED BY <1>1, <1>2

LEMMA TypeAndRunsInvariant == Spec => []TypeAndRuns
<1>1. Init => TypeAndRuns
  BY InitType, InitIssued DEF TypeAndRuns
<1> QED BY <1>1, TypeAndRunsInductive, PTL DEF Spec

(* Every variable keeps its type, for any number of products, workers,     *)
(* runs and restarts.                                                      *)
THEOREM TypeCorrect == Spec => []TypeOK
<1>1. TypeAndRuns => TypeOK
  BY DEF TypeAndRuns, TypeInv, TypeOK, StoreOK, ContextOK, CapacityOK, PoolOK, ExpirersOK, DoorOK,
         OverdueOK, CallbackOK, LifeOK
<1> QED BY <1>1, TypeAndRunsInvariant, PTL

-----------------------------------------------------------------------------
(***************************************************************************)
(* Safety of the session manager, for any number of products, workers,     *)
(* runs, places and restarts: the archive is always what a restart should  *)
(* find, and the backend is never asked more often than allowed.           *)
(***************************************************************************)

(* Nothing moves in a stopped server.                                      *)
Still == phase = "down" => /\ queue = << >> /\ door.pc = "idle"
                           /\ \A w \in Worker : workers[w].pc = "idle"
                           /\ \A e \in Expirers : expirers[e].pc = "idle"

LEMMA StillInductive == ASSUME TypeAndRuns, Still, [Next]_vars PROVE Still'
<1> USE DEF Still
<1>1. CASE UNCHANGED vars
  BY <1>1 DEF vars, poolVars, lifeVars
<1>2. CASE Loop
  <2>1. CASE Submit \/ SubmitDev
    BY <2>1 DEF Submit, SubmitDev, AcceptCheck, lifeVars
  <2>2. CASE AcceptAdd \/ Take \/ ResumeReplace \/ Register
    BY <2>2 DEF AcceptAdd, Take, ResumeReplace, Register, lifeVars
  <2>3. CASE Resume
    BY <2>3 DEF Resume, ResumeCheck, lifeVars
  <2>4. CASE \E r \in Run : Schedule(r)
    BY <2>4 DEF Schedule, lifeVars
  <2> QED BY <1>2, <2>1, <2>2, <2>3, <2>4 DEF Loop
<1>3. CASE StartUp
  <2>1. CASE Restore
    BY <2>1 DEF Restore, Boot
  <2>2. CASE RestoreAnnounce \/ Serve \/ \E r \in Run : RestoreFail(r)
    BY <2>2 DEF RestoreAnnounce, Serve, RestoreFail, lifeVars
  <2> QED BY <1>3, <2>1, <2>2 DEF StartUp
<1>4. ASSUME NEW w \in Worker, Work(w) PROVE Still'
  <2>1. phase' = phase
    BY <1>4 DEF Work, Pick, Start, ReportStage, ReportTool, Report, Finish, PublishNews, Release,
                Forget, lifeVars
  <2>2. phase # "down"
    BY <1>4 DEF Work, Pick, Start, ReportStage, ReportTool, Report, Finish, PublishNews, Release,
                Forget
  <2> QED BY <2>1, <2>2
<1>5. ASSUME NEW e \in Expirers, Sweep(e) PROVE Still'
  <2>1. phase' = phase
    BY <1>5 DEF Sweep, Scan, Expire, PublishTimeout, lifeVars
  <2>2. phase # "down"
    BY <1>5 DEF Sweep, Scan, Expire, PublishTimeout
  <2> QED BY <2>1, <2>2
<1>6. CASE Purge \/ RetryArchive \/ Drain
  BY <1>6 DEF Purge, RetryArchive, Drain, Expirers, lifeVars
<1>7. CASE Crash \/ Exit
  BY <1>7 DEF Crash, Exit, Stop, Idle, Closed, Resting
<1>8. CASE \E r \in Run : BecomeOverdue(r)
  BY <1>8 DEF BecomeOverdue, lifeVars, poolVars
<1> QED BY <1>1, <1>2, <1>3, <1>4, <1>5, <1>6, <1>7, <1>8 DEF Next

-----------------------------------------------------------------------------
(* Changes of stored sessions.                                             *)

LEMMA WorkerOwner ==
    ASSUME TypeAndRuns, NEW w \in Worker, workers[w].pc # "idle"
    PROVE  /\ workers[w].run \in Run /\ workers[w].run <= issued
           /\ owner[workers[w].run] \in Product
<1>1. workers[w].run \in Run /\ workers[w].run <= issued
  BY WorkersRun DEF TypeAndRuns, RunsIssued, WorkersIssued
<1>2. workers[w].run \in Issued
  BY <1>1, SizesAssumption DEF Run, Issued, TypeAndRuns, TypeInv, ContextOK
<1> QED BY <1>1, <1>2 DEF TypeAndRuns, RunsIssued, OwnersKnown

(* No session is taken up again, and the round of one in progress stays.   *)
StoreKeeps ==
    \A p \in Product :
      /\ sessions'[p].run = sessions[p].run
      /\ sessions'[p].status \in TimesOut => /\ sessions[p].status \in TimesOut
                                             /\ sessions'[p].round = sessions[p].round

LEMMA ApplyKeeps ==
    ASSUME TypeAndRuns, NEW r \in Run, NEW change \in Changes \ {"Resume"},
           NEW cause \in Causes, Apply(r, change, cause)
    PROVE  /\ StoreKeeps
           /\ \A p \in Product : sessions'[p].round = sessions[p].round
                \/ /\ change = "AskUser" /\ p = owner[r] /\ sessions[p].run = r
                   /\ sessions[p].status \in TimesOut
                   /\ sessions'[p].round = sessions[p].round + 1
<1> DEFINE q == owner[r]
           s == sessions[q]
           t == SessionAfter(s, change, cause)
<1>1. sessions' = [sessions EXCEPT ![q] = t] /\ s.run = r /\ s.status \in Sources[change]
  BY DEF Apply, Applicable, Set
<1>2. CASE q \in Product
  <2>1. s \in Session
    BY <1>2 DEF TypeAndRuns, TypeInv, StoreOK
  <2>2. Moved(s, change) \in Session /\ Moved(s, change).run = r /\ Moved(s, change).round = s.round
    BY <1>1, <2>1, MovedIsSession
  <2>3. Moved(s, change).status = Target[change]
    BY <2>1 DEF Moved, Session
  <2>4. /\ t.run = r /\ t.status = Target[change]
        /\ t.round = IF change = "AskUser" THEN s.round + 1 ELSE s.round
    BY <2>2, <2>3 DEF SessionAfter, Session
  <2>5. /\ s.status \in TimesOut
        /\ Target[change] \in TimesOut => change # "AskUser"
    BY <1>1 DEF Changes, Sources, Target, TimesOut
  <2>6. \A p \in Product : sessions'[p] = IF p = q THEN t ELSE sessions[p]
    BY <1>1 DEF TypeAndRuns, TypeInv, StoreOK
  <2> HIDE DEF t
  <2>7. StoreKeeps
    BY <1>1, <2>4, <2>5, <2>6 DEF StoreKeeps
  <2> QED BY <1>1, <2>4, <2>5, <2>6, <2>7
<1>3. CASE q \notin Product
  <2>1. \A p \in Product : sessions'[p] = sessions[p]
    BY <1>1, <1>3 DEF TypeAndRuns, TypeInv, StoreOK
  <2> QED BY <2>1 DEF StoreKeeps
<1> QED BY <1>2, <1>3

-----------------------------------------------------------------------------
(* Question rounds.                                                        *)

RoundsBounded == \A p \in Product : /\ sessions[p].round <= MaxQuestionRounds
                                    /\ archive[p].round <= MaxQuestionRounds

(* The limit is compared with the round the worker read when it started    *)
(* the run.  That is the round of the session as long as the session is    *)
(* still about this run and has not ended.                                 *)
WorkersKnowRound ==
    \A w \in Worker :
      LET s == sessions[owner[workers[w].run]] IN
      workers[w].pc \in {"job", "publish"} /\ s.run = workers[w].run /\ s.status \in TimesOut
        => workers[w].round = s.round

RoundsInv == Still /\ RoundsBounded /\ WorkersKnowRound

LEMMA RoundsUntouched ==
    /\ RoundsBounded /\ UNCHANGED storeVars => RoundsBounded'
    /\ WorkersKnowRound /\ UNCHANGED <<storeVars, owner, workers>> => WorkersKnowRound'
  BY DEF RoundsBounded, WorkersKnowRound, storeVars

LEMMA PersistRounds ==
    ASSUME TypeAndRuns, RoundsBounded, NEW changed, Persist(changed),
           \A p \in Product : sessions'[p].round <= MaxQuestionRounds
    PROVE  RoundsBounded'
<1>1. \A p \in Product : Row(p, sessions'[p]).round <= MaxQuestionRounds
  BY SizesAssumption DEF Row, Absent
<1> QED BY <1>1 DEF Persist, RoundsBounded

(* A worker that goes on with its run keeps the round it read.             *)
WorkersGoOn ==
    \A w \in Worker : workers'[w].pc \in {"job", "publish"} =>
      /\ workers[w].pc \in {"job", "publish"}
      /\ workers'[w].run = workers[w].run /\ workers'[w].round = workers[w].round

LEMMA GoingOnKnowsRound ==
    ASSUME TypeAndRuns, WorkersKnowRound, UNCHANGED owner, WorkersGoOn, StoreKeeps
    PROVE  WorkersKnowRound'
<1> SUFFICES ASSUME NEW w \in Worker, workers'[w].pc \in {"job", "publish"},
                    sessions'[owner[workers'[w].run]].run = workers'[w].run,
                    sessions'[owner[workers'[w].run]].status \in TimesOut
             PROVE  workers'[w].round = sessions'[owner[workers'[w].run]].round
  BY DEF WorkersKnowRound
<1>1. /\ workers[w].pc \in {"job", "publish"}
      /\ workers'[w].run = workers[w].run /\ workers'[w].round = workers[w].round
  BY DEF WorkersGoOn
<1>2. owner[workers[w].run] \in Product
  BY <1>1, WorkerOwner
<1> QED BY <1>1, <1>2 DEF WorkersKnowRound, StoreKeeps

(* New runs are nobody's yet: what the workers know stays true.            *)
LEMMA NewRunsKnowRound ==
    ASSUME TypeAndRuns, WorkersKnowRound, UNCHANGED workers,
           \A r \in Run : r <= issued => owner'[r] = owner[r],
           \A p \in Product : sessions'[p] = sessions[p] \/ sessions'[p].run \notin Issued
    PROVE  WorkersKnowRound'
<1> SUFFICES ASSUME NEW w \in Worker, workers[w].pc \in {"job", "publish"},
                    sessions'[owner'[workers[w].run]].run = workers[w].run,
                    sessions'[owner'[workers[w].run]].status \in TimesOut
             PROVE  workers[w].round = sessions'[owner'[workers[w].run]].round
  BY DEF WorkersKnowRound
<1>1. /\ workers[w].run \in Run /\ workers[w].run <= issued /\ owner[workers[w].run] \in Product
  BY WorkerOwner
<1>2. owner'[workers[w].run] = owner[workers[w].run] /\ workers[w].run \in Issued
  BY <1>1, SizesAssumption DEF Issued, Run, TypeAndRuns, TypeInv, ContextOK
<1>3. sessions'[owner[workers[w].run]] = sessions[owner[workers[w].run]]
  BY <1>1, <1>2
<1> QED BY <1>2, <1>3 DEF WorkersKnowRound

LEMMA AcceptAddRounds == ASSUME TypeAndRuns, RoundsInv, AcceptAdd
                         PROVE  RoundsBounded' /\ WorkersKnowRound'
<1> DEFINE new == issued + 1 .. issued + Len(door.batch)
<1>1. \A p \in Product : \/ sessions'[p] = sessions[p]
                         \/ \E r \in new : sessions'[p] = Accepted(r)
  BY DEF AcceptAdd
<1>2. issued \in Nat /\ \A r \in new : r \notin Issued
  BY SizesAssumption DEF TypeAndRuns, TypeInv, ContextOK, Issued
<1>3. \A r \in Run : r <= issued => owner'[r] = owner[r]
  BY <1>2 DEF AcceptAdd
<1>4. \A r : Accepted(r).run = r /\ Accepted(r).round = 0
  BY DEF Accepted
<1> HIDE DEF new
<1>8. \A p \in Product : sessions'[p] = sessions[p] \/ sessions'[p].run \notin Issued
  BY <1>1, <1>2, <1>4
<1>5. WorkersKnowRound'
  BY <1>3, <1>8, NewRunsKnowRound DEF AcceptAdd, poolVars, RoundsInv
<1>6. \A p \in Product : sessions'[p].round <= MaxQuestionRounds
  BY <1>1, <1>4, SizesAssumption DEF RoundsInv, RoundsBounded
<1>7. RoundsBounded'
  BY <1>6, PersistRounds DEF AcceptAdd, RoundsInv
<1> QED BY <1>5, <1>7

LEMMA ResumeReplaceRounds == ASSUME TypeAndRuns, RoundsInv, ResumeReplace
                             PROVE  RoundsBounded' /\ WorkersKnowRound'
<1> DEFINE p == owner[door.run]
           new == issued + 1
           s == [Moved(sessions[p], "Resume") EXCEPT !.run = new]
<1>1. issued \in Nat /\ new \notin Issued
  BY SizesAssumption DEF TypeAndRuns, TypeInv, ContextOK, Issued
<1>2. CASE Applicable(door.run, "Resume") /\ sessions[p].round = door.round
  <2>1. /\ owner' = [owner EXCEPT ![new] = p]
        /\ sessions' = [sessions EXCEPT ![p] = s] /\ Persist({p}) /\ workers' = workers
    BY <1>2 DEF ResumeReplace, Set, poolVars
  <2>2. p \in Product => s.run = new /\ s.round = sessions[p].round
    BY DEF Moved, TypeAndRuns, TypeInv, StoreOK, Session
  <2> HIDE DEF s
  <2>3. \A q \in Product : sessions'[q] = sessions[q]
                           \/ (sessions'[q].run = new /\ sessions'[q].round = sessions[q].round)
    BY <2>1, <2>2 DEF TypeAndRuns, TypeInv, StoreOK
  <2>4. \A r \in Run : r <= issued => owner'[r] = owner[r]
    BY <1>1, <2>1 DEF TypeAndRuns, TypeInv, ContextOK
  <2>5. WorkersKnowRound'
    BY <1>1, <2>1, <2>3, <2>4, NewRunsKnowRound DEF RoundsInv
  <2>6. \A q \in Product : sessions'[q].round <= MaxQuestionRounds
    BY <2>3 DEF RoundsInv, RoundsBounded
  <2>7. RoundsBounded'
    BY <2>1, <2>6, PersistRounds DEF RoundsInv
  <2> QED BY <2>5, <2>7
<1>3. CASE ~(Applicable(door.run, "Resume") /\ sessions[p].round = door.round)
  BY <1>3, RoundsUntouched DEF ResumeReplace, RoundsInv, contextVars, poolVars
<1> QED BY <1>2, <1>3

LEMMA FailRounds ==
    ASSUME TypeAndRuns, RoundsInv, NEW r \in Run, Apply(r, "Fail", "TIMEOUT"),
           UNCHANGED <<owner, workers>>
    PROVE  RoundsBounded' /\ WorkersKnowRound'
<1>1. "Fail" \in Changes \ {"Resume"} /\ "TIMEOUT" \in Causes
  BY DEF Changes, Causes
<1>2. StoreKeeps /\ \A p \in Product : sessions'[p].round = sessions[p].round
  BY <1>1, ApplyKeeps
<1>3. WorkersKnowRound'
  <2>1. WorkersGoOn
    BY DEF WorkersGoOn
  <2> QED BY <1>2, <2>1, GoingOnKnowsRound DEF RoundsInv
<1>4. RoundsBounded'
  BY <1>2, PersistRounds DEF Apply, Set, RoundsInv, RoundsBounded
<1> QED BY <1>3, <1>4

LEMMA LoopRounds == ASSUME TypeAndRuns, RoundsInv, Loop PROVE RoundsBounded' /\ WorkersKnowRound'
<1>1. CASE Submit \/ SubmitDev
  BY <1>1, RoundsUntouched DEF Submit, SubmitDev, AcceptCheck, RoundsInv, poolVars, contextVars
<1>2. CASE Resume
  BY <1>2, RoundsUntouched DEF Resume, ResumeCheck, RoundsInv, poolVars, contextVars
<1>3. CASE Take \/ Register \/ \E r \in Run : Schedule(r)
  BY <1>3, RoundsUntouched DEF Take, Register, Schedule, RoundsInv, poolVars, contextVars
<1> QED BY <1>1, <1>2, <1>3, AcceptAddRounds, ResumeReplaceRounds DEF Loop

LEMMA StartUpRounds == ASSUME TypeAndRuns, RoundsInv, StartUp PROVE RoundsBounded' /\ WorkersKnowRound'
<1>1. CASE Restore
  <2>1. PICK rows \in {archive, [p \in Product |-> Absent]} : Boot(rows)
    BY <1>1 DEF Restore
  <2>2. \A p \in Product : rows[p].round <= MaxQuestionRounds
    BY <2>1, SizesAssumption DEF RoundsInv, RoundsBounded, Absent
  <2>3. RoundsBounded'
    BY <2>1, <2>2 DEF Boot, RoundsInv, RoundsBounded
  <2>4. \A w \in Worker : workers'[w].pc = "idle"
    BY <2>1 DEF Boot, RoundsInv, Still, poolVars
  <2> QED BY <2>3, <2>4 DEF WorkersKnowRound
<1>2. CASE RestoreAnnounce \/ Serve
  BY <1>2, RoundsUntouched DEF RestoreAnnounce, Serve, RoundsInv, poolVars, contextVars
<1>3. ASSUME NEW r \in Run, RestoreFail(r) PROVE RoundsBounded' /\ WorkersKnowRound'
  <2>1. UNCHANGED <<owner, workers>>
    BY <1>3 DEF RestoreFail, contextVars, poolVars
  <2> QED BY <1>3, <2>1, FailRounds, RoundsUntouched DEF RestoreFail, RoundsInv
<1> QED BY <1>1, <1>2, <1>3 DEF StartUp

LEMMA SweepRounds ==
    ASSUME TypeAndRuns, RoundsInv, NEW e \in Expirers, Sweep(e)
    PROVE  RoundsBounded' /\ WorkersKnowRound'
<1>1. UNCHANGED <<owner, workers>>
  BY DEF Sweep, Scan, Expire, PublishTimeout, contextVars, poolVars
<1>2. CASE Scan(e) \/ PublishTimeout(e)
  BY <1>1, <1>2, RoundsUntouched DEF Scan, PublishTimeout, RoundsInv
<1>3. ASSUME NEW r \in Run, Expire(e, r) PROVE RoundsBounded' /\ WorkersKnowRound'
  BY <1>1, <1>3, FailRounds, RoundsUntouched DEF Expire, RoundsInv
<1> QED BY <1>2, <1>3 DEF Sweep

LEMMA StartRounds == ASSUME TypeAndRuns, RoundsInv, NEW w \in Worker, Start(w)
                     PROVE  RoundsBounded' /\ WorkersKnowRound'
<1> DEFINE r == workers[w].run
<1>1. /\ r \in Run /\ owner[r] \in Product /\ UNCHANGED owner
      /\ workers \in [Worker -> Working]
  BY WorkerOwner DEF Start, contextVars, TypeAndRuns, TypeInv, PoolOK
<1>2. CASE Applicable(r, "Start")
  <2>1. /\ Apply(r, "Start", "none")
        /\ workers' = [workers EXCEPT ![w].pc = "job", ![w].round = sessions[owner[r]].round]
    BY <1>2 DEF Start
  <2>2. "Start" \in Changes \ {"Resume"} /\ "none" \in Causes /\ "Start" # "AskUser"
    BY DEF Changes, Causes
  <2>3. StoreKeeps /\ \A p \in Product : sessions'[p].round = sessions[p].round
    BY <1>1, <2>1, <2>2, ApplyKeeps
  <2>4. RoundsBounded'
    BY <2>1, <2>3, PersistRounds DEF Apply, Set, RoundsInv, RoundsBounded
  <2>5. WorkersKnowRound'
    <3>1. /\ workers'[w].run = r /\ workers'[w].round = sessions[owner[r]].round
          /\ \A v \in Worker \ {w} : workers'[v] = workers[v]
      BY <1>1, <2>1 DEF Working
    <3>2. ASSUME NEW v \in Worker \ {w}, workers'[v].pc \in {"job", "publish"},
                 sessions'[owner'[workers'[v].run]].run = workers'[v].run,
                 sessions'[owner'[workers'[v].run]].status \in TimesOut
          PROVE  workers'[v].round = sessions'[owner'[workers'[v].run]].round
      <4>1. owner[workers[v].run] \in Product
        BY <3>1, <3>2, WorkerOwner
      <4> QED BY <1>1, <2>3, <3>1, <3>2, <4>1 DEF RoundsInv, WorkersKnowRound, StoreKeeps
    <3>3. workers'[w].round = sessions'[owner'[workers'[w].run]].round
      BY <1>1, <2>3, <3>1
    <3> QED BY <3>2, <3>3 DEF WorkersKnowRound
  <2> QED BY <2>4, <2>5
<1>3. CASE ~Applicable(r, "Start")
  <2>1. workers' = [workers EXCEPT ![w].pc = "release"] /\ UNCHANGED storeVars
    BY <1>3 DEF Start
  <2>2. WorkersGoOn /\ StoreKeeps
    BY <1>1, <2>1 DEF WorkersGoOn, StoreKeeps, Working, storeVars
  <2> QED BY <1>1, <2>1, <2>2, GoingOnKnowsRound, RoundsUntouched DEF RoundsInv
<1> QED BY <1>2, <1>3

(* The worker asks only when the round it read is below the limit.         *)
LEMMA FinishRounds == ASSUME TypeAndRuns, RoundsInv, NEW w \in Worker, Finish(w)
                      PROVE  RoundsBounded' /\ WorkersKnowRound'
<1> DEFINE r == workers[w].run
<1>1. /\ r \in Run /\ owner[r] \in Product /\ UNCHANGED owner
      /\ workers \in [Worker -> Working] /\ workers[w].pc = "job"
  BY WorkerOwner DEF Finish, contextVars, TypeAndRuns, TypeInv, PoolOK
<1>2. PICK change \in Outcomes(workers[w].round) :
         IF Applicable(r, change)
         THEN /\ Apply(r, change, "JOB")
              /\ workers' = [workers EXCEPT ![w].pc = "publish",
                               ![w].news = [kind |-> Announcement[change], stage |-> "none"]]
         ELSE /\ workers' = [workers EXCEPT ![w].pc = "release"]
              /\ UNCHANGED storeVars
  BY DEF Finish
<1>3. WorkersGoOn
  BY <1>1, <1>2 DEF WorkersGoOn, Working
<1>4. CASE Applicable(r, change)
  <2>1. change \in Changes \ {"Resume"} /\ "JOB" \in Causes /\ Apply(r, change, "JOB")
    BY <1>2, <1>4 DEF Changes, Causes, Outcomes
  <2>2. StoreKeeps
        /\ \A p \in Product : sessions'[p].round = sessions[p].round
             \/ /\ change = "AskUser" /\ p = owner[r] /\ sessions[p].run = r
                /\ sessions[p].status \in TimesOut
                /\ sessions'[p].round = sessions[p].round + 1
    BY <1>1, <2>1, ApplyKeeps
  <2>3. \A p \in Product : sessions'[p].round <= MaxQuestionRounds
    <3> SUFFICES ASSUME change = "AskUser", sessions[owner[r]].run = r,
                        sessions[owner[r]].status \in TimesOut
                 PROVE  sessions[owner[r]].round + 1 <= MaxQuestionRounds
      BY <2>2 DEF RoundsInv, RoundsBounded
    <3>1. workers[w].round = sessions[owner[r]].round
      BY <1>1 DEF RoundsInv, WorkersKnowRound
    <3>2. workers[w].round \in Nat /\ ~(workers[w].round >= MaxQuestionRounds)
      BY <1>1, <1>2 DEF Outcomes, Working
    <3> QED BY <3>1, <3>2, SizesAssumption
  <2>4. RoundsBounded'
    BY <2>1, <2>3, PersistRounds DEF Apply, Set, RoundsInv
  <2> QED BY <1>1, <1>3, <2>2, <2>4, GoingOnKnowsRound DEF RoundsInv
<1>5. CASE ~Applicable(r, change)
  <2>1. UNCHANGED storeVars /\ StoreKeeps
    BY <1>2, <1>5 DEF storeVars, StoreKeeps
  <2> QED BY <1>1, <1>3, <2>1, GoingOnKnowsRound, RoundsUntouched DEF RoundsInv
<1> QED BY <1>4, <1>5

LEMMA WorkRounds == ASSUME TypeAndRuns, RoundsInv, NEW w \in Worker, Work(w)
                    PROVE  RoundsBounded' /\ WorkersKnowRound'
<1>1. workers \in [Worker -> Working] /\ Idle.pc = "idle"
  BY DEF TypeAndRuns, TypeInv, PoolOK, Idle
<1>2. ASSUME WorkersGoOn, UNCHANGED <<storeVars, owner>>
      PROVE  RoundsBounded' /\ WorkersKnowRound'
  BY <1>2, GoingOnKnowsRound, RoundsUntouched DEF RoundsInv, StoreKeeps, storeVars
<1>3. CASE Pick(w)
  <2>1. [Idle EXCEPT !.pc = "start", !.run = Head(queue)].pc = "start"
    BY DEF Idle
  <2>2. \A v \in Worker : workers'[v] = workers[v] \/ workers'[v].pc = "start"
    BY <1>1, <1>3, <2>1 DEF Pick
  <2>3. WorkersGoOn
    BY <2>2 DEF WorkersGoOn
  <2> QED BY <1>2, <1>3, <2>3 DEF Pick, contextVars
<1>4. CASE ReportStage(w) \/ ReportTool(w)
  <2>1. PICK kind, stage : Report(w, kind, stage)
    BY <1>4 DEF ReportStage, ReportTool
  <2>2. WorkersGoOn
    BY <1>1, <2>1 DEF Report, WorkersGoOn, Working
  <2> QED BY <1>2, <2>1, <2>2 DEF Report, contextVars
<1>5. CASE PublishNews(w)
  <2>1. WorkersGoOn
    BY <1>1, <1>5 DEF PublishNews, WorkersGoOn, Working
  <2> QED BY <1>2, <1>5, <2>1 DEF PublishNews, contextVars
<1>6. CASE Release(w) \/ Forget(w)
  <2>1. WorkersGoOn
    BY <1>1, <1>6 DEF Release, Forget, WorkersGoOn, Working
  <2> QED BY <1>2, <1>6, <2>1 DEF Release, Forget, contextVars
<1> QED BY <1>3, <1>4, <1>5, <1>6, StartRounds, FinishRounds DEF Work

LEMMA LifeRounds ==
    ASSUME TypeAndRuns, RoundsInv,
           Purge \/ RetryArchive \/ Drain \/ Crash \/ Exit \/ \E r \in Run : BecomeOverdue(r)
    PROVE  RoundsBounded' /\ WorkersKnowRound'
<1>1. CASE Purge
  <2>1. PICK old \in SUBSET {p \in Product : sessions[p].status \in Retained} :
          /\ sessions' = [p \in Product |-> IF p \in old THEN Absent ELSE sessions[p]]
          /\ Persist(old)
    BY <1>1 DEF Purge
  <2>2. \A p \in Product : sessions'[p] = sessions[p]
                           \/ (sessions'[p].run \notin Issued /\ sessions'[p].round = 0)
    BY <2>1 DEF Absent, Issued, NoRun
  <2>3. \A p \in Product : sessions'[p].round <= MaxQuestionRounds
    BY <2>2, SizesAssumption DEF RoundsInv, RoundsBounded
  <2>4. RoundsBounded'
    BY <2>1, <2>3, PersistRounds DEF RoundsInv
  <2>5. WorkersKnowRound'
    BY <1>1, <2>2, NewRunsKnowRound DEF Purge, RoundsInv, poolVars, contextVars
  <2> QED BY <2>4, <2>5
<1>2. CASE RetryArchive
  BY <1>2 DEF RetryArchive, RoundsInv, RoundsBounded, WorkersKnowRound, contextVars, poolVars
<1>3. CASE Drain \/ \E r \in Run : BecomeOverdue(r)
  BY <1>3, RoundsUntouched DEF Drain, BecomeOverdue, RoundsInv, contextVars, poolVars
<1>4. CASE Crash \/ Exit
  BY <1>4, SizesAssumption
  DEF Crash, Exit, Stop, RoundsInv, RoundsBounded, WorkersKnowRound, Absent, Idle
<1> QED BY <1>1, <1>2, <1>3, <1>4

(* A product is asked at most MaxQuestionRounds times, however its runs,   *)
(* time-outs, answers and restarts interleave.                             *)
THEOREM QuestionsBounded == Spec => []QuestionRoundsBounded
<1>1. Init => RoundsInv
  BY SizesAssumption DEF Init, RoundsInv, Still, RoundsBounded, WorkersKnowRound, Absent, Idle
<1>2. TypeAndRuns /\ RoundsInv /\ [Next]_vars => RoundsInv'
  <2> SUFFICES ASSUME TypeAndRuns, RoundsInv, [Next]_vars PROVE RoundsBounded' /\ WorkersKnowRound'
    BY StillInductive DEF RoundsInv
  <2>1. CASE UNCHANGED vars
    BY <2>1, RoundsUntouched DEF vars, RoundsInv, contextVars, poolVars
  <2>2. CASE Next
    BY <2>2, LoopRounds, StartUpRounds, WorkRounds, SweepRounds, LifeRounds DEF Next
  <2> QED BY <2>1, <2>2
<1>3. RoundsInv => QuestionRoundsBounded
  BY DEF RoundsInv, RoundsBounded, QuestionRoundsBounded
<1> QED BY <1>1, <1>2, <1>3, TypeAndRunsInvariant, PTL DEF Spec

-----------------------------------------------------------------------------
(* The archive.                                                            *)

(* With a database that works, the rows are those of sessions to keep, and *)
(* in a server that runs they are those of its store.                      *)
Mirror ==
    Restorable /\ ~ArchiveMayFail =>
      /\ ~skipping
      /\ \A p \in Product : archive[p] = Row(p, archive[p])
      /\ phase # "down" => \A p \in Product : archive[p] = Row(p, sessions[p])

MirrorInv == Still /\ Mirror

LEMMA RowTwice == \A p, s : Row(p, Row(p, s)) = Row(p, s)
  BY DEF Row, Kept, Absent, Archived

LEMMA PersistMirrors ==
    ASSUME TypeAndRuns, Mirror, phase # "down", UNCHANGED phase, NEW changed, Persist(changed),
           \A p \in Product \ changed : sessions'[p] = sessions[p]
    PROVE  Mirror'
<1> SUFFICES ASSUME Restorable, ~ArchiveMayFail
             PROVE  /\ ~skipping'
                    /\ \A p \in Product : archive'[p] = Row(p, sessions'[p])
  BY RowTwice DEF Mirror
<1>1. ~skipping /\ \A p \in Product : archive[p] = Row(p, sessions[p])
  BY DEF Mirror
<1> DEFINE touched == {p \in changed : Kept(p, sessions[p]) \/ Kept(p, sessions'[p])}
<1>2. /\ skipping' = skipping
      /\ archive' = [p \in Product |-> IF p \in touched THEN Row(p, sessions'[p]) ELSE archive[p]]
  BY <1>1 DEF Persist
<1>3. \A p \in Product \ touched : Row(p, sessions'[p]) = Row(p, sessions[p])
  BY DEF Row
<1> HIDE DEF touched
<1> QED BY <1>1, <1>2, <1>3

LEMMA SetMirrors ==
    ASSUME TypeAndRuns, Mirror, phase # "down", UNCHANGED phase, NEW q, NEW s, Set(q, s)
    PROVE  Mirror'
<1>1. Persist({q}) /\ \A p \in Product \ {q} : sessions'[p] = sessions[p]
  BY DEF Set, TypeAndRuns, TypeInv, StoreOK
<1> QED BY <1>1, PersistMirrors

LEMMA MirrorUntouched ==
    ASSUME Mirror, UNCHANGED storeVars, phase' # "down" => phase # "down"
    PROVE  Mirror'
  BY DEF Mirror, storeVars

LEMMA LoopMirror == ASSUME TypeAndRuns, MirrorInv, Loop PROVE Mirror'
<1>1. CASE Submit \/ SubmitDev
  BY <1>1, MirrorUntouched DEF Submit, SubmitDev, AcceptCheck, MirrorInv, lifeVars
<1>2. CASE Resume
  BY <1>2, MirrorUntouched DEF Resume, ResumeCheck, MirrorInv, lifeVars
<1>3. CASE Take \/ Register \/ \E r \in Run : Schedule(r)
  BY <1>3, MirrorUntouched DEF Take, Register, Schedule, MirrorInv, lifeVars
<1>4. CASE AcceptAdd
  <2> DEFINE new == issued + 1 .. issued + Len(door.batch)
             changed == {owner'[r] : r \in new}
  <2>1. Persist(changed) /\ phase # "down" /\ phase' = phase
    BY <1>4 DEF AcceptAdd, MirrorInv, Still, lifeVars
  <2>2. \A p \in Product \ changed : sessions'[p] = sessions[p]
    BY <1>4 DEF AcceptAdd
  <2> HIDE DEF changed
  <2> QED BY <2>1, <2>2, PersistMirrors DEF MirrorInv
<1>5. CASE ResumeReplace
  <2>1. phase # "down" /\ phase' = phase
    BY <1>5 DEF ResumeReplace, MirrorInv, Still, lifeVars
  <2>2. UNCHANGED storeVars \/ \E q, s : Set(q, s)
    BY <1>5 DEF ResumeReplace
  <2> QED BY <2>1, <2>2, SetMirrors, MirrorUntouched DEF MirrorInv
<1> QED BY <1>1, <1>2, <1>3, <1>4, <1>5 DEF Loop

LEMMA StartUpMirror == ASSUME TypeAndRuns, MirrorInv, StartUp PROVE Mirror'
<1>1. CASE Restore
  <2> SUFFICES ASSUME Restorable, ~ArchiveMayFail PROVE Mirror'
    BY DEF Mirror
  <2>1. Boot(archive)
    BY <1>1 DEF Restore
  <2> QED BY <2>1 DEF Boot, Mirror, MirrorInv
<1>2. CASE RestoreAnnounce \/ Serve
  BY <1>2, MirrorUntouched DEF RestoreAnnounce, Serve, MirrorInv, lifeVars
<1>3. ASSUME NEW r \in Run, RestoreFail(r) PROVE Mirror'
  <2>1. phase # "down" /\ phase' = phase
    BY <1>3 DEF RestoreFail, MirrorInv, Still, lifeVars
  <2>2. UNCHANGED storeVars \/ \E q, s : Set(q, s)
    BY <1>3 DEF RestoreFail, Apply
  <2> QED BY <2>1, <2>2, SetMirrors, MirrorUntouched DEF MirrorInv
<1> QED BY <1>1, <1>2, <1>3 DEF StartUp

LEMMA WorkMirror == ASSUME TypeAndRuns, MirrorInv, NEW w \in Worker, Work(w) PROVE Mirror'
<1>1. phase # "down" /\ phase' = phase
  BY DEF Work, Pick, Start, ReportStage, ReportTool, Report, Finish, PublishNews, Release, Forget,
         MirrorInv, Still, lifeVars
<1>2. UNCHANGED storeVars \/ \E q, s : Set(q, s)
  BY DEF Work, Pick, Start, ReportStage, ReportTool, Report, Finish, PublishNews, Release, Forget, Apply
<1> QED BY <1>1, <1>2, SetMirrors, MirrorUntouched DEF MirrorInv

LEMMA SweepMirror == ASSUME TypeAndRuns, MirrorInv, NEW e \in Expirers, Sweep(e) PROVE Mirror'
<1>1. phase # "down" /\ phase' = phase
  BY DEF Sweep, Scan, Expire, PublishTimeout, MirrorInv, Still, lifeVars
<1>2. UNCHANGED storeVars \/ \E q, s : Set(q, s)
  BY DEF Sweep, Scan, Expire, PublishTimeout, Apply
<1> QED BY <1>1, <1>2, SetMirrors, MirrorUntouched DEF MirrorInv

LEMMA LifeMirror ==
    ASSUME TypeAndRuns, MirrorInv,
           Purge \/ RetryArchive \/ Drain \/ Crash \/ Exit \/ \E r \in Run : BecomeOverdue(r)
    PROVE  Mirror'
<1>1. CASE Purge
  <2>1. PICK old \in SUBSET {p \in Product : sessions[p].status \in Retained} :
          /\ sessions' = [p \in Product |-> IF p \in old THEN Absent ELSE sessions[p]]
          /\ Persist(old)
    BY <1>1 DEF Purge
  <2>2. phase # "down" /\ phase' = phase
    BY <1>1 DEF Purge, MirrorInv, Still, Expirers, lifeVars
  <2> QED BY <2>1, <2>2, PersistMirrors DEF MirrorInv
<1>2. CASE RetryArchive
  BY <1>2 DEF RetryArchive, MirrorInv, Mirror, lifeVars
<1>3. CASE Drain \/ \E r \in Run : BecomeOverdue(r)
  BY <1>3, MirrorUntouched DEF Drain, BecomeOverdue, MirrorInv, lifeVars
<1>4. CASE Crash \/ Exit
  BY <1>4 DEF Crash, Exit, Stop, MirrorInv, Mirror
<1> QED BY <1>1, <1>2, <1>3, <1>4

LEMMA MirrorHolds == Spec => []MirrorInv
<1>1. Init => MirrorInv
  BY RowTwice DEF Init, MirrorInv, Still, Mirror, Row, Kept, Archived, Absent, Idle, Closed, Resting
<1>2. TypeAndRuns /\ MirrorInv /\ [Next]_vars => MirrorInv'
  <2> SUFFICES ASSUME TypeAndRuns, MirrorInv, [Next]_vars PROVE Mirror'
    BY StillInductive DEF MirrorInv
  <2>1. CASE UNCHANGED vars
    BY <2>1, MirrorUntouched DEF vars, MirrorInv, lifeVars
  <2>2. CASE Next
    BY <2>2, LoopMirror, StartUpMirror, WorkMirror, SweepMirror, LifeMirror DEF Next
  <2> QED BY <2>1, <2>2
<1> QED BY <1>1, <1>2, TypeAndRunsInvariant, PTL DEF Spec

(* With a database that works, a restart finds exactly the sessions the    *)
(* store would bring back, at whatever step the server stops.              *)
THEOREM ArchiveFollowsStore == Spec => []ArchiveMirrorsStore
<1>1. TypeAndRuns /\ MirrorInv => ArchiveMirrorsStore
  BY DEF MirrorInv, Mirror, ArchiveMirrorsStore, Row, TypeAndRuns, TypeInv, StoreOK
<1> QED BY <1>1, MirrorHolds, TypeAndRunsInvariant, PTL

-----------------------------------------------------------------------------
(***************************************************************************)
(* Who works on what in the session manager, for any number of products,   *)
(* workers, runs, places and restarts: a run is in one place at a time, the *)
(* futures and the places are those of the runs not yet over, nobody waits *)
(* for a run that nobody will bring further, and time-outs and the limits  *)
(* mean what they say.                                                     *)
(***************************************************************************)

(* The event loop keeps runs only while it schedules them.                 *)
DoorFits ==
    /\ door.pc \in {"idle", "add", "resume"} => door.todo = {} /\ door.fails = {}
    /\ door.pc = "take" => door.fails = {}
    /\ door.pc = "announce" => door.todo = {}

(* A run is about to be queued, queued once, or with one worker.           *)
QueuedOnce == \A i, j \in DOMAIN queue : queue[i] = queue[j] => i = j
HeldOnce   == \A v, w \in Worker : workers[v].run = workers[w].run /\ workers[w].run # NoRun => v = w
Apart      == /\ QueuedRuns \cap BusyRuns = {}
              /\ door.todo \cap (QueuedRuns \cup BusyRuns) = {}

(* The run that is being scheduled is not listed before it is registered.  *)
FuturesFit ==
    futures = IF door.pc = "register" THEN (QueuedRuns \cup BusyRuns) \ {door.run}
                                      ELSE QueuedRuns \cup BusyRuns

PlacesFit == /\ phase = "down" => inflight = 0
             /\ CapacityMatchesWork

WorkInv == DoorFits /\ QueuedOnce /\ HeldOnce /\ Apart /\ FuturesFit /\ PlacesFit

-----------------------------------------------------------------------------
(* The queue and the runs of the workers.                                  *)

LEMMA QueueAppended ==
    ASSUME queue \in Seq(Run), NEW r \in Run, queue' = Append(queue, r), r \notin QueuedRuns, QueuedOnce
    PROVE  QueuedRuns' = QueuedRuns \cup {r} /\ QueuedOnce'
<1>1. /\ Len(queue) \in Nat /\ DOMAIN queue = 1 .. Len(queue)
      /\ DOMAIN queue' = 1 .. Len(queue) + 1 /\ queue'[Len(queue) + 1] = r
      /\ \A i \in 1 .. Len(queue) : queue'[i] = queue[i]
  BY AppendProperties, LenProperties
<1>2. QueuedRuns' = QueuedRuns \cup {r}
  <2>1. ASSUME NEW x \in QueuedRuns' PROVE x \in QueuedRuns \cup {r}
    <3>1. PICK i \in 1 .. Len(queue) + 1 : x = queue'[i]
      BY <1>1 DEF QueuedRuns
    <3>2. i \in 1 .. Len(queue) \/ i = Len(queue) + 1
      BY <1>1
    <3> QED BY <1>1, <3>1, <3>2 DEF QueuedRuns
  <2>2. ASSUME NEW x \in QueuedRuns PROVE x \in QueuedRuns'
    <3>1. PICK i \in 1 .. Len(queue) : x = queue[i]
      BY <1>1 DEF QueuedRuns
    <3>2. i \in 1 .. Len(queue) + 1 /\ queue'[i] = x
      BY <1>1, <3>1
    <3> QED BY <1>1, <3>2 DEF QueuedRuns
  <2>3. r \in QueuedRuns'
    <3>1. Len(queue) + 1 \in 1 .. Len(queue) + 1
      BY <1>1
    <3> QED BY <1>1, <3>1 DEF QueuedRuns
  <2> QED BY <2>1, <2>2, <2>3
<1>3. QueuedOnce'
  <2> SUFFICES ASSUME NEW i \in 1 .. Len(queue) + 1, NEW j \in 1 .. Len(queue) + 1, queue'[i] = queue'[j]
               PROVE  i = j
    BY <1>1 DEF QueuedOnce
  <2>1. \A k \in 1 .. Len(queue) : queue[k] \in QueuedRuns
    BY <1>1 DEF QueuedRuns
  <2>2. CASE i \in 1 .. Len(queue) /\ j \in 1 .. Len(queue)
    BY <1>1, <2>2 DEF QueuedOnce
  <2>3. CASE i = Len(queue) + 1 /\ j = Len(queue) + 1
    BY <2>3
  <2>4. CASE i = Len(queue) + 1 /\ j \in 1 .. Len(queue)
    BY <1>1, <2>1, <2>4
  <2>5. CASE i \in 1 .. Len(queue) /\ j = Len(queue) + 1
    BY <1>1, <2>1, <2>5
  <2> QED BY <1>1, <2>2, <2>3, <2>4, <2>5
<1> QED BY <1>2, <1>3

LEMMA QueueTaken ==
    ASSUME queue \in Seq(Run), queue # << >>, queue' = Tail(queue), QueuedOnce
    PROVE  /\ Head(queue) \in Run /\ Head(queue) \in QueuedRuns
           /\ QueuedRuns' = QueuedRuns \ {Head(queue)} /\ QueuedOnce'
<1>1. /\ Len(queue) \in Nat \ {0} /\ DOMAIN queue = 1 .. Len(queue)
      /\ Head(queue) = queue[1] /\ Head(queue) \in Run
      /\ DOMAIN queue' = 1 .. Len(queue) - 1
      /\ \A i \in 1 .. Len(queue) - 1 : queue'[i] = queue[i + 1]
  <2>1. /\ Tail(queue) \in Seq(Run) /\ Len(Tail(queue)) = Len(queue) - 1 /\ Head(queue) \in Run
        /\ \A i \in 1 .. Len(Tail(queue)) : Tail(queue)[i] = queue[i + 1]
    BY HeadTailProperties
  <2>2. Len(queue) \in Nat \ {0} /\ DOMAIN queue = 1 .. Len(queue)
    BY EmptySeq, LenProperties
  <2>3. DOMAIN Tail(queue) = 1 .. Len(Tail(queue))
    BY <2>1, LenProperties
  <2> QED BY <2>1, <2>2, <2>3, HeadTailProperties
<1>2. Head(queue) \in QueuedRuns
  BY <1>1 DEF QueuedRuns
<1>3. QueuedRuns' = QueuedRuns \ {Head(queue)}
  <2>1. ASSUME NEW x \in QueuedRuns' PROVE x \in QueuedRuns \ {Head(queue)}
    <3>1. PICK i \in 1 .. Len(queue) - 1 : x = queue'[i]
      BY <1>1 DEF QueuedRuns
    <3>2. i + 1 \in 1 .. Len(queue) /\ i + 1 # 1 /\ 1 \in 1 .. Len(queue) /\ x = queue[i + 1]
      BY <1>1, <3>1
    <3> QED BY <1>1, <3>2 DEF QueuedRuns, QueuedOnce
  <2>2. ASSUME NEW x \in QueuedRuns, x # Head(queue) PROVE x \in QueuedRuns'
    <3>1. PICK i \in 1 .. Len(queue) : x = queue[i]
      BY <1>1 DEF QueuedRuns
    <3>2. i - 1 \in 1 .. Len(queue) - 1 /\ queue'[i - 1] = queue[(i - 1) + 1] /\ (i - 1) + 1 = i
      BY <1>1, <2>2, <3>1
    <3>3. queue'[i - 1] = x
      BY <3>1, <3>2
    <3> QED BY <1>1, <3>2, <3>3 DEF QueuedRuns
  <2> QED BY <2>1, <2>2
<1>4. QueuedOnce'
  <2> SUFFICES ASSUME NEW i \in 1 .. Len(queue) - 1, NEW j \in 1 .. Len(queue) - 1, queue'[i] = queue'[j]
               PROVE  i = j
    BY <1>1 DEF QueuedOnce
  <2>1. i + 1 \in 1 .. Len(queue) /\ j + 1 \in 1 .. Len(queue) /\ queue[i + 1] = queue[j + 1]
    BY <1>1
  <2>2. i + 1 = j + 1
    BY <1>1, <2>1 DEF QueuedOnce
  <2> QED BY <1>1, <2>2
<1> QED BY <1>1, <1>2, <1>3, <1>4

LEMMA PoolRuns ==
    ASSUME TypeAndRuns
    PROVE  /\ QueuedRuns \subseteq Run /\ BusyRuns \subseteq Run /\ Holders \subseteq Run
           /\ \A r \in QueuedRuns \cup BusyRuns \cup door.todo : r <= issued
<1>1. queue \in Seq(Run) /\ DOMAIN queue = 1 .. Len(queue) /\ \A i \in DOMAIN queue : queue[i] \in Run
  BY ElementOfSeq, LenProperties DEF TypeAndRuns, TypeInv, PoolOK
<1>2. QueuedRuns \subseteq Run
  BY <1>1 DEF QueuedRuns
<1>3. \A w \in Worker : workers[w].run \in Run \cup {NoRun} /\ (w \in Executing => workers[w].run \in Run)
  BY DEF TypeAndRuns, TypeInv, PoolOK, Working, Executing
<1>4. door.todo \subseteq Run
  BY DEF TypeAndRuns, TypeInv, DoorOK, Door
<1>5. Executing \subseteq Worker
  BY DEF Executing
<1>6. \A r \in QueuedRuns \cup BusyRuns \cup door.todo : r <= issued
  BY DEF TypeAndRuns, RunsIssued, QueueIssued, WorkersIssued, DoorIssued, QueuedRuns, BusyRuns
<1> QED BY <1>2, <1>3, <1>4, <1>5, <1>6 DEF BusyRuns, Holders, Scheduled

LEMMA FiniteRuns == \A S : S \subseteq Run => IsFiniteSet(S) /\ Cardinality(S) \in Nat
  BY RunFacts, FS_Subset, FS_CardinalityType

(* The step of a worker that goes on with its run.                         *)
GoesOn(w) ==
    /\ w \in Executing /\ workers'[w].run = workers[w].run /\ workers'[w].pc \notin {"idle", "done"}
    /\ \A v \in Worker \ {w} : workers'[v] = workers[v]

LEMMA GoingOn ==
    ASSUME TypeAndRuns, NEW w \in Worker,
           Start(w) \/ ReportStage(w) \/ ReportTool(w) \/ Finish(w) \/ PublishNews(w)
    PROVE  GoesOn(w) /\ UNCHANGED <<queue, futures, door, inflight, phase>>
<1>1. /\ workers \in [Worker -> Working]
      /\ workers[w] = [pc |-> workers[w].pc, run |-> workers[w].run, round |-> workers[w].round,
                       reports |-> workers[w].reports, news |-> workers[w].news]
  BY DEF TypeAndRuns, TypeInv, PoolOK, Working
<1>2. CASE Start(w)
  BY <1>1, <1>2 DEF Start, GoesOn, Executing, capacityVars, lifeVars
<1>3. CASE ReportStage(w) \/ ReportTool(w)
  <2>1. PICK kind, stage : Report(w, kind, stage)
    BY <1>3 DEF ReportStage, ReportTool
  <2> QED BY <1>1, <2>1 DEF Report, GoesOn, Executing, capacityVars, lifeVars
<1>4. CASE Finish(w)
  BY <1>1, <1>4 DEF Finish, GoesOn, Executing, capacityVars, lifeVars
<1>5. CASE PublishNews(w)
  BY <1>1, <1>5 DEF PublishNews, GoesOn, Executing, capacityVars, lifeVars
<1> QED BY <1>2, <1>3, <1>4, <1>5

LEMMA GoingOnKeepsWork ==
    ASSUME TypeAndRuns, WorkInv, NEW w \in Worker, GoesOn(w),
           UNCHANGED <<queue, futures, door, inflight, phase>>
    PROVE  WorkInv'
<1>1. \A v \in Worker : /\ workers'[v].run = workers[v].run
                        /\ workers'[v].pc \in {"idle", "done"} <=> workers[v].pc \in {"idle", "done"}
  BY DEF GoesOn, Executing
<1>2. QueuedRuns' = QueuedRuns /\ QueuedOnce' = QueuedOnce
  BY DEF QueuedRuns, QueuedOnce
<1>3. BusyRuns' = BusyRuns
  BY <1>1 DEF BusyRuns
<1>4. Executing' = Executing /\ Scheduled' = Scheduled
  BY <1>1 DEF Executing, Scheduled
<1>5. Holders' = Holders
  BY <1>1, <1>2, <1>4 DEF Holders, Executing
<1>6. HeldOnce'
  BY <1>1 DEF HeldOnce, WorkInv
<1> QED BY <1>2, <1>3, <1>5, <1>6 DEF WorkInv, DoorFits, Apart, FuturesFit, PlacesFit, CapacityMatchesWork


LEMMA PickKeepsWork == ASSUME TypeAndRuns, WorkInv, NEW w \in Worker, Pick(w) PROVE WorkInv'
<1> DEFINE r == Head(queue)
<1>1. /\ r \in Run /\ r \in QueuedRuns /\ QueuedRuns' = QueuedRuns \ {r} /\ QueuedOnce'
  BY QueueTaken DEF TypeAndRuns, TypeInv, PoolOK, Pick, WorkInv
<1>2. /\ workers[w].run = NoRun /\ workers'[w].run = r /\ workers'[w].pc = "start"
      /\ \A v \in Worker \ {w} : workers'[v] = workers[v]
  BY DEF Pick, Idle, TypeAndRuns, TypeInv, PoolOK, Working
<1>3. r # NoRun /\ r \notin BusyRuns /\ r \notin door.todo
  BY <1>1, RunFacts DEF WorkInv, Apart
<1> HIDE DEF r
<1>4. BusyRuns' = BusyRuns \cup {r}
  BY <1>2, <1>3 DEF BusyRuns
<1>5. HeldOnce'
  <2>1. \A v \in Worker \ {w} : workers'[v].run # r
    BY <1>2, <1>3 DEF BusyRuns
  <2> QED BY <1>2, <2>1 DEF HeldOnce, WorkInv
<1>6. UNCHANGED <<futures, door, inflight, phase>>
  BY DEF Pick, capacityVars, lifeVars
<1>7. DoorFits' /\ Apart' /\ FuturesFit'
  BY <1>1, <1>3, <1>4, <1>6 DEF WorkInv, DoorFits, Apart, FuturesFit
<1>8. Holders' = Holders
  <2>1. Executing' = Executing \cup {w} /\ w \notin Executing
    BY <1>2 DEF Executing, Pick
  <2>2. {workers'[v].run : v \in Executing'} = {workers[v].run : v \in Executing} \cup {r}
    BY <1>2, <2>1 DEF Executing
  <2>3. Scheduled' = Scheduled
    BY <1>6 DEF Scheduled
  <2> QED BY <1>1, <2>2, <2>3 DEF Holders
<1>9. PlacesFit'
  BY <1>6, <1>8 DEF WorkInv, PlacesFit, CapacityMatchesWork
<1> QED BY <1>1, <1>5, <1>7, <1>9 DEF WorkInv

(* The place of exactly one run is given back.                             *)
LEMMA ReleaseKeepsWork == ASSUME TypeAndRuns, WorkInv, Still, NEW w \in Worker, Release(w) PROVE WorkInv'
<1> DEFINE r == workers[w].run
<1>1. /\ workers'[w].run = r /\ workers'[w].pc = "done" /\ r \in Run /\ w \in Executing
      /\ \A v \in Worker \ {w} : workers'[v] = workers[v]
  BY RunFacts DEF Release, TypeAndRuns, TypeInv, PoolOK, Working, Executing
<1>2. UNCHANGED <<futures, door, queue, phase>> /\ inflight' = inflight - 1 /\ phase # "down"
  BY DEF Release, lifeVars, Still
<1> HIDE DEF r
<1>3. QueuedRuns' = QueuedRuns /\ QueuedOnce' = QueuedOnce /\ BusyRuns' = BusyRuns /\ HeldOnce'
  <2>1. \A v \in Worker : workers'[v].run = workers[v].run
    BY <1>1 DEF r
  <2> QED BY <1>2, <2>1 DEF QueuedRuns, QueuedOnce, BusyRuns, HeldOnce, WorkInv
<1>4. DoorFits' /\ Apart' /\ FuturesFit'
  BY <1>2, <1>3 DEF WorkInv, DoorFits, Apart, FuturesFit
<1>5. Holders' = Holders \ {r} /\ r \in Holders
  <2>1. Executing' = Executing \ {w}
    BY <1>1 DEF Executing
  <2>2. \A v \in Executing \ {w} : workers[v].run # r
    BY <1>1, RunFacts DEF Executing, WorkInv, HeldOnce, r
  <2>3. r \notin QueuedRuns /\ r \notin Scheduled
    <3>1. r \in BusyRuns
      BY <1>1, RunFacts DEF BusyRuns, r
    <3> QED BY <3>1 DEF WorkInv, Apart, Scheduled
  <2>4. {workers'[v].run : v \in Executing'} = {workers[v].run : v \in Executing} \ {r}
    BY <1>1, <2>1, <2>2 DEF Executing, r
  <2>5. Scheduled' = Scheduled
    BY <1>2 DEF Scheduled
  <2>6. r \in {workers[v].run : v \in Executing}
    BY <1>1 DEF r
  <2> QED BY <1>3, <2>3, <2>4, <2>5, <2>6 DEF Holders
<1>6. Cardinality(Holders') = Cardinality(Holders) - 1
  BY <1>5, PoolRuns, FiniteRuns, FS_RemoveElement
<1>7. PlacesFit'
  BY <1>2, <1>6, PoolRuns, FiniteRuns DEF WorkInv, PlacesFit, CapacityMatchesWork
<1> QED BY <1>3, <1>4, <1>7 DEF WorkInv

LEMMA ForgetKeepsWork == ASSUME TypeAndRuns, WorkInv, NEW w \in Worker, Forget(w) PROVE WorkInv'
<1> DEFINE r == workers[w].run
<1>1. /\ workers'[w].run = NoRun /\ workers'[w].pc = "idle" /\ r \in Run /\ workers[w].pc = "done"
      /\ \A v \in Worker \ {w} : workers'[v] = workers[v]
  BY RunFacts DEF Forget, Idle, TypeAndRuns, TypeInv, PoolOK, Working
<1>2. UNCHANGED <<door, queue, inflight, phase>> /\ futures' = futures \ {r}
  BY DEF Forget, lifeVars, capacityVars
<1>3. QueuedRuns' = QueuedRuns /\ QueuedOnce' = QueuedOnce
  BY <1>2 DEF QueuedRuns, QueuedOnce
<1>4. BusyRuns' = BusyRuns \ {r} /\ r \in BusyRuns
  <2>1. \A v \in Worker \ {w} : workers[v].run # r
    BY <1>1, RunFacts DEF WorkInv, HeldOnce
  <2> QED BY <1>1, <2>1, RunFacts DEF BusyRuns
<1>5. HeldOnce'
  BY <1>1 DEF HeldOnce, WorkInv
<1> HIDE DEF r
<1>6. DoorFits' /\ Apart' /\ FuturesFit'
  BY <1>2, <1>3, <1>4 DEF WorkInv, DoorFits, Apart, FuturesFit
<1>7. Holders' = Holders
  <2>1. Executing' = Executing /\ Scheduled' = Scheduled /\ w \notin Executing
    BY <1>1, <1>2 DEF Executing, Scheduled
  <2>2. {workers'[v].run : v \in Executing'} = {workers[v].run : v \in Executing}
    BY <1>1, <2>1 DEF Executing
  <2> QED BY <1>3, <2>1, <2>2 DEF Holders
<1>8. PlacesFit'
  BY <1>2, <1>7 DEF WorkInv, PlacesFit, CapacityMatchesWork
<1> QED BY <1>3, <1>5, <1>6, <1>8 DEF WorkInv

LEMMA WorkKeepsWork == ASSUME TypeAndRuns, WorkInv, Still, NEW w \in Worker, Work(w) PROVE WorkInv'
<1>1. CASE Start(w) \/ ReportStage(w) \/ ReportTool(w) \/ Finish(w) \/ PublishNews(w)
  <2>1. GoesOn(w) /\ UNCHANGED <<queue, futures, door, inflight, phase>>
    BY <1>1, GoingOn
  <2> QED BY <2>1, GoingOnKeepsWork
<1>2. CASE Pick(w) \/ Release(w) \/ Forget(w)
  BY <1>2, PickKeepsWork, ReleaseKeepsWork, ForgetKeepsWork
<1> QED BY <1>1, <1>2 DEF Work

-----------------------------------------------------------------------------
(* The event loop.                                                         *)

(* A step of the event loop that leaves the pool and its places alone.     *)
LEMMA LoopRests ==
    ASSUME WorkInv, UNCHANGED <<poolVars, inflight, phase>>, DoorFits',
           door'.todo \cap (QueuedRuns \cup BusyRuns) = {},
           door.pc # "register", door'.pc # "register", Scheduled' = Scheduled
    PROVE  WorkInv'
<1>1. QueuedRuns' = QueuedRuns /\ BusyRuns' = BusyRuns /\ Executing' = Executing /\ Holders' = Holders
      /\ QueuedOnce' = QueuedOnce /\ HeldOnce' = HeldOnce
  BY DEF QueuedRuns, BusyRuns, Executing, Holders, QueuedOnce, HeldOnce, poolVars
<1>2. Apart' /\ FuturesFit' /\ PlacesFit'
  BY <1>1 DEF WorkInv, Apart, FuturesFit, PlacesFit, CapacityMatchesWork, poolVars
<1> QED BY <1>1, <1>2 DEF WorkInv

(* Runs that have just been issued are nowhere yet.                        *)
LEMMA NewRunsApart ==
    ASSUME TypeAndRuns, NEW S \in SUBSET Run, \A r \in S : r > issued
    PROVE  S \cap (QueuedRuns \cup BusyRuns) = {}
<1>1. issued \in Nat /\ \A r \in Run : r \in Nat
  BY RunFacts, SizesAssumption DEF TypeAndRuns, TypeInv, ContextOK
<1> QED BY <1>1, PoolRuns

LEMMA AcceptAddKeepsWork == ASSUME TypeAndRuns, WorkInv, AcceptAdd PROVE WorkInv'
<1> DEFINE new == issued + 1 .. issued + Len(door.batch)
<1>1. /\ door.pc = "add" /\ door' = [Closed EXCEPT !.pc = "take", !.todo = new]
      /\ UNCHANGED <<poolVars, inflight, phase>>
  BY DEF AcceptAdd, capacityVars, lifeVars
<1>2. door'.pc = "take" /\ door'.todo = new /\ door'.fails = {}
  BY <1>1 DEF Closed
<1>3. new \subseteq Run /\ \A r \in new : r > issued
  <2>1. TypeInv'
    BY AcceptAddType DEF TypeAndRuns
  <2>2. new \subseteq Run
    BY <1>2, <2>1 DEF TypeInv, DoorOK, Door
  <2>3. issued \in Nat
    BY SizesAssumption DEF TypeAndRuns, TypeInv, ContextOK
  <2> QED BY <2>2, <2>3
<1> HIDE DEF new
<1>4. new \cap (QueuedRuns \cup BusyRuns) = {}
  BY <1>3, NewRunsApart
<1> QED BY <1>1, <1>2, <1>4, LoopRests DEF DoorFits, Scheduled

LEMMA ResumeReplaceKeepsWork == ASSUME TypeAndRuns, WorkInv, ResumeReplace PROVE WorkInv'
<1>1. door.pc = "resume" /\ UNCHANGED <<poolVars, inflight, phase>>
  BY DEF ResumeReplace, capacityVars, lifeVars
<1>2. CASE door' = Closed
  BY <1>1, <1>2, LoopRests DEF DoorFits, Scheduled, Closed
<1>3. CASE door' = [Closed EXCEPT !.pc = "take", !.todo = {issued + 1}]
  <2>1. door'.pc = "take" /\ door'.todo = {issued + 1} /\ door'.fails = {}
    BY <1>3 DEF Closed
  <2>2. TypeInv'
    BY ResumeReplaceType DEF TypeAndRuns
  <2>3. {issued + 1} \subseteq Run
    BY <2>1, <2>2 DEF TypeInv, DoorOK, Door
  <2>4. issued + 1 > issued
    BY SizesAssumption DEF TypeAndRuns, TypeInv, ContextOK
  <2>5. {issued + 1} \cap (QueuedRuns \cup BusyRuns) = {}
    BY <2>3, <2>4, NewRunsApart
  <2> QED BY <1>1, <2>1, <2>5, LoopRests DEF DoorFits, Scheduled
<1> QED BY <1>2, <1>3 DEF ResumeReplace

LEMMA TakeKeepsWork == ASSUME TypeAndRuns, WorkInv, Still, Take PROVE WorkInv'
<1>1. /\ door.pc = "take" /\ door'.pc = "schedule" /\ door'.todo = door.todo /\ door'.fails = door.fails
      /\ inflight' = inflight + Cardinality(door.todo) /\ UNCHANGED <<poolVars, phase>> /\ phase # "down"
  BY DEF Take, PlacesWith, lifeVars, TypeAndRuns, TypeInv, DoorOK, Door, Still
<1>2. QueuedRuns' = QueuedRuns /\ BusyRuns' = BusyRuns /\ Executing' = Executing
      /\ QueuedOnce' = QueuedOnce /\ HeldOnce' = HeldOnce
  BY <1>1 DEF QueuedRuns, BusyRuns, Executing, QueuedOnce, HeldOnce, poolVars
<1>3. DoorFits' /\ Apart' /\ FuturesFit'
  BY <1>1, <1>2 DEF WorkInv, DoorFits, Apart, FuturesFit, poolVars
<1>4. Holders' = Holders \cup door.todo /\ Holders \cap door.todo = {}
  <2>1. Scheduled = {} /\ Scheduled' = door.todo
    BY <1>1 DEF Scheduled
  <2>2. {workers'[v].run : v \in Executing'} = {workers[v].run : v \in Executing}
    BY <1>1, <1>2 DEF Executing, poolVars
  <2>3. {workers[v].run : v \in Executing} \subseteq BusyRuns
    BY DEF Executing, BusyRuns, TypeAndRuns, TypeInv, PoolOK, Working
  <2> QED BY <1>2, <2>1, <2>2, <2>3 DEF Holders, WorkInv, Apart
<1>5. door.todo \subseteq Run
  BY DEF TypeAndRuns, TypeInv, DoorOK, Door
<1>6. Cardinality(Holders') = Cardinality(Holders) + Cardinality(door.todo)
  <2>1. /\ IsFiniteSet(Holders) /\ IsFiniteSet(door.todo)
        /\ Cardinality(Holders) \in Nat /\ Cardinality(door.todo) \in Nat
    BY <1>5, PoolRuns, FiniteRuns
  <2>2. Cardinality(Holders \cup door.todo)
          = Cardinality(Holders) + Cardinality(door.todo) - Cardinality(Holders \cap door.todo)
    BY <2>1, FS_Union
  <2>3. Cardinality(Holders \cap door.todo) = 0
    BY <1>4, FS_EmptySet
  <2>4. Cardinality(Holders \cup door.todo) = Cardinality(Holders) + Cardinality(door.todo)
    BY <2>1, <2>2, <2>3
  <2> QED BY <1>4, <2>4
<1>7. PlacesFit'
  BY <1>1, <1>6 DEF WorkInv, PlacesFit, CapacityMatchesWork
<1> QED BY <1>2, <1>3, <1>7 DEF WorkInv

LEMMA ScheduleKeepsWork == ASSUME TypeAndRuns, WorkInv, NEW r \in Run, Schedule(r) PROVE WorkInv'
<1>1. /\ door.pc = "schedule" /\ r \in door.todo /\ queue' = Append(queue, r)
      /\ door'.pc = "register" /\ door'.run = r /\ door'.todo = door.todo \ {r} /\ door'.fails = door.fails
      /\ UNCHANGED <<inflight, futures, workers, phase>>
  BY DEF Schedule, lifeVars, capacityVars, TypeAndRuns, TypeInv, DoorOK, Door
<1>2. r \notin QueuedRuns /\ r \notin BusyRuns
  BY <1>1 DEF WorkInv, Apart
<1>3. QueuedRuns' = QueuedRuns \cup {r} /\ QueuedOnce'
  BY <1>1, <1>2, QueueAppended DEF TypeAndRuns, TypeInv, PoolOK, WorkInv
<1>4. BusyRuns' = BusyRuns /\ Executing' = Executing /\ HeldOnce' = HeldOnce
  BY <1>1 DEF BusyRuns, Executing, HeldOnce
<1>5. DoorFits' /\ Apart' /\ FuturesFit'
  BY <1>1, <1>2, <1>3, <1>4 DEF WorkInv, DoorFits, Apart, FuturesFit
<1>6. Holders' = Holders
  <2>1. Scheduled = door.todo /\ Scheduled' = door.todo \ {r}
    BY <1>1 DEF Scheduled
  <2>2. {workers'[v].run : v \in Executing'} = {workers[v].run : v \in Executing}
    BY <1>1, <1>4 DEF Executing
  <2> QED BY <1>1, <1>3, <2>1, <2>2 DEF Holders
<1>7. PlacesFit'
  BY <1>1, <1>6 DEF WorkInv, PlacesFit, CapacityMatchesWork
<1> QED BY <1>3, <1>4, <1>5, <1>7 DEF WorkInv

LEMMA RegisterKeepsWork == ASSUME TypeAndRuns, WorkInv, Register PROVE WorkInv'
<1>1. /\ door.pc = "register" /\ futures' = Listed(door.run)
      /\ door'.pc = (IF door.todo = {} /\ door.fails = {} THEN "idle" ELSE "schedule")
      /\ door'.todo = door.todo /\ door'.fails = door.fails
      /\ UNCHANGED <<inflight, queue, workers, phase>>
  BY DEF Register, lifeVars, capacityVars, TypeAndRuns, TypeInv, DoorOK, Door
<1>2. QueuedRuns' = QueuedRuns /\ BusyRuns' = BusyRuns /\ Executing' = Executing
      /\ QueuedOnce' = QueuedOnce /\ HeldOnce' = HeldOnce
  BY <1>1 DEF QueuedRuns, BusyRuns, Executing, QueuedOnce, HeldOnce
<1>3. futures' = QueuedRuns \cup BusyRuns
  BY <1>1 DEF Listed, WorkInv, FuturesFit
<1>4. DoorFits' /\ Apart' /\ FuturesFit'
  BY <1>1, <1>2, <1>3 DEF WorkInv, DoorFits, Apart, FuturesFit
<1>5. Holders' = Holders
  <2>1. Scheduled' = Scheduled
    BY <1>1 DEF Scheduled
  <2>2. {workers'[v].run : v \in Executing'} = {workers[v].run : v \in Executing}
    BY <1>1, <1>2 DEF Executing
  <2> QED BY <1>2, <2>1, <2>2 DEF Holders
<1>6. PlacesFit'
  BY <1>1, <1>5 DEF WorkInv, PlacesFit, CapacityMatchesWork
<1> QED BY <1>2, <1>4, <1>6 DEF WorkInv

LEMMA LoopKeepsWork == ASSUME TypeAndRuns, WorkInv, Still, Loop PROVE WorkInv'
<1>1. CASE Submit \/ SubmitDev
  <2>1. PICK batch : AcceptCheck(batch)
    BY <1>1 DEF Submit, SubmitDev
  <2>2. /\ door.pc = "idle" /\ door'.pc = "add" /\ door'.todo = {} /\ door'.fails = {}
        /\ UNCHANGED <<poolVars, inflight, phase>>
    BY <2>1 DEF AcceptCheck, Closed, capacityVars, lifeVars
  <2> QED BY <2>2, LoopRests DEF DoorFits, Scheduled
<1>2. CASE Resume
  <2>1. PICK p \in Product, r \in Run, round \in 1 .. MaxQuestionRounds : ResumeCheck(p, r, round)
    BY <1>2 DEF Resume
  <2>2. /\ door.pc = "idle" /\ door'.pc = "resume" /\ door'.todo = {} /\ door'.fails = {}
        /\ UNCHANGED <<poolVars, inflight, phase>>
    BY <2>1 DEF ResumeCheck, Closed, capacityVars, lifeVars
  <2> QED BY <2>2, LoopRests DEF DoorFits, Scheduled
<1>3. CASE AcceptAdd \/ ResumeReplace \/ Take \/ Register \/ \E r \in Run : Schedule(r)
  BY <1>3, AcceptAddKeepsWork, ResumeReplaceKeepsWork, TakeKeepsWork, RegisterKeepsWork, ScheduleKeepsWork
<1> QED BY <1>1, <1>2, <1>3 DEF Loop

(* A server that starts counts the runs it is going to queue.              *)
LEMMA BootKeepsWork ==
    ASSUME TypeAndRuns, WorkInv, Still, NEW rows \in [Product -> Session], Boot(rows)
    PROVE  WorkInv'
<1> DEFINE runnable    == {rows[p].run : p \in {q \in Product : Runnable(rows[q])}}
           interrupted == {rows[p].run : p \in {q \in Product : Interrupted(rows[q])}}
<1>1. /\ phase = "down" /\ phase' = "starting" /\ inflight' = inflight + Cardinality(runnable)
      /\ UNCHANGED poolVars
  BY DEF Boot, PlacesWith
<1>2. \/ runnable \cup interrupted = {} /\ door' = Closed
      \/ door' = OpenedTo("schedule", NoRun, 0, runnable, interrupted)
  BY DEF Boot, Closed, OpenedTo
<1>3. runnable \subseteq Run
  BY DEF Runnable, Session
<1> HIDE DEF runnable, interrupted
<1>4. queue = << >> /\ queue' = << >> /\ workers' = workers /\ futures' = futures /\ door.pc = "idle"
      /\ (\A w \in Worker : workers[w].pc = "idle")
  BY <1>1 DEF Still, poolVars
<1>5. \A w \in Worker : workers[w].run = NoRun
  BY <1>4 DEF TypeAndRuns, TypeInv, PoolOK, Working
<1>6. /\ QueuedRuns = {} /\ QueuedRuns' = {} /\ BusyRuns = {} /\ BusyRuns' = {} /\ futures' = {}
      /\ Executing = {} /\ Executing' = {} /\ QueuedOnce' /\ HeldOnce'
  BY <1>4, <1>5 DEF QueuedRuns, BusyRuns, Executing, QueuedOnce, HeldOnce, WorkInv, FuturesFit
<1>7. door'.pc \in {"idle", "schedule"} /\ DoorFits' /\ Scheduled' = runnable
  BY <1>2 DEF DoorFits, Scheduled, Closed, OpenedTo
<1>8. Apart' /\ FuturesFit'
  BY <1>6, <1>7 DEF Apart, FuturesFit
<1>9. PlacesFit'
  <2>1. Holders' = runnable
    BY <1>6, <1>7 DEF Holders
  <2>2. inflight = 0 /\ Cardinality(runnable) \in Nat
    BY <1>1, <1>3, FiniteRuns DEF WorkInv, PlacesFit
  <2> QED BY <1>1, <2>1, <2>2 DEF PlacesFit, CapacityMatchesWork
<1> QED BY <1>6, <1>7, <1>8, <1>9 DEF WorkInv

LEMMA StartUpKeepsWork == ASSUME TypeAndRuns, WorkInv, Still, StartUp PROVE WorkInv'
<1>1. CASE Restore
  <2>1. archive \in [Product -> Session] /\ [p \in Product |-> Absent] \in [Product -> Session]
    BY AbsentIsSession DEF TypeAndRuns, TypeInv, StoreOK
  <2> QED BY <1>1, <2>1, BootKeepsWork DEF Restore
<1>2. CASE RestoreAnnounce
  <2>1. /\ door.pc = "announce" /\ door'.pc = (IF door.fails = {} THEN "idle" ELSE "schedule")
        /\ door'.todo = door.todo /\ door'.fails = door.fails /\ door.todo = {}
        /\ UNCHANGED <<poolVars, inflight, phase>>
    BY <1>2 DEF RestoreAnnounce, capacityVars, lifeVars, TypeAndRuns, TypeInv, DoorOK, Door, WorkInv, DoorFits
  <2> QED BY <2>1, LoopRests DEF DoorFits, Scheduled
<1>3. ASSUME NEW r \in Run, RestoreFail(r) PROVE WorkInv'
  <2>1. /\ door.pc = "schedule" /\ door.todo = {} /\ r \in door.fails
        /\ door'.todo = {} /\ door'.fails = door.fails \ {r}
        /\ \/ door'.pc = "announce"
           \/ door'.pc = (IF door.fails = {r} THEN "idle" ELSE "schedule")
        /\ UNCHANGED <<poolVars, inflight, phase>>
    BY <1>3 DEF RestoreFail, capacityVars, lifeVars, TypeAndRuns, TypeInv, DoorOK, Door
  <2> QED BY <2>1, LoopRests DEF DoorFits, Scheduled
<1>4. CASE Serve
  <2>1. QueuedRuns' = QueuedRuns /\ BusyRuns' = BusyRuns /\ Executing' = Executing /\ Scheduled' = Scheduled
        /\ QueuedOnce' = QueuedOnce /\ HeldOnce' = HeldOnce /\ UNCHANGED <<door, futures, inflight>>
    BY <1>4 DEF Serve, QueuedRuns, BusyRuns, Executing, Scheduled, QueuedOnce, HeldOnce, poolVars, capacityVars
  <2>2. Holders' = Holders
    BY <1>4, <2>1 DEF Holders, Serve, poolVars
  <2> QED BY <1>4, <2>1, <2>2 DEF Serve, WorkInv, DoorFits, Apart, FuturesFit, PlacesFit, CapacityMatchesWork
<1> QED BY <1>1, <1>2, <1>3, <1>4 DEF StartUp

LEMMA WorkUntouched ==
    ASSUME WorkInv, UNCHANGED <<poolVars, inflight, phase, door>>
    PROVE  WorkInv'
<1>1. QueuedRuns' = QueuedRuns /\ BusyRuns' = BusyRuns /\ Executing' = Executing /\ Scheduled' = Scheduled
      /\ QueuedOnce' = QueuedOnce /\ HeldOnce' = HeldOnce
  BY DEF QueuedRuns, BusyRuns, Executing, Scheduled, QueuedOnce, HeldOnce, poolVars
<1>2. Holders' = Holders
  BY <1>1 DEF Holders, poolVars
<1> QED BY <1>1, <1>2 DEF WorkInv, DoorFits, Apart, FuturesFit, PlacesFit, CapacityMatchesWork, poolVars

LEMMA LifeKeepsWork ==
    ASSUME TypeAndRuns, WorkInv,
           Purge \/ RetryArchive \/ Drain \/ Crash \/ Exit \/ \E r \in Run : BecomeOverdue(r)
    PROVE  WorkInv'
<1>1. CASE Purge \/ RetryArchive \/ \E r \in Run : BecomeOverdue(r)
  BY <1>1, WorkUntouched DEF Purge, RetryArchive, BecomeOverdue, capacityVars, lifeVars
<1>2. CASE Drain
  <2>1. /\ queue' = << >> /\ futures' = futures \ QueuedRuns /\ phase' = "draining" /\ door.pc = "idle"
        /\ UNCHANGED <<workers, door>>
    BY <1>2 DEF Drain
  <2>2. QueuedRuns' = {} /\ QueuedOnce' /\ BusyRuns' = BusyRuns /\ HeldOnce' = HeldOnce
    BY <2>1 DEF QueuedRuns, QueuedOnce, BusyRuns, HeldOnce
  <2> QED BY <2>1, <2>2 DEF WorkInv, DoorFits, Apart, FuturesFit, PlacesFit, CapacityMatchesWork
<1>3. CASE Crash \/ Exit
  <2>1. Stop
    BY <1>3 DEF Crash, Exit
  <2>2. QueuedRuns' = {} /\ QueuedOnce'
    BY <2>1 DEF Stop, QueuedRuns, QueuedOnce
  <2>3. \A w \in Worker : workers'[w].run = NoRun
    BY <2>1 DEF Stop, Idle
  <2>4. BusyRuns' = {} /\ HeldOnce'
    BY <2>3 DEF BusyRuns, HeldOnce
  <2>5. door' = Closed /\ inflight' = 0 /\ futures' = {} /\ phase' = "down"
    BY <2>1 DEF Stop
  <2> QED BY <2>2, <2>4, <2>5 DEF WorkInv, DoorFits, Apart, FuturesFit, PlacesFit, CapacityMatchesWork, Closed
<1> QED BY <1>1, <1>2, <1>3

LEMMA WorkInductive == ASSUME TypeAndRuns, Still, WorkInv, [Next]_vars PROVE WorkInv'
<1>1. CASE UNCHANGED vars
  BY <1>1, WorkUntouched DEF vars, capacityVars, lifeVars
<1>2. ASSUME NEW e \in Expirers, Sweep(e) PROVE WorkInv'
  BY <1>2, WorkUntouched DEF Sweep, Scan, Expire, PublishTimeout, capacityVars, lifeVars
<1>3. CASE Next
  BY <1>2, <1>3, LoopKeepsWork, StartUpKeepsWork, WorkKeepsWork, LifeKeepsWork DEF Next
<1> QED BY <1>1, <1>3

Ground == TypeAndRuns /\ Still /\ WorkInv

LEMMA GroundHolds == Spec => []Ground
<1>1. Init => Still /\ WorkInv
  <2> SUFFICES ASSUME Init PROVE Still /\ WorkInv
    OBVIOUS
  <2>1. QueuedRuns = {} /\ QueuedOnce /\ phase = "up"
    BY DEF Init, QueuedRuns, QueuedOnce
  <2>2. \A w \in Worker : workers[w].run = NoRun /\ workers[w].pc = "idle"
    BY DEF Init, Idle
  <2>3. BusyRuns = {} /\ HeldOnce /\ Executing = {}
    BY <2>2 DEF BusyRuns, HeldOnce, Executing
  <2>4. door.pc = "idle" /\ door.todo = {} /\ door.fails = {} /\ inflight = 0 /\ futures = {}
    BY DEF Init, Closed
  <2>5. Holders = {}
    BY <2>1, <2>3, <2>4 DEF Holders, Scheduled
  <2> QED BY <2>1, <2>3, <2>4, <2>5, FS_EmptySet
          DEF Still, WorkInv, DoorFits, Apart, FuturesFit, PlacesFit, CapacityMatchesWork
<1>2. TypeAndRuns /\ Still /\ WorkInv /\ [Next]_vars => Still' /\ WorkInv'
  BY StillInductive, WorkInductive
<1> QED BY <1>1, <1>2, TypeAndRunsInvariant, PTL DEF Spec, Ground

(* The counter of the capacity is exactly the number of runs that still    *)
(* have to be executed or are being executed, however threads, time-outs   *)
(* and restarts interleave: no place leaks and none is given back twice.   *)
THEOREM PlacesAreRuns == Spec => []CapacityMatchesWork
<1>1. Ground => CapacityMatchesWork
  BY DEF Ground, WorkInv, PlacesFit
<1> QED BY <1>1, GroundHolds, PTL

(* The listed futures are those of the runs not yet over, so that drain    *)
(* waits for all of them and for no others.                                *)
THEOREM FuturesAreKept == Spec => []FuturesAreTheRuns
<1>1. Ground => FuturesAreTheRuns
  BY DEF Ground, WorkInv, FuturesFit, FuturesAreTheRuns
<1> QED BY <1>1, GroundHolds, PTL

-----------------------------------------------------------------------------
(* Somebody works on every session in progress.                            *)

(* A run is one of the product whose session it is.                        *)
OwnersMatch ==
    \A p \in Product : /\ sessions[p].run # NoRun => owner[sessions[p].run] = p
                       /\ archive[p].run # NoRun => owner[archive[p].run] = p

Reports == {"StageChanged", "ToolProgressed"}

(* The worker is past the outcome of its run.                              *)
Past(w) == \/ workers[w].pc \in {"release", "done"}
           \/ workers[w].pc = "publish" /\ workers[w].news.kind \notin Reports

(* A run that was not started is not running, one that was started is not  *)
(* accepted any more, and one that a worker is done with is not running    *)
(* any more.                                                               *)
NotYet ==
    \A p \in Product :
      sessions[p].status = "RUNNING" => sessions[p].run \notin door.todo \cup QueuedRuns

WorkersFit ==
    \A w \in Worker, p \in Product :
      workers[w].run # NoRun /\ sessions[p].run = workers[w].run =>
        /\ workers[w].pc # "start" => sessions[p].status # "ACCEPTED"
        /\ Past(w) \/ workers[w].pc = "start" => sessions[p].status # "RUNNING"

(* The expirers work on runs that were issued.                             *)
ExpirersIssued == \A e \in Expirers : /\ \A r \in expirers[e].todo : r <= issued
                                      /\ expirers[e].run <= issued

Attended == OwnersMatch /\ ExpirersIssued /\ NotYet /\ WorkersFit /\ NoStrandedSession

(* Who waits for a run: the event loop, the queue, or a worker.            *)
Awaits(r) == \/ r \in door.todo \cup door.fails \cup QueuedRuns
             \/ \E w \in Worker : workers[w].run = r /\ workers[w].pc = "start"
Drives(r) == \/ r \in door.fails
             \/ \E w \in Worker : workers[w].run = r /\ workers[w].pc \in {"job", "publish"}

LEMMA StrandedByRun ==
    ASSUME NoStrandedSession, phase \in {"starting", "up"}, NEW p \in Product, NEW r, r = sessions[p].run
    PROVE  /\ sessions[p].status = "ACCEPTED" => Awaits(r)
           /\ sessions[p].status = "RUNNING" => Drives(r)
  BY DEF NoStrandedSession, Awaits, Drives

LEMMA SessionsHaveRuns ==
    ASSUME TypeAndRuns, NEW p \in Product, sessions[p].status \in Statuses
    PROVE  sessions[p].run \in Run /\ sessions[p].run # NoRun /\ sessions[p].run <= issued
<1>1. sessions[p] \in Session
  BY DEF TypeAndRuns, TypeInv, StoreOK
<1> QED BY <1>1, RunFacts DEF Session, Statuses, TypeAndRuns, RunsIssued, StoredIssued

LEMMA PersistOwners ==
    ASSUME TypeAndRuns, NEW changed, Persist(changed),
           \A p \in Product : /\ sessions'[p].run # NoRun => owner'[sessions'[p].run] = p
                              /\ archive[p].run # NoRun => owner'[archive[p].run] = p
    PROVE  OwnersMatch'
<1>1. \A p \in Product : Row(p, sessions'[p]).run # NoRun => owner'[Row(p, sessions'[p]).run] = p
  BY DEF Row, Absent
<1>2. \A p \in Product : archive'[p] = archive[p] \/ archive'[p] = Row(p, sessions'[p])
  BY DEF Persist
<1> QED BY <1>1, <1>2 DEF OwnersMatch

(* What applying a change other than an answer does to all sessions.       *)
LEMMA ApplyMoves ==
    ASSUME TypeAndRuns, OwnersMatch, UNCHANGED owner, NEW r \in Run, r <= issued,
           NEW change \in Changes \ {"Resume"}, NEW cause \in Causes, Apply(r, change, cause)
    PROVE  /\ OwnersMatch'
           /\ owner[r] \in Product /\ sessions[owner[r]].run = r
           /\ sessions[owner[r]].status \in Sources[change]
           /\ sessions'[owner[r]].run = r /\ sessions'[owner[r]].status = Target[change]
           /\ \A p \in Product : p # owner[r] => sessions'[p] = sessions[p] /\ sessions'[p].run # r
<1> DEFINE q == owner[r]
           s == sessions[q]
           t == SessionAfter(s, change, cause)
<1>1. sessions' = [sessions EXCEPT ![q] = t] /\ s.run = r /\ s.status \in Sources[change] /\ Persist({q})
  BY DEF Apply, Applicable, Set
<1>2. r # NoRun /\ q \in Product
  BY RunFacts, SizesAssumption DEF Run, TypeAndRuns, RunsIssued, OwnersKnown, Issued, TypeInv, ContextOK
<1>3. Moved(s, change) \in Session /\ Moved(s, change).run = r /\ Moved(s, change).status = Target[change]
  <2>1. s \in Session
    BY <1>2 DEF TypeAndRuns, TypeInv, StoreOK
  <2>2. Moved(s, change) \in Session /\ Moved(s, change).run = r
    BY <1>1, <2>1, MovedIsSession
  <2> QED BY <2>1, <2>2 DEF Moved, Session
<1>4. t.run = r /\ t.status = Target[change]
  BY <1>3 DEF SessionAfter, Session
<1>5. \A p \in Product : sessions'[p] = IF p = q THEN t ELSE sessions[p]
  BY <1>1 DEF TypeAndRuns, TypeInv, StoreOK
<1> HIDE DEF t
<1>6. \A p \in Product : p # q => sessions[p].run # r
  BY <1>2 DEF OwnersMatch
<1>7. OwnersMatch'
  <2>1. \A p \in Product : /\ sessions'[p].run # NoRun => owner'[sessions'[p].run] = p
                           /\ archive[p].run # NoRun => owner'[archive[p].run] = p
    BY <1>4, <1>5 DEF OwnersMatch
  <2> QED BY <1>1, <2>1, PersistOwners
<1> QED BY <1>1, <1>2, <1>4, <1>5, <1>6, <1>7


(* A step that leaves sessions and workers alone and loses no run.         *)
LEMMA AttendedRests ==
    ASSUME TypeAndRuns, Attended, UNCHANGED <<sessions, archive, contextVars, workers>>, ExpirersIssued',
           door'.todo \cup QueuedRuns' \subseteq door.todo \cup QueuedRuns,
           phase' \in {"starting", "up"} =>
             /\ phase \in {"starting", "up"}
             /\ door.todo \cup door.fails \cup QueuedRuns
                  \subseteq door'.todo \cup door'.fails \cup QueuedRuns'
             /\ door.fails \subseteq door'.fails
    PROVE  Attended'
<1>1. OwnersMatch' /\ WorkersFit' /\ NotYet'
  BY DEF Attended, OwnersMatch, WorkersFit, NotYet, Past, contextVars
<1>2. NoStrandedSession'
  <2> SUFFICES ASSUME phase' \in {"starting", "up"}, NEW p \in Product, NEW r, r = sessions[p].run
               PROVE  /\ sessions'[p].status = "ACCEPTED" => Awaits(r)'
                      /\ sessions'[p].status = "RUNNING" => Drives(r)'
    BY DEF NoStrandedSession, Awaits, Drives
  <2>1. /\ sessions[p].status = "ACCEPTED" => Awaits(r)
        /\ sessions[p].status = "RUNNING" => Drives(r)
    BY StrandedByRun DEF Attended
  <2> QED BY <2>1 DEF Awaits, Drives
<1> QED BY <1>1, <1>2 DEF Attended

OpenedWith(pc, batch, run, round, todo, fails) ==
    [pc |-> pc, batch |-> batch, run |-> run, round |-> round, todo |-> todo, fails |-> fails]

LEMMA ExpirersRest == ExpirersIssued /\ UNCHANGED <<expirers, contextVars>> => ExpirersIssued'
  BY DEF ExpirersIssued, contextVars

(* New sessions are those of runs just issued, which are about to be       *)
(* scheduled; the other sessions stay.                                     *)
LEMMA NewSessionsAttended ==
    ASSUME TypeAndRuns, Attended, DoorFits, UNCHANGED <<workers, queue, expirers, phase>>,
           door.pc \in {"add", "resume"}, issued <= issued', issued' \in Nat,
           \A r \in door'.todo : r > issued,
           \A r \in Run : r <= issued => owner'[r] = owner[r],
           \A p \in Product : \/ sessions'[p] = sessions[p]
                              \/ /\ sessions'[p].status = "ACCEPTED" /\ sessions'[p].run \in door'.todo
                                 /\ sessions'[p].run > issued /\ owner'[sessions'[p].run] = p,
           NEW changed, Persist(changed)
    PROVE  Attended'
<1>0. issued \in Nat /\ \A r \in Run \cup {NoRun} : r \in Nat
  BY RunsAreNumbers, SizesAssumption DEF TypeAndRuns, TypeInv, ContextOK
<1>1. \A p \in Product : /\ sessions[p].run \in Run \cup {NoRun} /\ archive[p].run \in Run \cup {NoRun}
                         /\ sessions[p].run <= issued /\ archive[p].run <= issued
  BY DEF TypeAndRuns, TypeInv, StoreOK, Session, RunsIssued, StoredIssued
<1>2. OwnersMatch'
  <2>1. \A p \in Product : /\ sessions'[p].run # NoRun => owner'[sessions'[p].run] = p
                           /\ archive[p].run # NoRun => owner'[archive[p].run] = p
    BY <1>1 DEF Attended, OwnersMatch
  <2> QED BY <2>1, PersistOwners
<1>3. ExpirersIssued'
  <2>1. \A e \in Expirers : expirers[e].todo \subseteq Run /\ expirers[e].run \in Run \cup {NoRun}
    BY DEF TypeAndRuns, TypeInv, ExpirersOK, Expirer
  <2>2. \A n \in Nat : n <= issued => n <= issued'
    BY <1>0
  <2> QED BY <1>0, <2>1, <2>2 DEF ExpirersIssued, Attended
<1>4. \A w \in Worker : workers[w].run \in Nat /\ workers[w].run <= issued
  BY <1>0 DEF TypeAndRuns, TypeInv, PoolOK, Working, RunsIssued, WorkersIssued
<1>5. WorkersFit'
  <2> SUFFICES ASSUME NEW w \in Worker, NEW p \in Product, workers[w].run # NoRun,
                      sessions'[p].run = workers[w].run
               PROVE  /\ workers[w].pc # "start" => sessions'[p].status # "ACCEPTED"
                      /\ Past(w) \/ workers[w].pc = "start" => sessions'[p].status # "RUNNING"
    BY DEF WorkersFit, Past
  <2>1. ~(sessions'[p].run > issued)
    BY <1>0, <1>4
  <2> QED BY <2>1 DEF Attended, WorkersFit
<1>6. NoStrandedSession'
  <2> SUFFICES ASSUME phase \in {"starting", "up"}, NEW p \in Product, NEW r, r = sessions'[p].run
               PROVE  /\ sessions'[p].status = "ACCEPTED" => Awaits(r)'
                      /\ sessions'[p].status = "RUNNING" => Drives(r)'
    BY DEF NoStrandedSession, Awaits, Drives
  <2>1. CASE sessions'[p] = sessions[p]
    <3>1. /\ sessions[p].status = "ACCEPTED" => Awaits(r)
          /\ sessions[p].status = "RUNNING" => Drives(r)
      BY <2>1, StrandedByRun DEF Attended
    <3>2. door.todo = {} /\ door.fails = {} /\ QueuedRuns' = QueuedRuns
      BY DEF DoorFits, QueuedRuns
    <3> QED BY <2>1, <3>1, <3>2 DEF Awaits, Drives
  <2>2. CASE sessions'[p].status = "ACCEPTED" /\ sessions'[p].run \in door'.todo
    BY <2>2 DEF Awaits
  <2> QED BY <2>1, <2>2
<1>7. NotYet'
  <2> SUFFICES ASSUME NEW p \in Product, sessions'[p].status = "RUNNING"
               PROVE  sessions'[p].run \notin door'.todo \cup QueuedRuns
    BY DEF NotYet, QueuedRuns
  <2>1. sessions'[p] = sessions[p]
    OBVIOUS
  <2>2. sessions[p].run \notin QueuedRuns
    BY <2>1 DEF Attended, NotYet
  <2>3. ~(sessions[p].run > issued)
    BY <1>0, <1>1
  <2> QED BY <2>1, <2>2, <2>3
<1> QED BY <1>2, <1>3, <1>5, <1>6, <1>7 DEF Attended

(* A session fails although no worker said so.                             *)
LEMMA FailAttended ==
    ASSUME TypeAndRuns, Attended, NEW r \in Run, r <= issued, Apply(r, "Fail", "TIMEOUT"),
           UNCHANGED <<contextVars, workers, queue, phase>>, ExpirersIssued',
           door'.todo = door.todo, door.fails \ {r} \subseteq door'.fails
    PROVE  Attended'
<1>1. "Fail" \in Changes \ {"Resume"} /\ "TIMEOUT" \in Causes /\ Target["Fail"] = "FAILED"
  BY DEF Changes, Causes, Target
<1>2. /\ OwnersMatch' /\ sessions'[owner[r]].run = r /\ sessions'[owner[r]].status = "FAILED"
      /\ \A p \in Product : p # owner[r] => sessions'[p] = sessions[p] /\ sessions'[p].run # r
  BY <1>1, ApplyMoves DEF Attended, contextVars
<1>3. WorkersFit' /\ NotYet'
  BY <1>2 DEF Attended, WorkersFit, NotYet, Past, QueuedRuns
<1>4. NoStrandedSession'
  <2> SUFFICES ASSUME phase \in {"starting", "up"}, NEW p \in Product, p # owner[r],
                      NEW x, x = sessions[p].run
               PROVE  /\ sessions[p].status = "ACCEPTED" => Awaits(x)'
                      /\ sessions[p].status = "RUNNING" => Drives(x)'
    BY <1>2 DEF NoStrandedSession, Awaits, Drives
  <2>1. /\ sessions[p].status = "ACCEPTED" => Awaits(x)
        /\ sessions[p].status = "RUNNING" => Drives(x)
        /\ x # r
    BY <1>2, StrandedByRun DEF Attended
  <2>2. QueuedRuns' = QueuedRuns
    BY DEF QueuedRuns
  <2> QED BY <2>1, <2>2 DEF Awaits, Drives
<1> QED BY <1>2, <1>3, <1>4 DEF Attended

LEMMA LoopAttended == ASSUME TypeAndRuns, WorkInv, Attended, Loop PROVE Attended'
<1>1. CASE Submit \/ SubmitDev
  <2>1. PICK batch : AcceptCheck(batch)
    BY <1>1 DEF Submit, SubmitDev
  <2>2. /\ door.todo = {} /\ door.fails = {} /\ QueuedRuns' = QueuedRuns
        /\ door'.todo = {} /\ UNCHANGED <<sessions, archive, contextVars, workers, expirers, phase>>
    BY <2>1 DEF AcceptCheck, Closed, WorkInv, DoorFits, QueuedRuns, poolVars, storeVars, lifeVars
  <2> QED BY <2>2, AttendedRests, ExpirersRest DEF Attended
<1>2. CASE Resume
  <2>1. PICK p \in Product, r \in Run, round \in 1 .. MaxQuestionRounds : ResumeCheck(p, r, round)
    BY <1>2 DEF Resume
  <2>2. /\ door.todo = {} /\ door.fails = {} /\ QueuedRuns' = QueuedRuns
        /\ door'.todo = {} /\ UNCHANGED <<sessions, archive, contextVars, workers, expirers, phase>>
    BY <2>1 DEF ResumeCheck, Closed, WorkInv, DoorFits, QueuedRuns, poolVars, storeVars, lifeVars
  <2> QED BY <2>2, AttendedRests, ExpirersRest DEF Attended
<1>3. CASE Take \/ Register
  <2>1. /\ door'.todo = door.todo /\ door'.fails = door.fails /\ QueuedRuns' = QueuedRuns
        /\ UNCHANGED <<sessions, archive, contextVars, workers, expirers, phase>>
    <3>1. door = OpenedWith(door.pc, door.batch, door.run, door.round, door.todo, door.fails)
      BY DEF TypeAndRuns, TypeInv, DoorOK, Door, OpenedWith
    <3>2. CASE Take
      BY <3>1, <3>2 DEF Take, QueuedRuns, poolVars, storeVars, lifeVars, OpenedWith
    <3>3. CASE Register
      BY <3>1, <3>3 DEF Register, QueuedRuns, storeVars, lifeVars, OpenedWith
    <3> QED BY <1>3, <3>2, <3>3
  <2> QED BY <2>1, AttendedRests, ExpirersRest DEF Attended
<1>4. ASSUME NEW r \in Run, Schedule(r) PROVE Attended'
  <2>1. /\ r \in door.todo /\ door'.todo = door.todo \ {r} /\ door'.fails = door.fails
        /\ queue' = Append(queue, r)
        /\ UNCHANGED <<sessions, archive, contextVars, workers, expirers, phase>>
    BY <1>4 DEF Schedule, storeVars, lifeVars, TypeAndRuns, TypeInv, DoorOK, Door
  <2>2. QueuedRuns' = QueuedRuns \cup {r}
    <3>1. r \notin QueuedRuns
      BY <2>1 DEF WorkInv, Apart
    <3> QED BY <2>1, <3>1, QueueAppended DEF TypeAndRuns, TypeInv, PoolOK, WorkInv
  <2> QED BY <2>1, <2>2, AttendedRests, ExpirersRest DEF Attended
<1>5. CASE AcceptAdd
  <2> DEFINE new == issued + 1 .. issued + Len(door.batch)
             changed == {owner'[r] : r \in new}
  <2>1. /\ Persist(changed) /\ door.pc = "add" /\ UNCHANGED <<workers, queue, expirers, phase>>
        /\ door' = [Closed EXCEPT !.pc = "take", !.todo = new]
        /\ issued' = issued + Len(door.batch)
        /\ owner' = [r \in Run |-> IF r \in new THEN door.batch[r - issued] ELSE owner[r]]
        /\ sessions' = [p \in Product |-> IF \E r \in new : owner'[r] = p
                                          THEN Accepted(CHOOSE r \in new : owner'[r] = p)
                                          ELSE sessions[p]]
    BY <1>5 DEF AcceptAdd, poolVars, lifeVars
  <2>2. door'.todo = new
    BY <2>1 DEF Closed
  <2>3. issued \in Nat /\ Len(door.batch) \in Nat
    BY LenProperties, SizesAssumption DEF TypeAndRuns, TypeInv, ContextOK, DoorOK, Door
  <2>4. /\ \A r \in new : r > issued
        /\ \A r \in Run : r <= issued => r \notin new
        /\ issued' \in Nat /\ issued <= issued'
    BY <2>1, <2>3 DEF Run
  <2>5. \A r \in Run : r <= issued => owner'[r] = owner[r]
    BY <2>1, <2>4
  <2> HIDE DEF new
  <2>6. \A p \in Product : \/ sessions'[p] = sessions[p]
                           \/ \E r \in new : owner'[r] = p /\ sessions'[p] = Accepted(r)
    BY <2>1
  <2>7. \A p \in Product : \/ sessions'[p] = sessions[p]
                           \/ /\ sessions'[p].status = "ACCEPTED" /\ sessions'[p].run \in door'.todo
                              /\ sessions'[p].run > issued /\ owner'[sessions'[p].run] = p
    <3> SUFFICES ASSUME NEW p \in Product, NEW r \in new, owner'[r] = p, sessions'[p] = Accepted(r)
                 PROVE  /\ sessions'[p].status = "ACCEPTED" /\ sessions'[p].run \in door'.todo
                        /\ sessions'[p].run > issued /\ owner'[sessions'[p].run] = p
      BY <2>6
    <3>1. sessions'[p].status = "ACCEPTED" /\ sessions'[p].run = r
      BY DEF Accepted
    <3> QED BY <2>2, <2>4, <3>1
  <2> HIDE DEF changed
  <2>8. \A r \in door'.todo : r > issued
    BY <2>2, <2>4
  <2> QED BY <2>1, <2>4, <2>5, <2>7, <2>8, NewSessionsAttended DEF WorkInv
<1>6. CASE ResumeReplace
  <2> DEFINE p == owner[door.run]
             new == issued + 1
             s == [Moved(sessions[p], "Resume") EXCEPT !.run = new]
  <2>1. CASE Applicable(door.run, "Resume") /\ sessions[p].round = door.round
    <3>1. /\ owner' = [owner EXCEPT ![new] = p] /\ issued' = new /\ door.pc = "resume"
          /\ sessions' = [sessions EXCEPT ![p] = s] /\ Persist({p})
          /\ UNCHANGED <<workers, queue, expirers, phase>>
          /\ door' = [Closed EXCEPT !.pc = "take", !.todo = {new}]
      BY <1>6, <2>1 DEF ResumeReplace, Set, poolVars, lifeVars
    <3>2. door'.todo = {new}
      BY <3>1 DEF Closed
    <3>3. issued \in Nat /\ new \in Run /\ issued <= issued' /\ issued' \in Nat
      BY <3>1, SizesAssumption DEF TypeAndRuns, TypeInv, ContextOK, DoorOK, Run
    <3>4. p \in Product => s.run = new /\ s.status = "ACCEPTED"
      BY DEF Moved, TypeAndRuns, TypeInv, StoreOK, Session, Target
    <3>5. owner'[new] = p /\ \A r \in Run : r <= issued => owner'[r] = owner[r]
      BY <3>1, <3>3 DEF TypeAndRuns, TypeInv, ContextOK
    <3> HIDE DEF s, p
    <3>6. \A q \in Product : sessions'[q] = IF q = p THEN s ELSE sessions[q]
      BY <3>1 DEF TypeAndRuns, TypeInv, StoreOK
    <3>7. \A q \in Product : \/ sessions'[q] = sessions[q]
                             \/ /\ sessions'[q].status = "ACCEPTED" /\ sessions'[q].run \in door'.todo
                                /\ sessions'[q].run > issued /\ owner'[sessions'[q].run] = q
      BY <3>2, <3>3, <3>4, <3>5, <3>6
    <3>8. \A r \in door'.todo : r > issued
      BY <3>2, <3>3
    <3> QED BY <3>1, <3>3, <3>5, <3>7, <3>8, NewSessionsAttended DEF WorkInv
  <2>2. CASE ~(Applicable(door.run, "Resume") /\ sessions[p].round = door.round)
    <3>1. /\ door.pc = "resume" /\ QueuedRuns' = QueuedRuns /\ door'.todo = {}
          /\ UNCHANGED <<sessions, archive, contextVars, workers, expirers, phase>>
      BY <1>6, <2>2 DEF ResumeReplace, Closed, QueuedRuns, poolVars, storeVars, lifeVars
    <3>2. door.todo = {} /\ door.fails = {}
      BY <3>1 DEF WorkInv, DoorFits
    <3> QED BY <3>1, <3>2, AttendedRests, ExpirersRest DEF Attended
  <2> QED BY <2>1, <2>2
<1> QED BY <1>1, <1>2, <1>3, <1>4, <1>5, <1>6 DEF Loop

(* Restored sessions that wait or run are queued anew or failed.           *)
LEMMA BootAttended ==
    ASSUME TypeAndRuns, WorkInv, Still, Attended, NEW rows \in [Product -> Session], Boot(rows),
           rows = archive \/ rows = [p \in Product |-> Absent]
    PROVE  Attended'
<1> DEFINE runnable    == {rows[p].run : p \in {q \in Product : Runnable(rows[q])}}
           interrupted == {rows[p].run : p \in {q \in Product : Interrupted(rows[q])}}
<1>1. /\ phase = "down" /\ sessions' = rows /\ archive' = archive
      /\ UNCHANGED <<workers, contextVars, expirers>>
  BY DEF Boot, poolVars
<1>2. OwnersMatch'
  BY <1>1 DEF Attended, OwnersMatch, Absent, contextVars
<1>3. \A w \in Worker : workers'[w].run = NoRun
  BY <1>1 DEF Still, TypeAndRuns, TypeInv, PoolOK, Working
<1>4. WorkersFit'
  BY <1>3 DEF WorkersFit
<1>5. ExpirersIssued'
  BY <1>1, ExpirersRest DEF Attended
<1>6. \A p \in Product : /\ rows[p].status = "ACCEPTED" => rows[p].run \in runnable \cup interrupted
                         /\ rows[p].status = "RUNNING" => rows[p].run \in interrupted
  BY DEF Runnable, Interrupted
<1>7. runnable \cup interrupted # {} => door'.todo = runnable /\ door'.fails = interrupted
  BY DEF Boot, Closed
<1>9. NotYet'
  <2>1. QueuedRuns' = {}
    BY <1>1 DEF Boot, Still, QueuedRuns, poolVars
  <2>2. \A p \in Product : rows[p].run # NoRun => owner[rows[p].run] = p
    BY DEF Attended, OwnersMatch, Absent
  <2>3. \A r \in runnable : r # NoRun /\ \E p \in Product : rows[p].run = r /\ rows[p].status = "ACCEPTED"
    BY RunFacts DEF Runnable, Session
  <2>4. door'.todo \subseteq runnable
    BY <1>7 DEF Boot, Closed
  <2> HIDE DEF runnable
  <2> QED BY <1>1, <2>1, <2>2, <2>3, <2>4 DEF NotYet
<1> HIDE DEF runnable, interrupted
<1>8. NoStrandedSession'
  BY <1>1, <1>6, <1>7 DEF NoStrandedSession
<1> QED BY <1>2, <1>4, <1>5, <1>8, <1>9 DEF Attended

(* A change that is refused although the run was issued: its session is    *)
(* about another run or in another status.                                 *)
LEMMA Refused ==
    ASSUME TypeAndRuns, OwnersMatch, NEW r \in Run, NEW change \in Changes, ~Applicable(r, change),
           NEW p \in Product, sessions[p].run = r
    PROVE  sessions[p].status \notin Sources[change]
<1>1. owner[r] = p
  BY RunFacts DEF OwnersMatch
<1> QED BY <1>1 DEF Applicable

LEMMA StartUpAttended == ASSUME TypeAndRuns, WorkInv, Still, Attended, StartUp PROVE Attended'
<1>1. CASE Restore
  <2>1. archive \in [Product -> Session] /\ [p \in Product |-> Absent] \in [Product -> Session]
    BY AbsentIsSession DEF TypeAndRuns, TypeInv, StoreOK
  <2> QED BY <1>1, <2>1, BootAttended DEF Restore
<1>2. CASE RestoreAnnounce
  <2>1. /\ door'.todo = door.todo /\ door'.fails = door.fails /\ QueuedRuns' = QueuedRuns
        /\ UNCHANGED <<sessions, archive, contextVars, workers, expirers, phase>>
    BY <1>2 DEF RestoreAnnounce, QueuedRuns, poolVars, storeVars, lifeVars, TypeAndRuns, TypeInv, DoorOK, Door
  <2> QED BY <2>1, AttendedRests, ExpirersRest DEF Attended
<1>3. ASSUME NEW r \in Run, RestoreFail(r) PROVE Attended'
  <2>1. /\ r \in door.fails /\ r <= issued /\ door'.todo = door.todo /\ door'.fails = door.fails \ {r}
        /\ UNCHANGED <<contextVars, workers, queue, phase, expirers>>
    BY <1>3 DEF RestoreFail, poolVars, lifeVars, TypeAndRuns, TypeInv, DoorOK, Door, RunsIssued, DoorIssued
  <2>2. ExpirersIssued'
    BY <2>1, ExpirersRest DEF Attended
  <2>3. CASE Applicable(r, "Fail")
    <3>1. Apply(r, "Fail", "TIMEOUT")
      BY <1>3, <2>3 DEF RestoreFail
    <3> QED BY <2>1, <2>2, <3>1, FailAttended
  <2>4. CASE ~Applicable(r, "Fail")
    <3>1. UNCHANGED storeVars
      BY <1>3, <2>4 DEF RestoreFail
    <3>2. OwnersMatch' /\ WorkersFit' /\ NotYet'
      BY <2>1, <3>1 DEF Attended, OwnersMatch, WorkersFit, NotYet, Past, contextVars, storeVars, QueuedRuns
    <3>3. NoStrandedSession'
      <4> SUFFICES ASSUME phase \in {"starting", "up"}, NEW p \in Product, NEW x, x = sessions[p].run
                   PROVE  /\ sessions[p].status = "ACCEPTED" => Awaits(x)'
                          /\ sessions[p].status = "RUNNING" => Drives(x)'
        BY <2>1, <3>1 DEF NoStrandedSession, Awaits, Drives, storeVars
      <4>1. /\ sessions[p].status = "ACCEPTED" => Awaits(x)
            /\ sessions[p].status = "RUNNING" => Drives(x)
        BY StrandedByRun DEF Attended
      <4>2. sessions[p].status \in {"ACCEPTED", "RUNNING"} => x # r
        BY <2>4, Refused DEF Attended, Changes, Sources
      <4>3. QueuedRuns' = QueuedRuns
        BY <2>1 DEF QueuedRuns
      <4> QED BY <2>1, <4>1, <4>2, <4>3 DEF Awaits, Drives
    <3> QED BY <2>2, <3>2, <3>3 DEF Attended
  <2> QED BY <2>3, <2>4
<1>4. CASE Serve
  <2>1. /\ UNCHANGED <<sessions, archive, contextVars, workers, expirers, door>> /\ QueuedRuns' = QueuedRuns
        /\ phase = "starting"
    BY <1>4 DEF Serve, QueuedRuns, poolVars, storeVars
  <2> QED BY <2>1, AttendedRests, ExpirersRest DEF Attended
<1> QED BY <1>1, <1>2, <1>3, <1>4 DEF StartUp

LEMMA SweepAttended == ASSUME TypeAndRuns, WorkInv, Attended, NEW e \in Expirers, Sweep(e) PROVE Attended'
<1>0. /\ UNCHANGED <<contextVars, workers, queue, phase, door>> /\ QueuedRuns' = QueuedRuns
      /\ expirers \in [Expirers -> Expirer] /\ issued \in Nat /\ issued' = issued
  <2>1. UNCHANGED <<contextVars, workers, queue, phase, door>>
    BY DEF Sweep, Scan, Expire, PublishTimeout, poolVars, lifeVars
  <2> QED BY <2>1, SizesAssumption DEF QueuedRuns, contextVars, TypeAndRuns, TypeInv, ExpirersOK, ContextOK
<1>1. CASE Scan(e)
  <2> DEFINE late == {sessions[p].run : p \in Unfinished} \cap overdue
             pc == IF late = {} THEN After(e) ELSE "expire"
  <2>1. expirers' = [expirers EXCEPT ![e] = [Resting EXCEPT !.pc = pc, !.todo = late]]
        /\ UNCHANGED <<sessions, archive>>
    BY <1>1 DEF Scan, storeVars
  <2>2. \A r \in late : r <= issued
    BY DEF Unfinished, TypeAndRuns, RunsIssued, StoredIssued
  <2> HIDE DEF late, pc
  <2>3. ExpirersIssued'
    <3>1. /\ expirers'[e].todo = late /\ expirers'[e].run = NoRun
          /\ \A f \in Expirers \ {e} : expirers'[f] = expirers[f]
      BY <1>0, <2>1 DEF Resting
    <3> QED BY <1>0, <2>2, <3>1 DEF ExpirersIssued, Attended, NoRun
  <2> QED BY <1>0, <2>1, <2>3, AttendedRests
<1>2. CASE PublishTimeout(e)
  <2>1. UNCHANGED <<sessions, archive>>
        /\ expirers'[e].todo = expirers[e].todo /\ expirers'[e].run = NoRun
        /\ \A f \in Expirers \ {e} : expirers'[f] = expirers[f]
    BY <1>0, <1>2 DEF PublishTimeout, storeVars, Expirer
  <2>2. ExpirersIssued'
    BY <1>0, <2>1 DEF ExpirersIssued, Attended, NoRun
  <2> QED BY <1>0, <2>1, <2>2, AttendedRests
<1>3. ASSUME NEW r \in Run, Expire(e, r) PROVE Attended'
  <2>1. /\ r \in expirers[e].todo /\ expirers'[e].todo = expirers[e].todo \ {r}
        /\ expirers'[e].run \in {r, expirers[e].run}
        /\ \A f \in Expirers \ {e} : expirers'[f] = expirers[f]
    BY <1>0, <1>3 DEF Expire, Expirer
  <2>2. r <= issued /\ ExpirersIssued'
    BY <1>0, <2>1 DEF ExpirersIssued, Attended
  <2>3. CASE Applicable(r, "Fail")
    <3>1. Apply(r, "Fail", "TIMEOUT")
      BY <1>3, <2>3 DEF Expire
    <3> QED BY <1>0, <2>2, <3>1, FailAttended
  <2>4. CASE ~Applicable(r, "Fail")
    <3>1. UNCHANGED <<sessions, archive>>
      BY <1>3, <2>4 DEF Expire, storeVars
    <3> QED BY <1>0, <2>2, <3>1, AttendedRests
  <2> QED BY <2>3, <2>4
<1> QED BY <1>1, <1>2, <1>3 DEF Sweep

LEMMA LifeAttended ==
    ASSUME TypeAndRuns, WorkInv, Still, Attended,
           Purge \/ RetryArchive \/ Drain \/ Crash \/ Exit \/ \E r \in Run : BecomeOverdue(r)
    PROVE  Attended'
<1>1. CASE RetryArchive \/ \E r \in Run : BecomeOverdue(r)
  <2>1. /\ UNCHANGED <<sessions, archive, contextVars, workers, expirers, door, phase>>
        /\ QueuedRuns' = QueuedRuns
    BY <1>1 DEF RetryArchive, BecomeOverdue, storeVars, poolVars, lifeVars, QueuedRuns
  <2> QED BY <2>1, AttendedRests, ExpirersRest DEF Attended
<1>2. CASE Drain
  <2>1. UNCHANGED <<sessions, archive, contextVars, workers, expirers>> /\ phase' = "draining"
    BY <1>2 DEF Drain, storeVars
  <2>2. door' = door /\ QueuedRuns' = {}
    BY <1>2 DEF Drain, QueuedRuns
  <2> QED BY <2>1, <2>2, AttendedRests, ExpirersRest DEF Attended
<1>3. CASE Purge
  <2>1. PICK old \in SUBSET {p \in Product : sessions[p].status \in Retained} :
          /\ sessions' = [p \in Product |-> IF p \in old THEN Absent ELSE sessions[p]]
          /\ Persist(old)
    BY <1>3 DEF Purge
  <2>2. /\ UNCHANGED <<contextVars, workers, door, phase>> /\ QueuedRuns' = QueuedRuns
        /\ expirers' = [expirers EXCEPT !["sweeper"] = Resting]
    BY <1>3 DEF Purge, poolVars, lifeVars, QueuedRuns
  <2>3. \A p \in Product : sessions'[p] = sessions[p] \/ sessions'[p] = Absent
    BY <2>1
  <2>4. OwnersMatch'
    <3>1. \A p \in Product : /\ sessions'[p].run # NoRun => owner'[sessions'[p].run] = p
                             /\ archive[p].run # NoRun => owner'[archive[p].run] = p
      BY <2>2, <2>3 DEF Attended, OwnersMatch, Absent, contextVars
    <3> QED BY <2>1, <3>1, PersistOwners
  <2>5. ExpirersIssued'
    BY <2>2, SizesAssumption DEF ExpirersIssued, Attended, Resting, NoRun, contextVars, TypeAndRuns, TypeInv,
                                 ContextOK, ExpirersOK
  <2>6. WorkersFit' /\ NotYet'
    BY <2>2, <2>3 DEF Attended, WorkersFit, NotYet, Past, Absent
  <2>7. NoStrandedSession'
    BY <2>2, <2>3 DEF Attended, NoStrandedSession, Absent
  <2> QED BY <2>4, <2>5, <2>6, <2>7 DEF Attended
<1>4. CASE Crash \/ Exit
  <2>1. /\ phase' = "down" /\ archive' = archive /\ UNCHANGED contextVars
        /\ sessions' = [p \in Product |-> Absent] /\ workers' = [w \in Worker |-> Idle]
        /\ expirers' = [e \in Expirers |-> Resting]
    BY <1>4 DEF Crash, Exit, Stop
  <2>2. OwnersMatch' /\ WorkersFit' /\ NotYet' /\ NoStrandedSession'
    BY <2>1 DEF Attended, OwnersMatch, WorkersFit, NotYet, NoStrandedSession, Absent, Idle, contextVars
  <2>3. ExpirersIssued'
    BY <2>1, SizesAssumption DEF ExpirersIssued, Resting, NoRun, contextVars, TypeAndRuns, TypeInv, ContextOK
  <2> QED BY <2>2, <2>3 DEF Attended
<1> QED BY <1>1, <1>2, <1>3, <1>4

(* A step of one worker: the others, the queue and the event loop rest.    *)
AloneAtWork(w) ==
    /\ \A v \in Worker \ {w} : workers'[v] = workers[v]
    /\ UNCHANGED <<contextVars, expirers, door, queue, phase>>

(* What becomes of the run of the worker, and that the sessions of other   *)
(* runs stay, is all that has to be looked at.                             *)
LEMMA WorkerAttended ==
    ASSUME TypeAndRuns, WorkInv, Attended, NEW w \in Worker, AloneAtWork(w), OwnersMatch',
           workers[w].run # NoRun, workers'[w].run \in {workers[w].run, NoRun},
           \A p \in Product : sessions[p].run # workers[w].run => sessions'[p] = sessions[p],
           \A p \in Product : sessions[p].run = workers[w].run => sessions'[p].run = workers[w].run,
           \A p \in Product : sessions[p].run = workers[w].run =>
             /\ workers'[w].pc # "start" => sessions'[p].status # "ACCEPTED"
             /\ Past(w)' => sessions'[p].status # "RUNNING"
             /\ sessions'[p].status = "ACCEPTED" => workers'[w].pc = "start" /\ workers'[w].run = workers[w].run
             /\ sessions'[p].status = "RUNNING" => workers'[w].pc \in {"job", "publish"}
                                                   /\ workers'[w].run = workers[w].run
    PROVE  Attended'
<1> DEFINE r == workers[w].run
<1>1. \A v \in Worker \ {w} : workers'[v] = workers[v] /\ workers[v].run # r
  BY DEF AloneAtWork, WorkInv, HeldOnce
<1>2. ExpirersIssued'
  BY ExpirersRest DEF AloneAtWork, Attended
<1>3. WorkersFit'
  <2> SUFFICES ASSUME NEW v \in Worker, NEW p \in Product, workers'[v].run # NoRun,
                      sessions'[p].run = workers'[v].run
               PROVE  /\ workers'[v].pc # "start" => sessions'[p].status # "ACCEPTED"
                      /\ Past(v)' \/ workers'[v].pc = "start" => sessions'[p].status # "RUNNING"
    BY DEF WorkersFit
  <2>1. CASE v = w
    BY <2>1
  <2>2. CASE v # w
    <3>1. sessions[p].run # r /\ sessions'[p] = sessions[p] /\ workers'[v] = workers[v]
      BY <1>1, <2>2
    <3>2. Past(v)' <=> Past(v)
      BY <3>1 DEF Past
    <3> QED BY <3>1, <3>2 DEF Attended, WorkersFit
  <2> QED BY <2>1, <2>2
<1>4. NoStrandedSession'
  <2> SUFFICES ASSUME phase \in {"starting", "up"}, NEW p \in Product, NEW x, x = sessions'[p].run
               PROVE  /\ sessions'[p].status = "ACCEPTED" => Awaits(x)'
                      /\ sessions'[p].status = "RUNNING" => Drives(x)'
    BY DEF NoStrandedSession, Awaits, Drives, AloneAtWork
  <2>1. CASE sessions[p].run = r
    BY <2>1 DEF Awaits, Drives
  <2>2. CASE sessions[p].run # r
    <3>1. sessions'[p] = sessions[p] /\ x # r /\ QueuedRuns' = QueuedRuns
      BY <2>2 DEF QueuedRuns, AloneAtWork
    <3>2. /\ sessions[p].status = "ACCEPTED" => Awaits(x)
          /\ sessions[p].status = "RUNNING" => Drives(x)
      BY <3>1, StrandedByRun DEF Attended
    <3>3. Awaits(x) => Awaits(x)'
      BY <1>1, <3>1 DEF Awaits, AloneAtWork
    <3>4. Drives(x) => Drives(x)'
      BY <1>1, <3>1 DEF Drives, AloneAtWork
    <3> QED BY <3>1, <3>2, <3>3, <3>4
  <2> QED BY <2>1, <2>2
<1>5. NotYet'
  <2> SUFFICES ASSUME NEW p \in Product, sessions'[p].status = "RUNNING"
               PROVE  sessions'[p].run \notin door.todo \cup QueuedRuns
    BY DEF NotYet, QueuedRuns, AloneAtWork
  <2>1. r \notin door.todo \cup QueuedRuns
    BY DEF WorkInv, Apart, BusyRuns
  <2>2. sessions[p].run = r => sessions'[p].run = r
    OBVIOUS
  <2>3. sessions[p].run # r => sessions'[p] = sessions[p]
    OBVIOUS
  <2> QED BY <2>1, <2>2, <2>3 DEF Attended, NotYet
<1> QED BY <1>2, <1>3, <1>4, <1>5 DEF Attended

LEMMA PickAttended == ASSUME TypeAndRuns, WorkInv, Attended, NEW w \in Worker, Pick(w) PROVE Attended'
<1> DEFINE r == Head(queue)
<1>1. /\ r \in Run /\ r \in QueuedRuns /\ QueuedRuns' = QueuedRuns \ {r}
  BY QueueTaken DEF TypeAndRuns, TypeInv, PoolOK, Pick, WorkInv
<1>2. /\ workers[w].run = NoRun /\ workers'[w].run = r /\ workers'[w].pc = "start"
      /\ \A v \in Worker \ {w} : workers'[v] = workers[v]
      /\ UNCHANGED <<sessions, archive, contextVars, expirers, door, phase>>
  BY DEF Pick, Idle, TypeAndRuns, TypeInv, PoolOK, Working, storeVars, lifeVars
<1> HIDE DEF r
<1>3. OwnersMatch' /\ ExpirersIssued'
  BY <1>2, ExpirersRest DEF Attended, OwnersMatch, contextVars
<1>4. WorkersFit' /\ NotYet'
  BY <1>1, <1>2 DEF Attended, WorkersFit, NotYet, Past
<1>5. NoStrandedSession'
  <2> SUFFICES ASSUME phase \in {"starting", "up"}, NEW p \in Product, NEW x \in Run, x = sessions[p].run
               PROVE  /\ sessions[p].status = "ACCEPTED" => Awaits(x)'
                      /\ sessions[p].status = "RUNNING" => Drives(x)'
    BY <1>2, SessionsHaveRuns DEF NoStrandedSession, Awaits, Drives, Statuses
  <2>1. /\ sessions[p].status = "ACCEPTED" => Awaits(x)
        /\ sessions[p].status = "RUNNING" => Drives(x)
    BY StrandedByRun DEF Attended
  <2>2. Awaits(x) => Awaits(x)'
    BY <1>1, <1>2, RunFacts DEF Awaits
  <2>3. Drives(x) => Drives(x)'
    BY <1>2, RunFacts DEF Drives
  <2> QED BY <2>1, <2>2, <2>3
<1> QED BY <1>3, <1>4, <1>5 DEF Attended

LEMMA StartAttended == ASSUME TypeAndRuns, WorkInv, Attended, NEW w \in Worker, Start(w) PROVE Attended'
<1> DEFINE r == workers[w].run
<1>1. /\ r \in Run /\ r # NoRun /\ r <= issued /\ workers \in [Worker -> Working] /\ AloneAtWork(w)
      /\ workers'[w].run = r
  <2>1. workers[w].pc = "start" /\ workers \in [Worker -> Working]
    BY DEF Start, TypeAndRuns, TypeInv, PoolOK
  <2> QED BY <2>1, RunFacts, WorkerOwner DEF Start, AloneAtWork, Working, contextVars, lifeVars
<1>2. CASE Applicable(r, "Start")
  <2>1. /\ Apply(r, "Start", "none") /\ workers'[w].pc = "job" /\ workers'[w].news = workers[w].news
    BY <1>1, <1>2 DEF Start, Working
  <2>2. "Start" \in Changes \ {"Resume"} /\ "none" \in Causes /\ Target["Start"] = "RUNNING"
    BY DEF Changes, Causes, Target
  <2>3. UNCHANGED owner
    BY DEF Start, contextVars
  <2>4. /\ OwnersMatch' /\ owner[r] \in Product /\ sessions[owner[r]].run = r
        /\ sessions'[owner[r]].run = r /\ sessions'[owner[r]].status = "RUNNING"
        /\ \A p \in Product : p # owner[r] => sessions'[p] = sessions[p] /\ sessions'[p].run # r
    BY <1>1, <2>1, <2>2, <2>3, ApplyMoves DEF Attended
  <2>5. ~Past(w)'
    BY <2>1 DEF Past
  <2> QED BY <1>1, <2>1, <2>4, <2>5, WorkerAttended
<1>3. CASE ~Applicable(r, "Start")
  <2>1. workers'[w].pc = "release" /\ UNCHANGED <<sessions, archive>> /\ workers[w].pc = "start"
    BY <1>1, <1>3 DEF Start, Working, storeVars
  <2>2. \A p \in Product : sessions[p].run = r => sessions[p].status # "ACCEPTED"
    BY <1>1, <1>3, Refused DEF Attended, Changes, Sources
  <2>3. \A p \in Product : sessions[p].run = r => sessions[p].status # "RUNNING"
    BY <1>1, <2>1 DEF Attended, WorkersFit
  <2>4. OwnersMatch'
    BY <1>1, <2>1 DEF Attended, OwnersMatch, AloneAtWork, contextVars
  <2> QED BY <1>1, <2>1, <2>2, <2>3, <2>4, WorkerAttended
<1> QED BY <1>2, <1>3

LEMMA FinishAttended == ASSUME TypeAndRuns, WorkInv, Attended, NEW w \in Worker, Finish(w) PROVE Attended'
<1> DEFINE r == workers[w].run
<1>1. /\ r \in Run /\ r # NoRun /\ r <= issued /\ workers \in [Worker -> Working] /\ workers[w].pc = "job"
      /\ UNCHANGED owner
  BY RunFacts, WorkerOwner DEF Finish, contextVars, TypeAndRuns, TypeInv, PoolOK
<1>2. PICK change \in Outcomes(workers[w].round) :
         IF Applicable(r, change)
         THEN /\ Apply(r, change, "JOB")
              /\ workers' = [workers EXCEPT ![w].pc = "publish",
                               ![w].news = [kind |-> Announcement[change], stage |-> "none"]]
         ELSE /\ workers' = [workers EXCEPT ![w].pc = "release"]
              /\ UNCHANGED storeVars
  BY DEF Finish
<1>3. AloneAtWork(w)
  BY <1>1, <1>2 DEF Finish, AloneAtWork, contextVars, lifeVars
<1>4. /\ change \in {"Complete", "AskUser", "Fail"} /\ change \in Changes \ {"Resume"} /\ "JOB" \in Causes
      /\ "RUNNING" \in Sources[change]
      /\ Target[change] \notin {"ACCEPTED", "RUNNING"} /\ Announcement[change] \notin Reports
  BY DEF Outcomes, Changes, Causes, Sources, Target, Announcement, Reports
<1>5. CASE Applicable(r, change)
  <2>1. /\ Apply(r, change, "JOB") /\ workers'[w].pc = "publish" /\ workers'[w].run = r
    BY <1>1, <1>2, <1>5 DEF Working
  <2>2. /\ OwnersMatch' /\ owner[r] \in Product /\ sessions[owner[r]].run = r
        /\ sessions'[owner[r]].run = r /\ sessions'[owner[r]].status = Target[change]
        /\ \A p \in Product : p # owner[r] => sessions'[p] = sessions[p] /\ sessions'[p].run # r
    BY <1>1, <1>4, <2>1, ApplyMoves DEF Attended
  <2> QED BY <1>1, <1>3, <1>4, <2>1, <2>2, WorkerAttended
<1>6. CASE ~Applicable(r, change)
  <2>1. workers'[w].pc = "release" /\ workers'[w].run = r /\ UNCHANGED <<sessions, archive>>
    BY <1>1, <1>2, <1>6 DEF Working, storeVars
  <2>2. OwnersMatch'
    BY <1>3, <2>1 DEF Attended, OwnersMatch, AloneAtWork, contextVars
  <2>3. \A p \in Product : sessions[p].run = r => sessions[p].status # "RUNNING"
    BY <1>1, <1>4, <1>6, Refused DEF Attended
  <2>4. \A p \in Product : sessions[p].run = r => sessions[p].status # "ACCEPTED"
    BY <1>1 DEF Attended, WorkersFit
  <2> QED BY <1>1, <1>3, <2>1, <2>2, <2>3, <2>4, WorkerAttended
<1> QED BY <1>5, <1>6

(* Reports, announcements, the release of the place and the end.           *)
LEMMA QuietAttended ==
    ASSUME TypeAndRuns, WorkInv, Attended, NEW w \in Worker,
           ReportStage(w) \/ ReportTool(w) \/ PublishNews(w) \/ Release(w) \/ Forget(w)
    PROVE  Attended'
<1> DEFINE r == workers[w].run
<1>1. /\ workers \in [Worker -> Working] /\ workers[w].pc \notin {"idle", "start"} /\ r \in Run /\ r # NoRun
  <2>1. workers[w].pc \notin {"idle", "start"}
    BY DEF ReportStage, ReportTool, Report, PublishNews, Release, Forget
  <2> QED BY <2>1, RunFacts, WorkerOwner DEF TypeAndRuns, TypeInv, PoolOK
<1>2. AloneAtWork(w) /\ UNCHANGED <<sessions, archive>>
  BY <1>1 DEF ReportStage, ReportTool, Report, PublishNews, Release, Forget, AloneAtWork, contextVars, lifeVars,
              storeVars
<1>3. OwnersMatch'
  BY <1>2 DEF Attended, OwnersMatch, AloneAtWork, contextVars
<1>4. \A p \in Product : sessions[p].run = r => /\ sessions[p].status # "ACCEPTED"
                                                /\ Past(w) => sessions[p].status # "RUNNING"
  BY <1>1 DEF Attended, WorkersFit
<1>5. CASE ReportStage(w) \/ ReportTool(w)
  <2>1. PICK kind \in Reports : \E stage : Report(w, kind, stage)
    BY <1>5 DEF ReportStage, ReportTool, Reports
  <2>2. PICK stage : Report(w, kind, stage)
    BY <2>1
  <2>3. /\ workers'[w].pc = "publish" /\ workers'[w].run = r
        /\ workers'[w].news = [kind |-> kind, stage |-> stage] /\ workers[w].pc = "job"
    BY <1>1, <2>2 DEF Report, Working
  <2>4. ~Past(w)'
    BY <2>3 DEF Past
  <2> QED BY <1>1, <1>2, <1>3, <1>4, <2>3, <2>4, WorkerAttended
<1>6. CASE PublishNews(w)
  <2>1. /\ workers[w].pc = "publish" /\ workers'[w].run = r
        /\ workers'[w].pc = IF workers[w].news.kind \in Reports THEN "job" ELSE "release"
    BY <1>1, <1>6 DEF PublishNews, Working, Reports
  <2>2. CASE workers[w].news.kind \in Reports
    <3>1. ~Past(w)' /\ workers'[w].pc = "job"
      BY <2>1, <2>2 DEF Past
    <3> QED BY <1>1, <1>2, <1>3, <1>4, <2>1, <3>1, WorkerAttended
  <2>3. CASE workers[w].news.kind \notin Reports
    <3>1. Past(w) /\ workers'[w].pc = "release"
      BY <2>1, <2>3 DEF Past
    <3> QED BY <1>1, <1>2, <1>3, <1>4, <2>1, <3>1, WorkerAttended
  <2> QED BY <2>2, <2>3
<1>7. CASE Release(w) \/ Forget(w)
  <2>1. Past(w) /\ workers'[w].pc \in {"done", "idle"} /\ workers'[w].run \in {r, NoRun}
    BY <1>1, <1>7 DEF Release, Forget, Past, Idle, Working
  <2> QED BY <1>1, <1>2, <1>3, <1>4, <2>1, WorkerAttended
<1> QED BY <1>5, <1>6, <1>7

LEMMA AttendedInductive == ASSUME TypeAndRuns, Still, WorkInv, Attended, [Next]_vars PROVE Attended'
<1>1. CASE UNCHANGED vars
  <2>1. /\ UNCHANGED <<sessions, archive, contextVars, workers, expirers, door, phase>>
        /\ QueuedRuns' = QueuedRuns
    BY <1>1 DEF vars, storeVars, poolVars, lifeVars, contextVars, QueuedRuns
  <2> QED BY <2>1, AttendedRests, ExpirersRest DEF Attended
<1>2. ASSUME NEW w \in Worker, Work(w) PROVE Attended'
  BY <1>2, PickAttended, StartAttended, FinishAttended, QuietAttended DEF Work
<1>3. CASE Next
  BY <1>2, <1>3, LoopAttended, StartUpAttended, SweepAttended, LifeAttended DEF Next
<1> QED BY <1>1, <1>3

LEMMA AttendedHolds == Spec => [](Ground /\ Attended)
<1>1. Init => Attended
  <2> SUFFICES ASSUME Init PROVE Attended
    OBVIOUS
  <2>1. OwnersMatch /\ NotYet /\ NoStrandedSession /\ ExpirersIssued
    BY DEF Init, OwnersMatch, NotYet, NoStrandedSession, ExpirersIssued, Absent, Resting, NoRun
  <2>2. WorkersFit
    BY DEF Init, WorkersFit, Idle
  <2> QED BY <2>1, <2>2 DEF Attended
<1>2. Ground /\ Attended /\ [Next]_vars => Attended'
  BY AttendedInductive DEF Ground
<1> QED BY <1>1, <1>2, GroundHolds, PTL DEF Spec

(* A session waiting to run or running always has somebody who will bring  *)
(* it further, whatever times out, is replaced, refused or restored.       *)
THEOREM NobodyIsStranded == Spec => []NoStrandedSession
<1>1. Attended => NoStrandedSession
  BY DEF Attended
<1> QED BY <1>1, AttendedHolds, PTL
-----------------------------------------------------------------------------
(* Time-outs.                                                              *)

(* Before the first restart nothing is interrupted, and the expirers work  *)
(* on overdue runs only.                                                   *)
FirstLife == /\ phase \in {"up", "draining"} /\ door.fails = {}
             /\ \A e \in Expirers : expirers[e].todo \subseteq overdue

(* Only a failed session has a cause, and a run that timed out is overdue. *)
CausesFit ==
    \A p \in Product : /\ sessions[p].cause = "TIMEOUT" => sessions[p].run \in overdue
                       /\ sessions[p].status # "FAILED" => sessions[p].cause = "none"

CauseInv == crashes = 0 => FirstLife /\ CausesFit

LEMMA FirstLifeAlone ==
    ASSUME TypeAndRuns, [Next]_vars, crashes' = 0
    PROVE  crashes = 0 /\ ~(Crash \/ Exit)
<1>1. ~(Crash \/ Exit)
  BY DEF Crash, Exit, Stop, TypeAndRuns, TypeInv, LifeOK
<1>2. crashes = 0
  <2>1. CASE UNCHANGED vars
    BY <2>1 DEF vars, lifeVars
  <2>2. CASE Loop
    BY <2>2 DEF Loop, Submit, SubmitDev, AcceptCheck, AcceptAdd, Take, ResumeReplace, Register, Resume,
                ResumeCheck, Schedule, lifeVars
  <2>3. CASE StartUp
    BY <2>3 DEF StartUp, Restore, Boot, RestoreAnnounce, Serve, RestoreFail, lifeVars
  <2>4. CASE \E w \in Worker : Work(w)
    BY <2>4 DEF Work, Pick, Start, ReportStage, ReportTool, Report, Finish, PublishNews, Release,
                Forget, lifeVars
  <2>5. CASE \E e \in Expirers : Sweep(e)
    BY <2>5 DEF Sweep, Scan, Expire, PublishTimeout, lifeVars
  <2>6. CASE Purge \/ RetryArchive \/ Drain \/ \E r \in Run : BecomeOverdue(r)
    BY <2>6 DEF Purge, RetryArchive, Drain, BecomeOverdue, lifeVars
  <2> QED BY <1>1, <2>1, <2>2, <2>3, <2>4, <2>5, <2>6 DEF Next
<1> QED BY <1>1, <1>2

LEMMA FirstLifeLasts ==
    ASSUME TypeAndRuns, [Next]_vars, crashes' = 0, crashes = 0 => FirstLife
    PROVE  /\ crashes = 0 /\ FirstLife'
           /\ phase # "down" /\ ~(Crash \/ Exit)
<1>1. crashes = 0 /\ ~(Crash \/ Exit)
  BY FirstLifeAlone
<1>3. FirstLife /\ phase # "down"
  BY <1>1 DEF FirstLife
<1>4. door = OpenedWith(door.pc, door.batch, door.run, door.round, door.todo, door.fails)
  BY DEF TypeAndRuns, TypeInv, DoorOK, Door, OpenedWith
<1>5. FirstLife'
  <2>1. CASE UNCHANGED vars
    BY <1>3, <2>1 DEF vars, lifeVars, FirstLife
  <2>2. CASE Loop
    <3>1. UNCHANGED <<phase, expirers, overdue>>
      BY <2>2 DEF Loop, Submit, SubmitDev, AcceptCheck, AcceptAdd, Take, ResumeReplace, Register, Resume,
                  ResumeCheck, Schedule, lifeVars
    <3>2. door.fails = {}
      BY <1>3 DEF FirstLife
    <3>3. CASE Submit \/ SubmitDev \/ Resume
      <4>1. ASSUME NEW batch, AcceptCheck(batch) PROVE door'.fails = {}
        BY <4>1 DEF AcceptCheck, Closed
      <4>2. ASSUME NEW p \in Product, NEW r \in Run, NEW round, ResumeCheck(p, r, round) PROVE door'.fails = {}
        BY <4>2 DEF ResumeCheck, Closed
      <4>3. door'.fails = {}
        BY <3>3, <4>1, <4>2 DEF Submit, SubmitDev, Resume
      <4> QED BY <1>3, <3>1, <4>3 DEF FirstLife
    <3>4. CASE AcceptAdd
      BY <3>1, <3>4, <1>3 DEF FirstLife, AcceptAdd, Closed
    <3>5. CASE ResumeReplace
      <4>1. door'.fails = {}
        <5>1. [Closed EXCEPT !.pc = "take", !.todo = {issued + 1}].fails = {} /\ Closed.fails = {}
          BY DEF Closed
        <5> QED BY <3>5, <5>1 DEF ResumeReplace
      <4> QED BY <1>3, <3>1, <4>1 DEF FirstLife
    <3>6. CASE Take \/ Register \/ \E r \in Run : Schedule(r)
      <4>1. Take => door'.fails = door.fails
        BY <1>4 DEF Take, OpenedWith
      <4>2. Register => door'.fails = door.fails
        BY <1>4 DEF Register, OpenedWith
      <4>3. ASSUME NEW r \in Run, Schedule(r) PROVE door'.fails = door.fails
        BY <1>4, <4>3 DEF Schedule, OpenedWith
      <4>4. door'.fails = door.fails
        BY <3>6, <4>1, <4>2, <4>3
      <4> QED BY <1>3, <3>1, <4>4 DEF FirstLife
    <3> QED BY <2>2, <3>3, <3>4, <3>5, <3>6 DEF Loop
  <2>3. CASE StartUp
    <3>1. ~Restore /\ ~Serve /\ \A r \in Run : ~RestoreFail(r)
      BY <1>3 DEF Restore, Boot, Serve, RestoreFail, FirstLife
    <3>2. RestoreAnnounce
      BY <2>3, <3>1 DEF StartUp
    <3> QED BY <1>3, <1>4, <3>2 DEF RestoreAnnounce, FirstLife, OpenedWith, lifeVars
  <2>4. CASE \E w \in Worker : Work(w)
    <3>1. UNCHANGED <<phase, expirers, overdue, door>>
      BY <2>4 DEF Work, Pick, Start, ReportStage, ReportTool, Report, Finish, PublishNews, Release,
                  Forget, lifeVars
    <3> QED BY <1>3, <3>1 DEF FirstLife
  <2>5. ASSUME NEW e \in Expirers, Sweep(e) PROVE FirstLife'
    <3>1. UNCHANGED <<phase, overdue, door>>
      BY <2>5 DEF Sweep, Scan, Expire, PublishTimeout, lifeVars
    <3>2. /\ expirers \in [Expirers -> Expirer]
          /\ expirers[e] = [pc |-> expirers[e].pc, todo |-> expirers[e].todo, run |-> expirers[e].run]
      BY <2>5 DEF TypeAndRuns, TypeInv, ExpirersOK, Expirer
    <3>3. CASE Scan(e)
      <4>1. PICK late : late \subseteq overdue /\ expirers' = [expirers EXCEPT ![e] =
                      [Resting EXCEPT !.pc = IF late = {} THEN After(e) ELSE "expire", !.todo = late]]
        BY <3>3 DEF Scan
      <4>2. \A x \in Expirers : expirers'[x].todo = IF x = e THEN late ELSE expirers[x].todo
        BY <3>2, <4>1 DEF Resting
      <4> QED BY <1>3, <3>1, <4>1, <4>2 DEF FirstLife
    <3>4. CASE ~Scan(e)
      <4>1. \E y : y.todo \subseteq expirers[e].todo /\ expirers' = [expirers EXCEPT ![e] = y]
        <5>1. CASE PublishTimeout(e)
          <6> DEFINE y == [expirers[e] EXCEPT !.run = NoRun,
                             !.pc = IF expirers[e].todo = {} THEN After(e) ELSE "expire"]
          <6>1. expirers' = [expirers EXCEPT ![e] = y]
            BY <3>2, <5>1 DEF PublishTimeout
          <6>2. y.todo = expirers[e].todo
            BY <3>2
          <6> QED BY <6>1, <6>2
        <5>2. ASSUME NEW r \in Run, Expire(e, r)
              PROVE  \E y : y.todo \subseteq expirers[e].todo /\ expirers' = [expirers EXCEPT ![e] = y]
          <6>1. CASE Applicable(r, "Fail")
            <7> DEFINE y == [pc |-> "publish", todo |-> expirers[e].todo \ {r}, run |-> r]
            <7>1. expirers' = [expirers EXCEPT ![e] = y]
              BY <3>2, <5>2, <6>1 DEF Expire
            <7> QED BY <7>1
          <6>2. CASE ~Applicable(r, "Fail")
            <7> DEFINE y == [pc |-> IF expirers[e].todo = {r} THEN After(e) ELSE "expire",
                             todo |-> expirers[e].todo \ {r}, run |-> expirers[e].run]
            <7>1. expirers' = [expirers EXCEPT ![e] = y]
              BY <3>2, <5>2, <6>2 DEF Expire
            <7> QED BY <7>1
          <6> QED BY <6>1, <6>2
        <5> QED BY <2>5, <3>4, <5>1, <5>2 DEF Sweep
      <4>2. \A x \in Expirers : expirers'[x].todo \subseteq expirers[x].todo
        BY <3>2, <4>1
      <4> QED BY <1>3, <3>1, <4>2 DEF FirstLife
    <3> QED BY <3>3, <3>4
  <2>6. CASE Purge
    <3>1. UNCHANGED <<phase, overdue, door>> /\ expirers' = [expirers EXCEPT !["sweeper"] = Resting]
      BY <2>6 DEF Purge, lifeVars
    <3>2. \A x \in Expirers : expirers'[x].todo \subseteq expirers[x].todo
      BY <3>1 DEF TypeAndRuns, TypeInv, ExpirersOK, Expirer, Resting
    <3> QED BY <1>3, <3>1, <3>2 DEF FirstLife
  <2>7. CASE RetryArchive \/ Drain \/ \E r \in Run : BecomeOverdue(r)
    BY <1>3, <2>7 DEF RetryArchive, Drain, BecomeOverdue, lifeVars, FirstLife
  <2> QED BY <1>1, <2>1, <2>2, <2>3, <2>4, <2>5, <2>6, <2>7 DEF Next
<1> QED BY <1>1, <1>3, <1>5

LEMMA ApplyCauses ==
    ASSUME TypeAndRuns, CausesFit, UNCHANGED overdue, NEW r \in Run, NEW change \in Changes \ {"Resume"},
           NEW cause \in Causes, Apply(r, change, cause), cause = "TIMEOUT" => r \in overdue
    PROVE  CausesFit'
<1> DEFINE q == owner[r]
           s == sessions[q]
           t == SessionAfter(s, change, cause)
<1>1. sessions' = [sessions EXCEPT ![q] = t] /\ s.run = r /\ s.status \in Sources[change]
  BY DEF Apply, Applicable, Set
<1>2. CASE q \in Product
  <2>1. s \in Session
    BY <1>2 DEF TypeAndRuns, TypeInv, StoreOK
  <2>2. Moved(s, change).run = r /\ Moved(s, change).status = Target[change] /\ Moved(s, change).cause = s.cause
    BY <1>1, <2>1 DEF Moved, Session
  <2>3. /\ t.run = r /\ t.status = Target[change]
        /\ t.cause = IF change = "Fail" THEN cause ELSE s.cause
    BY <2>1, <2>2, MovedIsSession, <1>1 DEF SessionAfter, Session
  <2>4. /\ s.cause = "none"
        /\ change # "Fail" => Target[change] # "FAILED"
        /\ Target["Fail"] = "FAILED"
    BY <1>1, <1>2 DEF CausesFit, Changes, Sources, Target
  <2>5. \A p \in Product : sessions'[p] = IF p = q THEN t ELSE sessions[p]
    BY <1>1 DEF TypeAndRuns, TypeInv, StoreOK
  <2> HIDE DEF t
  <2> QED BY <2>3, <2>4, <2>5 DEF CausesFit
<1>3. CASE q \notin Product
  <2>1. \A p \in Product : sessions'[p] = sessions[p]
    BY <1>1, <1>3 DEF TypeAndRuns, TypeInv, StoreOK
  <2> QED BY <2>1 DEF CausesFit
<1> QED BY <1>2, <1>3

LEMMA CausesKept ==
    ASSUME TypeAndRuns, FirstLife, CausesFit, Next, ~(Crash \/ Exit)
    PROVE  CausesFit'
<1>1. ASSUME UNCHANGED <<sessions, overdue>> PROVE CausesFit'
  BY <1>1 DEF CausesFit
<1>2. CASE Loop
  <2>1. CASE Submit \/ SubmitDev \/ Take \/ Resume \/ Register \/ \E r \in Run : Schedule(r)
    BY <1>1, <2>1 DEF Submit, SubmitDev, AcceptCheck, Take, Resume, ResumeCheck, Register, Schedule, storeVars
  <2>2. CASE AcceptAdd
    <3>1. \A p \in Product : sessions'[p] = sessions[p] \/ \E r : sessions'[p] = Accepted(r)
      BY <2>2 DEF AcceptAdd
    <3>2. \A r : Accepted(r).cause = "none" /\ Accepted(r).status = "ACCEPTED"
      BY DEF Accepted
    <3> QED BY <2>2, <3>1, <3>2 DEF CausesFit, AcceptAdd
  <2>3. CASE ResumeReplace
    <3> DEFINE p == owner[door.run]
               s == [Moved(sessions[p], "Resume") EXCEPT !.run = issued + 1]
    <3>1. CASE Applicable(door.run, "Resume") /\ sessions[p].round = door.round
      <4>1. /\ sessions' = [sessions EXCEPT ![p] = s] /\ sessions[p].status = "AWAITING_INPUT"
            /\ overdue' = overdue
        BY <2>3, <3>1 DEF ResumeReplace, Set, Applicable, Sources
      <4>2. p \in Product => s.cause = "none" /\ s.status = "ACCEPTED"
        BY <4>1 DEF Moved, TypeAndRuns, TypeInv, StoreOK, Session, Target, CausesFit
      <4> HIDE DEF s, p
      <4>3. \A q \in Product : sessions'[q] = IF q = p THEN s ELSE sessions[q]
        BY <4>1 DEF TypeAndRuns, TypeInv, StoreOK
      <4> QED BY <4>1, <4>2, <4>3 DEF CausesFit
    <3>2. CASE ~(Applicable(door.run, "Resume") /\ sessions[p].round = door.round)
      BY <1>1, <2>3, <3>2 DEF ResumeReplace, storeVars
    <3> QED BY <3>1, <3>2
  <2> QED BY <1>2, <2>1, <2>2, <2>3 DEF Loop
<1>3. CASE StartUp
  <2>1. ~Restore /\ ~Serve /\ \A r \in Run : ~RestoreFail(r)
    BY DEF Restore, Boot, Serve, RestoreFail, FirstLife
  <2>2. RestoreAnnounce
    BY <1>3, <2>1 DEF StartUp
  <2> QED BY <1>1, <2>2 DEF RestoreAnnounce, storeVars
<1>4. ASSUME NEW w \in Worker, Work(w) PROVE CausesFit'
  <2>1. overdue' = overdue
    BY <1>4 DEF Work, Pick, Start, ReportStage, ReportTool, Report, Finish, PublishNews, Release, Forget
  <2>2. \/ UNCHANGED storeVars
        \/ workers[w].pc # "idle" /\ Apply(workers[w].run, "Start", "none")
        \/ \E change \in Outcomes(workers[w].round) :
              workers[w].pc # "idle" /\ Apply(workers[w].run, change, "JOB")
    BY <1>4 DEF Work, Pick, Start, ReportStage, ReportTool, Report, Finish, PublishNews, Release, Forget
  <2>3. workers[w].pc # "idle" => workers[w].run \in Run
    BY WorkersRun DEF TypeAndRuns
  <2>4. /\ "Start" \in Changes \ {"Resume"} /\ Outcomes(workers[w].round) \subseteq Changes \ {"Resume"}
        /\ "none" \in Causes /\ "JOB" \in Causes
    BY DEF Changes, Outcomes, Causes
  <2>5. CASE UNCHANGED storeVars
    BY <1>1, <2>1, <2>5 DEF storeVars
  <2>6. CASE workers[w].pc # "idle" /\ Apply(workers[w].run, "Start", "none")
    BY <2>1, <2>3, <2>4, <2>6, ApplyCauses
  <2>7. ASSUME NEW change \in Outcomes(workers[w].round), workers[w].pc # "idle",
               Apply(workers[w].run, change, "JOB")
        PROVE  CausesFit'
    BY <2>1, <2>3, <2>4, <2>7, ApplyCauses
  <2> QED BY <2>2, <2>5, <2>6, <2>7
<1>5. ASSUME NEW e \in Expirers, Sweep(e) PROVE CausesFit'
  <2>1. overdue' = overdue
    BY <1>5 DEF Sweep, Scan, Expire, PublishTimeout
  <2>2. CASE UNCHANGED storeVars
    BY <1>1, <2>1, <2>2 DEF storeVars
  <2>3. ASSUME NEW r \in Run, r \in expirers[e].todo, Apply(r, "Fail", "TIMEOUT") PROVE CausesFit'
    <3>1. r \in overdue
      BY <2>3 DEF FirstLife
    <3>2. "Fail" \in Changes \ {"Resume"} /\ "TIMEOUT" \in Causes
      BY DEF Changes, Causes
    <3> QED BY <2>1, <2>3, <3>1, <3>2, ApplyCauses
  <2> QED BY <1>5, <2>2, <2>3 DEF Sweep, Scan, Expire, PublishTimeout
<1>6. CASE Purge
  <2>1. \A p \in Product : sessions'[p] = sessions[p] \/ sessions'[p] = Absent
    BY <1>6 DEF Purge
  <2> QED BY <1>6, <2>1 DEF Purge, CausesFit, Absent
<1>7. CASE RetryArchive \/ Drain
  BY <1>1, <1>7 DEF RetryArchive, Drain, storeVars
<1>8. ASSUME NEW r \in Run, BecomeOverdue(r) PROVE CausesFit'
  BY <1>8 DEF BecomeOverdue, CausesFit, storeVars
<1> QED BY <1>2, <1>3, <1>4, <1>5, <1>6, <1>7, <1>8 DEF Next

LEMMA CausesHold == Spec => []CauseInv
<1>1. Init => CauseInv
  BY DEF Init, CauseInv, FirstLife, CausesFit, Closed, Resting, Absent
<1>2. TypeAndRuns /\ CauseInv /\ [Next]_vars => CauseInv'
  <2> SUFFICES ASSUME TypeAndRuns, CauseInv, [Next]_vars, crashes' = 0 PROVE (FirstLife /\ CausesFit)'
    BY DEF CauseInv
  <2>1. crashes = 0 /\ FirstLife' /\ ~(Crash \/ Exit)
    BY FirstLifeLasts DEF CauseInv
  <2>2. CASE Next
    BY <2>1, <2>2, CausesKept DEF CauseInv
  <2>3. CASE UNCHANGED vars
    BY <2>1, <2>3 DEF CauseInv, CausesFit, vars, storeVars
  <2> QED BY <2>1, <2>2, <2>3
<1> QED BY <1>1, <1>2, TypeAndRunsInvariant, PTL DEF Spec

(* Until the server is restarted for the first time, a run fails with      *)
(* TIMEOUT only when it is overdue itself, although the sweeper and drain  *)
(* work on snapshots.  (After a restart the runs that were interrupted are *)
(* failed in the same way, overdue or not.)                                *)
THEOREM OnlyOverdueTimesOut == Spec => [](crashes = 0 => TimesOutOnlyOverdue)
<1>1. CauseInv => (crashes = 0 => TimesOutOnlyOverdue)
  BY DEF CauseInv, CausesFit, TimesOutOnlyOverdue
<1> QED BY <1>1, CausesHold, PTL

-----------------------------------------------------------------------------
(* What an event adds to the callbacks of its product.                     *)

(* Nothing; a callback about the progress of the run, or two when a stage  *)
(* takes over from another; or its ending.  The numbers go on from the     *)
(* one the builder remembers.                                              *)
Reported(c, r, n) == c \in Callback /\ c.run = r /\ c.sequence = n /\ c.kind \notin Endings
Concluded(c, r, n) == c \in Callback /\ c.run = r /\ c.sequence = n /\ c.kind \in Endings

(* The builder after n numbers of a run that goes on, and after its end.   *)
GoesOnFrom(b, r, n) == /\ builder'.finished = b.finished /\ builder'.runs[r].sequence = n
                       /\ \A x \in Run \ {r} : builder'.runs[x] = b.runs[x]
IsOverIn(b, r) == /\ builder'.finished = b.finished \cup {r}
                  /\ \A x \in Run \ {r} : builder'.runs[x] = b.runs[x]

Says(r, p, n) ==
    \/ UNCHANGED callbackVars
    \/ \E c : /\ Reported(c, r, n) /\ GoesOnFrom(builder, r, n + 1)
              /\ sent' = [sent EXCEPT ![p] = Append(@, c)]
    \/ \E c, d : /\ Reported(c, r, n) /\ Reported(d, r, n + 1) /\ GoesOnFrom(builder, r, n + 2)
                 /\ sent' = [sent EXCEPT ![p] = Append(Append(@, c), d)]
    \/ \E c : /\ Concluded(c, r, n) /\ IsOverIn(builder, r)
              /\ sent' = [sent EXCEPT ![p] = Append(@, c)]

LEMMA OneMore == ASSUME NEW S, NEW s \in Seq(S), NEW c PROVE s \o <<c>> = Append(s, c)
  OBVIOUS

LEMMA TwoMore ==
    ASSUME NEW S, NEW s \in Seq(S), NEW c \in S, NEW d \in S
    PROVE  s \o <<c, d>> = Append(Append(s, c), d)
<1> DEFINE t == s \o <<c, d>>
           u == Append(Append(s, c), d)
<1>1. /\ t \in Seq(S) /\ Len(t) = Len(s) + 2 /\ Len(s) \in Nat
      /\ \A i \in 1 .. Len(s) : t[i] = s[i]
      /\ t[Len(s) + 1] = c /\ t[Len(s) + 2] = d
  BY LenProperties, ConcatProperties
<1>2. Append(s, c) \in Seq(S) /\ Len(Append(s, c)) = Len(s) + 1
  BY AppendProperties
<1>3. /\ u \in Seq(S) /\ Len(u) = Len(s) + 2
      /\ \A i \in 1 .. Len(s) : u[i] = s[i]
      /\ u[Len(s) + 1] = c /\ u[Len(s) + 2] = d
  BY <1>1, <1>2, AppendProperties
<1> HIDE DEF t, u
<1>4. \A i \in 1 .. Len(s) + 2 : t[i] = u[i]
  BY <1>1, <1>3
<1> QED BY <1>1, <1>3, <1>4, SeqEqual DEF t, u

LEMMA PublishedCallbacks ==
    ASSUME TypeAndRuns, NEW e \in Event, e.run <= issued, Publish(e),
           NEW n, n = builder.runs[e.run].sequence
    PROVE  /\ owner[e.run] \in Product /\ n \in Nat \ {0}
           /\ ~UNCHANGED callbackVars => e.run \notin builder.finished
           /\ e.kind \in Reports => builder'.finished = builder.finished
           /\ Says(e.run, owner[e.run], n)
<1> DEFINE r == e.run
           p == owner[r]
           at == builder.runs[r]
<1>1. /\ r \in Run /\ e.kind \in EventKinds /\ e.stage \in PublicStages \cup {"pipeline", "none"}
      /\ builder \in Builder /\ sent \in [Product -> Seq(Callback)]
      /\ at.sequence = n /\ n \in Nat \ {0} /\ at.stage \in PublicStages \cup {"none"}
      /\ builder = [runs |-> builder.runs, finished |-> builder.finished]
      /\ builder.runs \in [Run -> Progress] /\ builder.finished \subseteq Run
  BY DEF Event, TypeAndRuns, TypeInv, CallbackOK, Builder, Progress
<1>2. p \in Product
  <2>1. r \in Issued
    BY <1>1, RunFacts, SizesAssumption DEF Run, Issued, TypeAndRuns, TypeInv, ContextOK
  <2> QED BY <2>1 DEF TypeAndRuns, RunsIssued, OwnersKnown
<1>3. ASSUME ~UNCHANGED callbackVars
      PROVE  r \notin builder.finished /\ Says(r, p, n)
  <2>1. PICK convertible \in BOOLEAN :
          /\ builder' = Remembered(builder, e)
          /\ sent' = [sent EXCEPT ![p] = @ \o Built(builder, e, convertible)]
    BY <1>3 DEF Publish
  <2>2. sent[p] \in Seq(Callback)
    BY <1>1, <1>2
  <2>3. Announces(builder, e)
    <3> SUFFICES ASSUME ~Announces(builder, e) PROVE UNCHANGED callbackVars
      BY <1>3
    <3>1. builder' = builder /\ sent' = [sent EXCEPT ![p] = @ \o << >>]
      BY <2>1 DEF Remembered, Built
    <3>2. sent[p] \o << >> = sent[p]
      BY <2>2
    <3> QED BY <1>1, <3>1, <3>2 DEF callbackVars
  <2>4. r \notin builder.finished
    BY <2>3 DEF Announces
  <2>5. \A k \in Nat \ {0}, kind \in Endings \cup {"started", "completed", "tool"},
           stage \in PublicStages \cup {"none"} :
           /\ Number(r, k, kind, stage) \in Callback
           /\ Number(r, k, kind, stage).run = r /\ Number(r, k, kind, stage).sequence = k
           /\ Number(r, k, kind, stage).kind = kind
    BY <1>1 DEF Number, Callback
  <2>6. /\ "started" \notin Endings /\ "completed" \notin Endings /\ "tool" \notin Endings
        /\ {"result", "questions", "failed"} = Endings
    BY DEF Endings
  <2>7. CASE e.kind \in {"Completed", "AwaitingInput", "Failed"}
    <3> DEFINE c == Number(r, n, Ending(e, convertible), "none")
    <3>1. Ending(e, convertible) \in Endings
      BY <2>7 DEF Ending, Endings
    <3>2. Concluded(c, r, n)
      BY <1>1, <2>5, <3>1 DEF Concluded
    <3>3. Built(builder, e, convertible) = <<c>>
      BY <1>1, <2>3, <2>7 DEF Built, Last
    <3>4. builder' = [builder EXCEPT !.runs[r] = Fresh, !.finished = @ \cup {r}]
      BY <2>1, <2>3, <2>7 DEF Remembered
    <3>5. IsOverIn(builder, r)
      BY <1>1, <3>4 DEF IsOverIn
    <3> HIDE DEF c
    <3>6. sent' = [sent EXCEPT ![p] = Append(@, c)]
      BY <2>1, <2>2, <3>3, OneMore
    <3> QED BY <2>4, <3>2, <3>5, <3>6 DEF Says
  <2>8. CASE e.kind = "ToolProgressed"
    <3> DEFINE c == Number(r, n, "tool", at.stage)
    <3>1. Reported(c, r, n)
      BY <1>1, <2>5, <2>6 DEF Reported
    <3>2. Built(builder, e, convertible) = <<c>>
      BY <1>1, <2>3, <2>8 DEF Built
    <3>3. builder' = [builder EXCEPT !.runs[r] = [sequence |-> n + 1, stage |-> at.stage]]
      BY <1>1, <2>1, <2>3, <2>8 DEF Remembered, NumbersUsed
    <3>4. GoesOnFrom(builder, r, n + 1)
      BY <1>1, <3>3 DEF GoesOnFrom
    <3> HIDE DEF c
    <3>5. sent' = [sent EXCEPT ![p] = Append(@, c)]
      BY <2>1, <2>2, <3>2, OneMore
    <3> QED BY <2>4, <3>1, <3>4, <3>5 DEF Says
  <2>9. CASE e.kind = "StageChanged" /\ at.stage = "none"
    <3> DEFINE c == Number(r, n, "started", e.stage)
    <3>0. e.stage \in PublicStages \cup {"none"}
      BY <2>3, <2>9 DEF Announces
    <3>1. Reported(c, r, n)
      <4>1. c \in Callback /\ c.run = r /\ c.sequence = n /\ c.kind = "started"
        BY <1>1, <3>0 DEF Number, Callback
      <4> QED BY <2>6, <4>1 DEF Reported
    <3>2. StageCallbacks(r, at, e.stage) = <<c>>
      BY <1>1, <2>9 DEF StageCallbacks
    <3>3. Built(builder, e, convertible) = <<c>>
      BY <2>3, <2>9, <3>2 DEF Built
    <3> HIDE DEF c
    <3>4. NumbersUsed(e, at) = 1
      BY <2>9, <3>2 DEF NumbersUsed
    <3>5. builder' = [builder EXCEPT !.runs[r] = [sequence |-> n + 1, stage |-> e.stage]]
      BY <1>1, <2>1, <2>3, <2>9, <3>4 DEF Remembered
    <3>6. GoesOnFrom(builder, r, n + 1)
      BY <1>1, <3>5 DEF GoesOnFrom
    <3>7. sent' = [sent EXCEPT ![p] = Append(@, c)]
      BY <2>1, <2>2, <3>3, OneMore
    <3> QED BY <2>4, <3>1, <3>6, <3>7 DEF Says
  <2>10. CASE e.kind = "StageChanged" /\ at.stage # "none"
    <3> DEFINE c == Number(r, n, "completed", at.stage)
               d == Number(r, n + 1, "started", e.stage)
    <3>0. e.stage \in PublicStages \cup {"none"}
      BY <2>3, <2>10 DEF Announces
    <3>1. Reported(c, r, n) /\ Reported(d, r, n + 1)
      <4>1. n + 1 \in Nat \ {0}
        BY <1>1
      <4>2. /\ c \in Callback /\ c.run = r /\ c.sequence = n /\ c.kind = "completed"
            /\ d \in Callback /\ d.run = r /\ d.sequence = n + 1 /\ d.kind = "started"
        BY <1>1, <3>0, <4>1 DEF Number, Callback
      <4> QED BY <2>6, <4>2 DEF Reported
    <3>2. StageCallbacks(r, at, e.stage) = <<c, d>>
      BY <1>1, <2>10 DEF StageCallbacks
    <3>3. Built(builder, e, convertible) = <<c, d>>
      BY <2>3, <2>10, <3>2 DEF Built
    <3> HIDE DEF c, d
    <3>4. NumbersUsed(e, at) = 2
      BY <2>10, <3>2 DEF NumbersUsed
    <3>5. builder' = [builder EXCEPT !.runs[r] = [sequence |-> n + 2, stage |-> e.stage]]
      BY <1>1, <2>1, <2>3, <2>10, <3>4 DEF Remembered
    <3>6. GoesOnFrom(builder, r, n + 2)
      BY <1>1, <3>5 DEF GoesOnFrom
    <3>7. sent[p] \o <<c, d>> = Append(Append(sent[p], c), d)
      <4>1. c \in Callback /\ d \in Callback
        BY <3>1 DEF Reported
      <4>2. \A t \in Seq(Callback) : t \o <<c, d>> = Append(Append(t, c), d)
        BY <4>1, TwoMore
      <4> QED BY <2>2, <4>2
    <3>8. sent' = [sent EXCEPT ![p] = Append(Append(@, c), d)]
      BY <2>1, <3>3, <3>7
    <3> QED BY <2>4, <3>1, <3>6, <3>8 DEF Says
  <2> QED BY <1>1, <2>7, <2>8, <2>9, <2>10 DEF EventKinds
<1>4. e.kind \in Reports => builder'.finished = builder.finished
  <2> SUFFICES ASSUME e.kind \in Reports, builder' = Remembered(builder, e)
               PROVE  builder'.finished = builder.finished
    BY DEF Publish, callbackVars
  <2>1. PICK x : x = [sequence |-> at.sequence + NumbersUsed(e, at),
                      stage    |-> IF e.kind = "StageChanged" THEN e.stage ELSE at.stage]
    OBVIOUS
  <2>2. builder' = builder \/ builder' = [builder EXCEPT !.runs[r] = x]
    BY <2>1 DEF Remembered, Reports
  <2> QED BY <1>1, <2>2
<1> QED BY <1>1, <1>2, <1>3, <1>4 DEF Says

(* Runs are issued one after the other, and keep their products.           *)
LEMMA ContextGrows ==
    ASSUME TypeAndRuns, [Next]_vars
    PROVE  /\ issued \in Nat /\ issued' \in Nat /\ issued <= issued' /\ Issued \subseteq Run
           /\ \A r \in Issued : owner'[r] = owner[r]
<1>1. /\ issued \in Nat /\ Issued \subseteq Run /\ issued <= MaxRuns /\ MaxRuns \in Nat
      /\ owner \in [Run -> Product \cup {NoProduct}]
  BY SizesAssumption DEF TypeAndRuns, TypeInv, ContextOK, Issued, Run
<1>2. CASE UNCHANGED contextVars
  BY <1>1, <1>2 DEF contextVars
<1>3. CASE AcceptAdd
  <2>1. Len(door.batch) \in Nat
    BY LenProperties DEF TypeAndRuns, TypeInv, DoorOK, Door
  <2>2. /\ issued' = issued + Len(door.batch)
        /\ owner' = [r \in Run |-> IF r \in issued + 1 .. issued + Len(door.batch)
                                   THEN door.batch[r - issued] ELSE owner[r]]
    BY <1>3 DEF AcceptAdd
  <2> QED BY <1>1, <2>1, <2>2 DEF Issued
<1>4. CASE ResumeReplace
  <2>1. \/ UNCHANGED contextVars
        \/ issued' = issued + 1 /\ owner' = [owner EXCEPT ![issued + 1] = owner[door.run]]
    BY <1>4 DEF ResumeReplace
  <2> QED BY <1>1, <1>2, <2>1 DEF Issued
<1>5. CASE UNCHANGED vars
  BY <1>2, <1>5 DEF vars
<1>6. CASE Loop
  BY <1>2, <1>3, <1>4, <1>6 DEF Loop, Submit, SubmitDev, AcceptCheck, Take, Register, Resume, ResumeCheck, Schedule
<1>7. CASE StartUp
  BY <1>2, <1>7 DEF StartUp, Restore, Boot, RestoreAnnounce, Serve, RestoreFail
<1>8. CASE \E w \in Worker : Work(w)
  BY <1>2, <1>8 DEF Work, Pick, Start, ReportStage, ReportTool, Report, Finish, PublishNews, Release, Forget
<1>9. CASE \E e \in Expirers : Sweep(e)
  BY <1>2, <1>9 DEF Sweep, Scan, Expire, PublishTimeout
<1>10. CASE Purge \/ RetryArchive \/ Drain \/ Crash \/ Exit \/ \E r \in Run : BecomeOverdue(r)
  BY <1>2, <1>10 DEF Purge, RetryArchive, Drain, Crash, Exit, Stop, BecomeOverdue
<1> QED BY <1>5, <1>6, <1>7, <1>8, <1>9, <1>10 DEF Next

(* A run issued in a step is one of the runs.                              *)
LEMMA NewRuns ==
    ASSUME TypeAndRuns, [Next]_vars, NEW r \in Issued' PROVE r \in Run
<1>1. TypeInv'
  BY TypeAndRunsInductive DEF TypeAndRuns
<1> QED BY <1>1, SizesAssumption DEF TypeInv, ContextOK, Issued, Run

(* Who announces something of a run: expirers and the event loop announce  *)
(* failures.                                                               *)
Announcer(r) == \/ \E e \in Expirers : expirers[e].run = r
                \/ door.pc = "announce" /\ door.run = r
Said(e) == \/ \E w \in Worker : /\ workers[w].pc = "publish"
                                /\ workers[w].run = e.run /\ workers[w].news.kind = e.kind
           \/ Announcer(e.run)

LEMMA Announced ==
    ASSUME TypeAndRuns, ExpirersIssued, Next
    PROVE  \/ UNCHANGED callbackVars
           \/ Crash \/ Exit
           \/ UNCHANGED <<storeVars, contextVars, lifeVars>> /\ \E e \in Event : e.run <= issued /\ Publish(e) /\ Said(e)
<1>1. CASE Loop
  BY <1>1 DEF Loop, Submit, SubmitDev, AcceptCheck, AcceptAdd, Take, ResumeReplace, Register, Resume,
              ResumeCheck, Schedule
<1>2. ASSUME NEW r \in Run, NEW kind \in EventKinds, NEW stage \in PublicStages \cup {"pipeline", "none"}
      PROVE  /\ EventOf(r, kind, stage) \in Event
             /\ EventOf(r, kind, stage).run = r /\ EventOf(r, kind, stage).kind = kind
  BY DEF EventOf, Event
<1>3. "Failed" \in EventKinds /\ "none" \in PublicStages \cup {"pipeline", "none"}
  BY DEF EventKinds
<1>4. CASE StartUp
  <2>1. CASE RestoreAnnounce
    <3>1. door.run \in Run /\ door.run <= issued /\ UNCHANGED <<storeVars, contextVars, lifeVars>>
      BY <2>1 DEF RestoreAnnounce, TypeAndRuns, TypeInv, DoorOK, Door, RunsIssued, DoorIssued
    <3> QED BY <1>2, <1>3, <2>1, <3>1 DEF RestoreAnnounce, Said, Announcer
  <2>2. CASE Restore \/ Serve \/ \E r \in Run : RestoreFail(r)
    BY <2>2 DEF Restore, Boot, Serve, RestoreFail
  <2> QED BY <1>4, <2>1, <2>2 DEF StartUp
<1>5. ASSUME NEW w \in Worker, Work(w), ~UNCHANGED callbackVars
      PROVE  UNCHANGED <<storeVars, contextVars, lifeVars>> /\ \E e \in Event : e.run <= issued /\ Publish(e) /\ Said(e)
  <2>1. PublishNews(w)
    BY <1>5 DEF Work, Pick, Start, ReportStage, ReportTool, Report, Finish, Release, Forget
  <2>2. workers[w].run \in Run /\ workers[w].run <= issued
    BY <2>1, WorkerOwner DEF PublishNews
  <2>3. workers[w].news.kind \in EventKinds /\ workers[w].news.stage \in PublicStages \cup {"pipeline", "none"}
    BY <2>1 DEF PublishNews, TypeAndRuns, TypeInv, PoolOK, Working
  <2> QED BY <1>2, <2>1, <2>2, <2>3 DEF PublishNews, Said
<1>6. ASSUME NEW x \in Expirers, Sweep(x), ~UNCHANGED callbackVars
      PROVE  UNCHANGED <<storeVars, contextVars, lifeVars>> /\ \E e \in Event : e.run <= issued /\ Publish(e) /\ Said(e)
  <2>1. PublishTimeout(x)
    BY <1>6 DEF Sweep, Scan, Expire
  <2>2. expirers[x].run \in Run /\ expirers[x].run <= issued
    BY <2>1 DEF PublishTimeout, TypeAndRuns, TypeInv, ExpirersOK, Expirer, ExpirersIssued
  <2> QED BY <1>2, <1>3, <2>1, <2>2 DEF PublishTimeout, Said, Announcer
<1>7. CASE Purge \/ RetryArchive \/ Drain \/ \E r \in Run : BecomeOverdue(r)
  BY <1>7 DEF Purge, RetryArchive, Drain, BecomeOverdue
<1> QED BY <1>1, <1>4, <1>5, <1>6, <1>7 DEF Next

-----------------------------------------------------------------------------
(* The numbers of callbacks.                                               *)

(* The first k callbacks of a sequence that are about run r.               *)
About(s, k, r) == {i \in 1 .. k : s[i].run = r}

NumberedIn(s) == \A j \in 1 .. Len(s) : s[j].sequence = Cardinality(About(s, j, s[j].run))

(* What a sequence t with one callback more than s is like.                *)
OneLonger(s, c, t) ==
    /\ t \in Seq(Callback) /\ Len(s) \in Nat /\ Len(t) = Len(s) + 1
    /\ \A j \in 1 .. Len(s) : t[j] = s[j] /\ \A r : About(t, j, r) = About(s, j, r)
    /\ t[Len(t)] = c
    /\ \A r : /\ About(s, Len(s), r) \subseteq 1 .. Len(s)
              /\ Cardinality(About(s, Len(s), r)) \in Nat
              /\ Cardinality(About(t, Len(t), r))
                   = Cardinality(About(s, Len(s), r)) + IF r = c.run THEN 1 ELSE 0

LEMMA CountMore ==
    ASSUME NEW s \in Seq(Callback), NEW c \in Callback, NEW t, t = Append(s, c)
    PROVE  OneLonger(s, c, t)
<1>1. /\ t \in Seq(Callback) /\ Len(s) \in Nat /\ Len(t) = Len(s) + 1
      /\ \A j \in 1 .. Len(s) : t[j] = s[j]
      /\ t[Len(s) + 1] = c
  BY AppendProperties, LenProperties
<1>2. \A j \in 1 .. Len(s) : \A r : About(t, j, r) = About(s, j, r)
  <2> SUFFICES ASSUME NEW j \in 1 .. Len(s), NEW r PROVE About(t, j, r) = About(s, j, r)
    OBVIOUS
  <2>1. \A i \in 1 .. j : i \in 1 .. Len(s)
    BY <1>1
  <2> QED BY <1>1, <2>1 DEF About
<1>3. ASSUME NEW r
      PROVE  /\ About(s, Len(s), r) \subseteq 1 .. Len(s)
             /\ Cardinality(About(s, Len(s), r)) \in Nat
             /\ Cardinality(About(t, Len(t), r))
                  = Cardinality(About(s, Len(s), r)) + IF r = c.run THEN 1 ELSE 0
  <2>1. About(s, Len(s), r) \subseteq 1 .. Len(s)
    BY DEF About
  <2>2. IsFiniteSet(About(s, Len(s), r))
    <3>1. IsFiniteSet(1 .. Len(s))
      BY <1>1, FS_Interval
    <3> QED BY <2>1, <3>1, FS_Subset
  <2>3. About(t, Len(t), r) = About(s, Len(s), r) \cup IF r = c.run THEN {Len(t)} ELSE {}
    <3>1. \A i \in 1 .. Len(t) : i \in 1 .. Len(s) \/ i = Len(t)
      BY <1>1
    <3>2. \A i \in 1 .. Len(s) : i \in 1 .. Len(t) /\ t[i] = s[i]
      BY <1>1
    <3>3. Len(t) \in 1 .. Len(t) /\ t[Len(t)] = c
      BY <1>1
    <3> QED BY <3>1, <3>2, <3>3 DEF About
  <2>4. Len(t) \notin About(s, Len(s), r)
    BY <1>1, <2>1
  <2>5. CASE r = c.run
    BY <2>2, <2>3, <2>4, <2>5, <2>1, FS_AddElement, FS_CardinalityType
  <2>6. CASE r # c.run
    <3>1. About(t, Len(t), r) = About(s, Len(s), r)
      BY <2>3, <2>6
    <3>2. Cardinality(About(s, Len(s), r)) \in Nat
      BY <2>2, FS_CardinalityType
    <3> QED BY <2>1, <2>6, <3>1, <3>2
  <2> QED BY <2>5, <2>6
<1> QED BY <1>1, <1>2, <1>3 DEF OneLonger

LEMMA NumberMore ==
    ASSUME NEW s \in Seq(Callback), NEW c \in Callback, NEW t, t = Append(s, c), NumberedIn(s),
           c.sequence = Cardinality(About(s, Len(s), c.run)) + 1
    PROVE  NumberedIn(t)
<1>0. OneLonger(s, c, t)
  BY CountMore
<1>1. /\ Len(s) \in Nat /\ Len(t) = Len(s) + 1 /\ t[Len(t)] = c
      /\ \A j \in 1 .. Len(s) : t[j] = s[j] /\ \A r : About(t, j, r) = About(s, j, r)
  BY <1>0 DEF OneLonger
<1>2. Cardinality(About(t, Len(t), c.run)) = Cardinality(About(s, Len(s), c.run)) + 1
  BY <1>0 DEF OneLonger
<1> SUFFICES ASSUME NEW j \in 1 .. Len(t)
             PROVE  t[j].sequence = Cardinality(About(t, j, t[j].run))
  BY DEF NumberedIn
<1>3. CASE j \in 1 .. Len(s)
  BY <1>1, <1>3 DEF NumberedIn
<1>4. CASE j = Len(t)
  BY <1>1, <1>2, <1>4
<1> QED BY <1>1, <1>3, <1>4

(* A callback is kept with the product of its run, nothing is known of     *)
(* runs not issued yet, and until the server is restarted the builder      *)
(* knows how many callbacks a run has got.                                 *)
SentByOwner == \A p \in Product : \A i \in 1 .. Len(sent[p]) :
                 sent[p][i].run \in Issued /\ owner[sent[p][i].run] = p
FreshFit == \A r \in Run \ Issued : builder.runs[r].sequence = 1 /\ r \notin builder.finished
CountsFit == /\ \A p \in Product : NumberedIn(sent[p])
             /\ \A p \in Product : \A r \in Issued \ builder.finished : owner[r] = p =>
                  builder.runs[r].sequence = Cardinality(About(sent[p], Len(sent[p]), r)) + 1

NumberInv == SentByOwner /\ FreshFit /\ (crashes = 0 => CountsFit)

(* One callback more for the product of its run.                           *)
LEMMA SentMore ==
    ASSUME TypeAndRuns, SentByOwner, UNCHANGED contextVars, NEW p \in Product, NEW c \in Callback,
           c.run \in Issued, owner[c.run] = p, NEW s \in Seq(Callback),
           \A i \in 1 .. Len(s) : s[i].run \in Issued /\ owner[s[i].run] = p
    PROVE  \A i \in 1 .. Len(Append(s, c)) :
             Append(s, c)[i].run \in Issued /\ owner[Append(s, c)[i].run] = p
<1> DEFINE t == Append(s, c)
<1>1. /\ Len(s) \in Nat /\ Len(t) = Len(s) + 1 /\ t[Len(s) + 1] = c
      /\ \A j \in 1 .. Len(s) : t[j] = s[j]
  BY AppendProperties, LenProperties
<1> HIDE DEF t
<1>2. ASSUME NEW i \in 1 .. Len(t) PROVE t[i].run \in Issued /\ owner[t[i].run] = p
  BY <1>1
<1> QED BY <1>2 DEF t

LEMMA SentStays ==
    ASSUME SentByOwner, FreshFit, CountsFit, UNCHANGED callbackVars, UNCHANGED contextVars
    PROVE  SentByOwner' /\ FreshFit' /\ CountsFit'
  BY DEF SentByOwner, FreshFit, CountsFit, callbackVars, contextVars, Issued

LEMMA SaysByOwner ==
    ASSUME TypeAndRuns, SentByOwner, FreshFit, UNCHANGED contextVars,
           NEW r \in Issued, NEW p \in Product, owner[r] = p, NEW n, Says(r, p, n)
    PROVE  SentByOwner' /\ FreshFit'
<1>1. sent \in [Product -> Seq(Callback)] /\ Issued' = Issued /\ UNCHANGED owner
  BY DEF TypeAndRuns, TypeInv, CallbackOK, Issued, contextVars
<1>2. FreshFit'
  BY <1>1 DEF Says, GoesOnFrom, IsOverIn, FreshFit, callbackVars
<1>3. CASE UNCHANGED callbackVars
  BY <1>1, <1>2, <1>3 DEF SentByOwner, callbackVars
<1>4. \A i \in 1 .. Len(sent[p]) : sent[p][i].run \in Issued /\ owner[sent[p][i].run] = p
  BY DEF SentByOwner
<1>5. ASSUME NEW s \in Seq(Callback), sent' = [sent EXCEPT ![p] = s],
             \A i \in 1 .. Len(s) : s[i].run \in Issued /\ owner[s[i].run] = p
      PROVE  SentByOwner'
  <2>1. \A q \in Product : sent'[q] = IF q = p THEN s ELSE sent[q]
    BY <1>1, <1>5
  <2> SUFFICES ASSUME NEW q \in Product, NEW i \in 1 .. Len(sent'[q])
               PROVE  sent'[q][i].run \in Issued /\ owner[sent'[q][i].run] = q
    BY <1>1 DEF SentByOwner
  <2> QED BY <1>5, <2>1 DEF SentByOwner
<1>6. ASSUME NEW c \in Callback, c.run = r, sent' = [sent EXCEPT ![p] = Append(@, c)] PROVE SentByOwner'
  <2>1. Append(sent[p], c) \in Seq(Callback)
    BY <1>1, <1>6, AppendProperties
  <2>2. \A i \in 1 .. Len(Append(sent[p], c)) :
          Append(sent[p], c)[i].run \in Issued /\ owner[Append(sent[p], c)[i].run] = p
    BY <1>1, <1>4, <1>6, SentMore
  <2> QED BY <1>1, <1>5, <1>6, <2>1, <2>2
<1>7. ASSUME NEW c \in Callback, NEW d \in Callback, c.run = r, d.run = r,
             sent' = [sent EXCEPT ![p] = Append(Append(@, c), d)]
      PROVE  SentByOwner'
  <2> DEFINE s == Append(sent[p], c)
  <2>1. s \in Seq(Callback) /\ Append(s, d) \in Seq(Callback)
    BY <1>1, <1>7, AppendProperties
  <2>2. \A i \in 1 .. Len(s) : s[i].run \in Issued /\ owner[s[i].run] = p
    BY <1>1, <1>4, <1>7, SentMore
  <2>3. sent' = [sent EXCEPT ![p] = Append(s, d)]
    BY <1>7
  <2> HIDE DEF s
  <2>4. \A i \in 1 .. Len(Append(s, d)) : Append(s, d)[i].run \in Issued /\ owner[Append(s, d)[i].run] = p
    BY <1>1, <1>7, <2>1, <2>2, SentMore
  <2> QED BY <1>5, <2>1, <2>3, <2>4
<1>8. CASE ~UNCHANGED callbackVars
  BY <1>2, <1>6, <1>7, <1>8 DEF Says, Reported, Concluded
<1> QED BY <1>2, <1>3, <1>8

(* The next n-th callback of run r is added to the callbacks s of its      *)
(* product.                                                                *)
LEMMA CountedMore ==
    ASSUME NEW s \in Seq(Callback), NumberedIn(s), NEW c \in Callback, NEW r, c.run = r,
           NEW n, c.sequence = n, n = Cardinality(About(s, Len(s), r)) + 1
    PROVE  /\ Append(s, c) \in Seq(Callback) /\ NumberedIn(Append(s, c))
           /\ n \in Nat /\ n + 1 = Cardinality(About(Append(s, c), Len(Append(s, c)), r)) + 1
           /\ \A x : x # r => Cardinality(About(Append(s, c), Len(Append(s, c)), x))
                                = Cardinality(About(s, Len(s), x))
<1>1. PICK t : t = Append(s, c)
  OBVIOUS
<1>2. OneLonger(s, c, t) /\ NumberedIn(t)
  BY <1>1, CountMore, NumberMore
<1>3. /\ t \in Seq(Callback) /\ Cardinality(About(s, Len(s), r)) \in Nat
      /\ \A x : /\ Cardinality(About(s, Len(s), x)) \in Nat
                /\ Cardinality(About(t, Len(t), x))
                     = Cardinality(About(s, Len(s), x)) + IF x = c.run THEN 1 ELSE 0
  BY <1>2 DEF OneLonger
<1>4. /\ n + 1 = Cardinality(About(t, Len(t), r)) + 1
      /\ \A x : x # r => Cardinality(About(t, Len(t), x)) = Cardinality(About(s, Len(s), x))
  BY <1>3
<1> QED BY <1>1, <1>2, <1>3, <1>4

LEMMA SaysInOrder ==
    ASSUME TypeAndRuns, SentByOwner, FreshFit, CountsFit, UNCHANGED contextVars,
           NEW r \in Issued, r \notin builder.finished, NEW p \in Product, owner[r] = p,
           NEW n, n = builder.runs[r].sequence, Says(r, p, n)
    PROVE  CountsFit'
<1>1. sent \in [Product -> Seq(Callback)] /\ Issued' = Issued /\ UNCHANGED owner /\ Issued \subseteq Run
  BY RunFacts, SizesAssumption
  DEF TypeAndRuns, TypeInv, CallbackOK, Issued, contextVars, ContextOK, Run
<1>2. sent[p] \in Seq(Callback) /\ NumberedIn(sent[p]) /\ n = Cardinality(About(sent[p], Len(sent[p]), r)) + 1
  BY <1>1 DEF CountsFit
<1>3. ASSUME NEW s \in Seq(Callback), NumberedIn(s), sent' = [sent EXCEPT ![p] = s],
             NEW k, k = Cardinality(About(s, Len(s), r)) + 1,
             GoesOnFrom(builder, r, k) \/ IsOverIn(builder, r),
             \A x : x # r => Cardinality(About(s, Len(s), x)) = Cardinality(About(sent[p], Len(sent[p]), x))
      PROVE  CountsFit'
  <2>1. \A q \in Product : sent'[q] = IF q = p THEN s ELSE sent[q]
    BY <1>1, <1>3
  <2>2. \A x \in Issued \ {r} : /\ builder'.runs[x] = builder.runs[x]
                                /\ x \in builder'.finished <=> x \in builder.finished
    BY <1>1, <1>3 DEF GoesOnFrom, IsOverIn
  <2>3. r \notin builder'.finished => builder'.runs[r].sequence = k
    BY <1>3 DEF GoesOnFrom, IsOverIn
  <2>4. \A q \in Product : NumberedIn(sent'[q])
    BY <1>3, <2>1 DEF CountsFit
  <2>5. ASSUME NEW q \in Product, NEW x \in Issued \ builder'.finished, owner[x] = q
        PROVE  builder'.runs[x].sequence = Cardinality(About(sent'[q], Len(sent'[q]), x)) + 1
    <3>1. CASE x = r
      BY <1>3, <2>1, <2>3, <2>5, <3>1
    <3>2. CASE x # r
      <4>1. builder'.runs[x].sequence = Cardinality(About(sent[q], Len(sent[q]), x)) + 1
        BY <2>2, <2>5, <3>2 DEF CountsFit
      <4>2. Cardinality(About(sent'[q], Len(sent'[q]), x)) = Cardinality(About(sent[q], Len(sent[q]), x))
        BY <1>3, <2>1, <3>2
      <4> QED BY <4>1, <4>2
    <3> QED BY <3>1, <3>2
  <2> QED BY <1>1, <2>4, <2>5 DEF CountsFit
<1>4. CASE UNCHANGED callbackVars
  BY <1>1, <1>4 DEF CountsFit, callbackVars
<1>5. ASSUME NEW c \in Callback, c.run = r, c.sequence = n, sent' = [sent EXCEPT ![p] = Append(@, c)],
             GoesOnFrom(builder, r, n + 1) \/ IsOverIn(builder, r)
      PROVE  CountsFit'
  <2>1. PICK s : s = Append(sent[p], c)
    OBVIOUS
  <2>2. /\ s \in Seq(Callback) /\ NumberedIn(s) /\ n + 1 = Cardinality(About(s, Len(s), r)) + 1
        /\ \A x : x # r => Cardinality(About(s, Len(s), x)) = Cardinality(About(sent[p], Len(sent[p]), x))
    BY <1>2, <1>5, <2>1, CountedMore
  <2>3. sent' = [sent EXCEPT ![p] = s]
    BY <1>5, <2>1
  <2> QED BY <1>3, <1>5, <2>2, <2>3
<1>6. ASSUME NEW c \in Callback, NEW d \in Callback, c.run = r, c.sequence = n, d.run = r, d.sequence = n + 1,
             sent' = [sent EXCEPT ![p] = Append(Append(@, c), d)], GoesOnFrom(builder, r, n + 2)
      PROVE  CountsFit'
  <2>1. PICK s : s = Append(sent[p], c)
    OBVIOUS
  <2>2. /\ s \in Seq(Callback) /\ NumberedIn(s) /\ n + 1 = Cardinality(About(s, Len(s), r)) + 1 /\ n \in Nat
        /\ \A x : x # r => Cardinality(About(s, Len(s), x)) = Cardinality(About(sent[p], Len(sent[p]), x))
    BY <1>2, <1>6, <2>1, CountedMore
  <2>3. PICK t : t = Append(s, d)
    OBVIOUS
  <2>4. /\ t \in Seq(Callback) /\ NumberedIn(t) /\ (n + 1) + 1 = Cardinality(About(t, Len(t), r)) + 1
        /\ \A x : x # r => Cardinality(About(t, Len(t), x)) = Cardinality(About(s, Len(s), x))
    BY <1>6, <2>2, <2>3, CountedMore
  <2>5. sent' = [sent EXCEPT ![p] = t]
    BY <1>6, <2>1, <2>3
  <2>6. PICK k : k = n + 2
    OBVIOUS
  <2>7. k = Cardinality(About(t, Len(t), r)) + 1
    BY <2>2, <2>4, <2>6
  <2>8. \A x : x # r => Cardinality(About(t, Len(t), x)) = Cardinality(About(sent[p], Len(sent[p]), x))
    BY <2>2, <2>4
  <2>9. GoesOnFrom(builder, r, k)
    BY <1>6, <2>6
  <2> QED BY <1>3, <2>4, <2>5, <2>7, <2>8, <2>9
<1> QED BY <1>4, <1>5, <1>6 DEF Says, Reported, Concluded

LEMMA NumbersKept ==
    ASSUME TypeAndRuns, ExpirersIssued, NumberInv, [Next]_vars
    PROVE  NumberInv'
<1>1. /\ issued \in Nat /\ issued' \in Nat /\ issued <= issued' /\ Issued \subseteq Run
      /\ \A r \in Issued : owner'[r] = owner[r]
  BY ContextGrows
<1>2. crashes' = 0 => crashes = 0 /\ ~(Crash \/ Exit)
  BY FirstLifeAlone
<1>3. /\ sent \in [Product -> Seq(Callback)]
      /\ \A p \in Product : \A i \in 1 .. Len(sent[p]) : sent[p][i].run \in Issued
  BY DEF TypeAndRuns, TypeInv, CallbackOK, NumberInv, SentByOwner
<1>4. CASE UNCHANGED callbackVars
  <2>1. UNCHANGED <<builder, sent>> /\ Issued \subseteq Issued' /\ Issued' \subseteq Nat
    BY <1>1, <1>4 DEF callbackVars, Issued
  <2>2. SentByOwner'
    BY <1>1, <2>1 DEF NumberInv, SentByOwner
  <2>3. FreshFit'
    BY <2>1 DEF NumberInv, FreshFit
  <2>4. ASSUME crashes = 0 PROVE CountsFit'
    <3>1. CountsFit
      BY <2>4 DEF NumberInv
    <3> SUFFICES ASSUME NEW p \in Product, NEW r \in Issued' \ builder.finished, owner'[r] = p
                 PROVE  builder.runs[r].sequence = Cardinality(About(sent[p], Len(sent[p]), r)) + 1
      BY <2>1, <3>1 DEF CountsFit
    <3>2. CASE r \in Issued
      BY <1>1, <3>1, <3>2 DEF CountsFit
    <3>3. CASE r \notin Issued
      <4>1. r \in Run
        BY NewRuns
      <4>2. builder.runs[r].sequence = 1
        BY <3>3, <4>1 DEF NumberInv, FreshFit
      <4>3. About(sent[p], Len(sent[p]), r) = {}
        BY <1>3, <3>3 DEF About
      <4> QED BY <4>2, <4>3, FS_EmptySet
    <3> QED BY <3>2, <3>3
  <2> QED BY <1>2, <2>2, <2>3, <2>4 DEF NumberInv
<1>5. CASE Crash \/ Exit
  <2>1. sent' = sent /\ builder' = NewBuilder /\ UNCHANGED contextVars
    BY <1>5 DEF Crash, Exit, Stop
  <2>2. SentByOwner' /\ FreshFit'
    BY <2>1 DEF NumberInv, SentByOwner, FreshFit, contextVars, Issued, NewBuilder, Fresh
  <2> QED BY <1>2, <1>5, <2>2 DEF NumberInv
<1>6. ASSUME NEW e \in Event, e.run <= issued, Publish(e), UNCHANGED contextVars, ~UNCHANGED callbackVars
      PROVE  NumberInv'
  <2>1. PICK r, p, n : r = e.run /\ p = owner[e.run] /\ n = builder.runs[r].sequence
    OBVIOUS
  <2>2. /\ p \in Product /\ Says(r, p, n) /\ r \notin builder.finished
    BY <1>6, <2>1, PublishedCallbacks
  <2>3. r \in Issued /\ owner[r] = p
    BY <1>6, <2>1, RunFacts, SizesAssumption DEF Event, Run, Issued, TypeAndRuns, TypeInv, ContextOK
  <2>4. SentByOwner' /\ FreshFit'
    BY <1>6, <2>2, <2>3, SaysByOwner DEF NumberInv
  <2>5. CountsFit => CountsFit'
    BY <1>6, <2>1, <2>2, <2>3, SaysInOrder DEF NumberInv
  <2> QED BY <1>2, <2>4, <2>5 DEF NumberInv
<1> QED BY <1>4, <1>5, <1>6, Announced DEF vars

LEMMA NumbersHold == Spec => []NumberInv
<1>1. Init => NumberInv
  <2> SUFFICES ASSUME Init PROVE NumberInv
    OBVIOUS
  <2>1. sent = [p \in Product |-> << >>] /\ builder = NewBuilder /\ issued = 0 /\ Issued = {}
    BY DEF Init, Issued
  <2>2. \A p \in Product : Len(sent[p]) = 0
    BY <2>1
  <2>3. SentByOwner /\ CountsFit
    BY <2>1, <2>2 DEF SentByOwner, CountsFit, NumberedIn
  <2>4. FreshFit
    BY <2>1 DEF FreshFit, NewBuilder, Fresh
  <2> QED BY <2>3, <2>4 DEF NumberInv
<1>2. TypeAndRuns /\ Attended /\ NumberInv /\ [Next]_vars => NumberInv'
  BY NumbersKept DEF Attended
<1>3. Ground => TypeAndRuns
  BY DEF Ground
<1> QED BY <1>1, <1>2, <1>3, AttendedHolds, PTL DEF Spec

(* Until the server is restarted for the first time, the callbacks of a    *)
(* run are numbered from 1 in the order in which they enter the outbox,    *)
(* whichever threads announce them.  (A restarted server starts to count   *)
(* anew: the failure of a run it interrupted is numbered 1 again.)         *)
THEOREM NumbersFollowOrder == Spec => [](crashes = 0 => NumberedInOrder)
<1>1. TypeAndRuns /\ NumberInv => (crashes = 0 => NumberedInOrder)
  <2> SUFFICES ASSUME TypeAndRuns, NumberInv, crashes = 0, NEW p \in Product, NEW j \in DOMAIN sent[p]
               PROVE  sent[p][j].sequence = Cardinality({i \in 1 .. j : sent[p][i].run = sent[p][j].run})
    BY DEF NumberedInOrder
  <2>1. j \in 1 .. Len(sent[p])
    BY LenProperties DEF TypeAndRuns, TypeInv, CallbackOK
  <2> QED BY <2>1 DEF NumberInv, CountsFit, NumberedIn, About
<1> QED BY <1>1, NumbersHold, TypeAndRunsInvariant, PTL

-----------------------------------------------------------------------------
(* Sessions in progress.                                                   *)

Going(r) == \E p \in Product : sessions[p].run = r /\ sessions[p].status \in TimesOut

(* No session is taken up by a run, or taken up again.                     *)
Settling == \A p \in Product :
    \/ sessions'[p].run = NoRun
    \/ /\ sessions'[p].run = sessions[p].run
       /\ sessions'[p].status \in TimesOut => sessions[p].status \in TimesOut

LEMMA StepsSettle ==
    ASSUME TypeAndRuns, [Next]_vars, ~(AcceptAdd \/ ResumeReplace \/ Restore)
    PROVE  Settling /\ UNCHANGED contextVars
<1>1. ASSUME UNCHANGED sessions PROVE Settling
  BY <1>1 DEF Settling
<1>2. ASSUME StoreKeeps PROVE Settling
  BY <1>2 DEF Settling, StoreKeeps
<1>3. ASSUME NEW r \in Run, NEW change \in Changes \ {"Resume"}, NEW cause \in Causes, Apply(r, change, cause)
      PROVE  Settling
  BY <1>2, <1>3, ApplyKeeps
<1>4. CASE UNCHANGED vars
  BY <1>1, <1>4 DEF vars, storeVars
<1>5. CASE Loop
  BY <1>1, <1>5 DEF Loop, Submit, SubmitDev, AcceptCheck, Take, Register, Resume, ResumeCheck, Schedule, storeVars
<1>6. CASE StartUp
  <2>1. CASE RestoreAnnounce \/ Serve
    BY <1>1, <2>1 DEF RestoreAnnounce, Serve, storeVars
  <2>2. ASSUME NEW r \in Run, RestoreFail(r) PROVE Settling /\ UNCHANGED contextVars
    <3>1. "Fail" \in Changes \ {"Resume"} /\ "TIMEOUT" \in Causes
      BY DEF Changes, Causes
    <3> QED BY <1>1, <1>3, <2>2, <3>1 DEF RestoreFail, storeVars
  <2> QED BY <1>6, <2>1, <2>2 DEF StartUp
<1>7. ASSUME NEW w \in Worker, Work(w) PROVE Settling /\ UNCHANGED contextVars
  <2>1. UNCHANGED contextVars
    BY <1>7 DEF Work, Pick, Start, ReportStage, ReportTool, Report, Finish, PublishNews, Release, Forget
  <2>2. \/ UNCHANGED storeVars
        \/ workers[w].pc # "idle" /\ Apply(workers[w].run, "Start", "none")
        \/ \E change \in Outcomes(workers[w].round) :
              workers[w].pc # "idle" /\ Apply(workers[w].run, change, "JOB")
    BY <1>7 DEF Work, Pick, Start, ReportStage, ReportTool, Report, Finish, PublishNews, Release, Forget
  <2>3. workers[w].pc # "idle" => workers[w].run \in Run
    BY WorkersRun DEF TypeAndRuns
  <2>4. /\ "Start" \in Changes \ {"Resume"} /\ Outcomes(workers[w].round) \subseteq Changes \ {"Resume"}
        /\ "none" \in Causes /\ "JOB" \in Causes
    BY DEF Changes, Outcomes, Causes
  <2>5. CASE UNCHANGED storeVars
    BY <1>1, <2>1, <2>5 DEF storeVars
  <2>6. CASE workers[w].pc # "idle" /\ Apply(workers[w].run, "Start", "none")
    BY <1>3, <2>1, <2>3, <2>4, <2>6
  <2>7. ASSUME NEW change \in Outcomes(workers[w].round), workers[w].pc # "idle",
               Apply(workers[w].run, change, "JOB")
        PROVE  Settling
    BY <1>3, <2>3, <2>4, <2>7
  <2> QED BY <2>1, <2>2, <2>5, <2>6, <2>7
<1>8. ASSUME NEW e \in Expirers, Sweep(e) PROVE Settling /\ UNCHANGED contextVars
  <2>1. UNCHANGED contextVars
    BY <1>8 DEF Sweep, Scan, Expire, PublishTimeout
  <2>2. UNCHANGED storeVars \/ \E r \in Run : Apply(r, "Fail", "TIMEOUT")
    BY <1>8 DEF Sweep, Scan, Expire, PublishTimeout
  <2>3. "Fail" \in Changes \ {"Resume"} /\ "TIMEOUT" \in Causes
    BY DEF Changes, Causes
  <2> QED BY <1>1, <1>3, <2>1, <2>2, <2>3 DEF storeVars
<1>9. CASE Purge
  <2>1. \A p \in Product : sessions'[p] = sessions[p] \/ sessions'[p] = Absent
    BY <1>9 DEF Purge
  <2> QED BY <1>9, <2>1 DEF Purge, Settling, Absent
<1>10. CASE RetryArchive \/ Drain \/ \E r \in Run : BecomeOverdue(r)
  BY <1>1, <1>10 DEF RetryArchive, Drain, BecomeOverdue, storeVars
<1>11. CASE Crash \/ Exit
  BY <1>11 DEF Crash, Exit, Stop, Settling, Absent
<1>12. contextVars' = contextVars
  BY <1>4, <1>5, <1>6, <1>7, <1>8, <1>9, <1>10, <1>11
  DEF vars, Next, Loop, Submit, SubmitDev, AcceptCheck, Take, Register, Resume, ResumeCheck, Schedule,
      Purge, RetryArchive, Drain, BecomeOverdue, Crash, Exit, Stop, StartUp, RestoreAnnounce, Serve
<1> QED BY <1>4, <1>5, <1>6, <1>7, <1>8, <1>9, <1>10, <1>11, <1>12 DEF Next

(* A run that is added is a new one.                                       *)
LEMMA NewcomersAreNew ==
    ASSUME TypeAndRuns, AcceptAdd \/ ResumeReplace
    PROVE  /\ \A p \in Product : sessions'[p] = sessions[p] \/ sessions'[p].run \notin Issued
           /\ UNCHANGED <<callbackVars, poolVars, expirers, phase>>
           /\ \A r \in door'.todo : r \notin Issued
           /\ door'.fails = {} /\ door'.pc \in {"idle", "take"} /\ door.pc \in {"add", "resume"}
<1>1. issued \in Nat
  BY SizesAssumption DEF TypeAndRuns, TypeInv, ContextOK
<1>2. CASE AcceptAdd
  <2> DEFINE new == issued + 1 .. issued + Len(door.batch)
  <2>1. \A p \in Product : sessions'[p] = sessions[p] \/ \E r \in new : sessions'[p] = Accepted(r)
    BY <1>2 DEF AcceptAdd
  <2>2. \A r \in new : r \notin Issued
    BY <1>1 DEF Issued
  <2>3. \A r : Accepted(r).run = r
    BY DEF Accepted
  <2>4. door' = [Closed EXCEPT !.pc = "take", !.todo = new]
    BY <1>2 DEF AcceptAdd
  <2> HIDE DEF new
  <2>5. door'.todo = new /\ door'.fails = {} /\ door'.pc = "take"
    BY <2>4 DEF Closed
  <2>6. \A p \in Product : sessions'[p] = sessions[p] \/ sessions'[p].run \notin Issued
    BY <2>1, <2>2, <2>3
  <2>7. UNCHANGED <<callbackVars, poolVars, expirers, phase>> /\ door.pc = "add"
    BY <1>2 DEF AcceptAdd, lifeVars
  <2> QED BY <2>2, <2>5, <2>6, <2>7
<1>3. CASE ResumeReplace
  <2> DEFINE p == owner[door.run]
             new == issued + 1
             s == [Moved(sessions[p], "Resume") EXCEPT !.run = new]
  <2>1. CASE Applicable(door.run, "Resume") /\ sessions[p].round = door.round
    <3>1. /\ sessions' = [sessions EXCEPT ![p] = s]
          /\ door' = [Closed EXCEPT !.pc = "take", !.todo = {new}]
      BY <1>3, <2>1 DEF ResumeReplace, Set
    <3>2. p \in Product => s.run = new
      BY DEF Moved, TypeAndRuns, TypeInv, StoreOK, Session
    <3>3. new \notin Issued
      BY <1>1 DEF Issued
    <3> HIDE DEF s, new, p
    <3>4. \A q \in Product : sessions'[q] = IF q = p THEN s ELSE sessions[q]
      BY <3>1 DEF TypeAndRuns, TypeInv, StoreOK
    <3>5. door'.todo = {new} /\ door'.fails = {} /\ door'.pc = "take"
      BY <3>1 DEF Closed
    <3> QED BY <1>3, <3>2, <3>3, <3>4, <3>5 DEF ResumeReplace, lifeVars
  <2>2. CASE ~(Applicable(door.run, "Resume") /\ sessions[p].round = door.round)
    BY <1>3, <2>2 DEF ResumeReplace, Closed, storeVars, lifeVars
  <2> QED BY <2>1, <2>2
<1> QED BY <1>2, <1>3

(* Unless sessions are restored, a run that was issued before is not set   *)
(* going.                                                                  *)
LEMMA GoingIsOver ==
    ASSUME TypeAndRuns, [Next]_vars, ~Restore, NEW r \in Issued, ~Going(r)
    PROVE  ~Going(r)'
<1>1. r # NoRun
  BY DEF Issued, NoRun, TypeAndRuns, TypeInv, ContextOK
<1>2. CASE AcceptAdd \/ ResumeReplace
  BY <1>2, NewcomersAreNew DEF Going
<1>3. CASE ~(AcceptAdd \/ ResumeReplace)
  BY <1>1, <1>3, StepsSettle DEF Going, Settling
<1> QED BY <1>2, <1>3

-----------------------------------------------------------------------------
(* The ending of a run is the last of its callbacks.                       *)

EndsLast(s) == \A i, j \in 1 .. Len(s) : i < j /\ s[i].run = s[j].run => s[i].kind \notin Endings
ToldIn(s, r) == \E i \in 1 .. Len(s) : s[i].run = r /\ s[i].kind \in Endings

(* t is s with the callback c behind it.                                   *)
TellsMore(s, c, t) ==
    /\ t \in Seq(Callback)
    /\ \A x : ToldIn(t, x) <=> ToldIn(s, x) \/ (x = c.run /\ c.kind \in Endings)
    /\ EndsLast(s) /\ ~ToldIn(s, c.run) => EndsLast(t)

LEMMA ToldMore ==
    ASSUME NEW s \in Seq(Callback), NEW c \in Callback, NEW t, t = Append(s, c)
    PROVE  TellsMore(s, c, t)
<1>1. /\ t \in Seq(Callback) /\ Len(s) \in Nat /\ Len(t) = Len(s) + 1
      /\ \A j \in 1 .. Len(s) : t[j] = s[j]
      /\ t[Len(s) + 1] = c
  BY AppendProperties, LenProperties
<1>2. \A j \in 1 .. Len(t) : j \in 1 .. Len(s) \/ j = Len(s) + 1
  BY <1>1
<1>3. \A j \in 1 .. Len(s) : j \in 1 .. Len(t)
  BY <1>1
<1>4. Len(s) + 1 \in 1 .. Len(t)
  BY <1>1
<1>5. \A x : ToldIn(t, x) <=> ToldIn(s, x) \/ (x = c.run /\ c.kind \in Endings)
  BY <1>1, <1>2, <1>3, <1>4 DEF ToldIn
<1>6. ASSUME EndsLast(s), ~ToldIn(s, c.run) PROVE EndsLast(t)
  <2> SUFFICES ASSUME NEW i \in 1 .. Len(t), NEW j \in 1 .. Len(t), i < j, t[i].run = t[j].run
               PROVE  t[i].kind \notin Endings
    BY DEF EndsLast
  <2>1. i \in 1 .. Len(s)
    BY <1>1
  <2>2. CASE j \in 1 .. Len(s)
    BY <1>1, <1>6, <2>1, <2>2 DEF EndsLast
  <2>3. CASE j = Len(s) + 1
    BY <1>1, <1>6, <2>1, <2>3 DEF ToldIn
  <2> QED BY <1>2, <2>2, <2>3
<1> QED BY <1>1, <1>5, <1>6 DEF TellsMore

LEMMA ToldByProduct == TypeAndRuns => \A x : Told(x) <=> \E p \in Product : ToldIn(sent[p], x)
<1> SUFFICES ASSUME TypeAndRuns PROVE \A x : Told(x) <=> \E p \in Product : ToldIn(sent[p], x)
  OBVIOUS
<1>1. \A p \in Product : DOMAIN sent[p] = 1 .. Len(sent[p])
  BY LenProperties DEF TypeAndRuns, TypeInv, CallbackOK
<1> QED BY <1>1 DEF Told, ToldIn

(* Once a product's run was not told of, anything may be said of it.       *)
LEMMA SaysTold ==
    ASSUME TypeAndRuns, TypeAndRuns', \A q \in Product : EndsLast(sent[q]),
           NEW p \in Product, NEW r, ~Told(r), NEW n, Says(r, p, n)
    PROVE  /\ \A q \in Product : EndsLast(sent'[q])
           /\ \/ builder'.finished = builder.finished /\ \A x : Told(x)' <=> Told(x)
              \/ /\ builder'.finished = builder.finished \cup {r}
                 /\ \A x : Told(x)' <=> Told(x) \/ x = r
<1>1. sent \in [Product -> Seq(Callback)]
  BY DEF TypeAndRuns, TypeInv, CallbackOK
<1>2. sent[p] \in Seq(Callback) /\ ~ToldIn(sent[p], r) /\ EndsLast(sent[p])
  BY <1>1, ToldByProduct
<1>3. ASSUME NEW s, sent' = [sent EXCEPT ![p] = s], EndsLast(s),
             NEW last \in BOOLEAN, \A x : ToldIn(s, x) <=> ToldIn(sent[p], x) \/ (x = r /\ last)
      PROVE  /\ \A q \in Product : EndsLast(sent'[q])
             /\ \A x : Told(x)' <=> Told(x) \/ (x = r /\ last)
  <2>1. \A q \in Product : sent'[q] = IF q = p THEN s ELSE sent[q]
    BY <1>1, <1>3
  <2>2. \A x : Told(x) <=> \E q \in Product : ToldIn(sent[q], x)
    BY ToldByProduct
  <2>3. \A x : Told(x)' <=> \E q \in Product : ToldIn(sent'[q], x)
    <3>1. \A q \in Product : DOMAIN sent'[q] = 1 .. Len(sent'[q])
      BY LenProperties DEF TypeAndRuns, TypeInv, CallbackOK
    <3> QED BY <3>1 DEF Told, ToldIn
  <2> QED BY <1>3, <2>1, <2>2, <2>3
<1>4. CASE UNCHANGED callbackVars
  BY <1>4 DEF callbackVars, Told
<1>5. ASSUME NEW c \in Callback, c.run = r, c.kind \notin Endings, sent' = [sent EXCEPT ![p] = Append(@, c)]
      PROVE  (\A q \in Product : EndsLast(sent'[q])) /\ \A x : Told(x)' <=> Told(x)
  <2>1. PICK s : s = Append(sent[p], c)
    OBVIOUS
  <2>0. TellsMore(sent[p], c, s)
    BY <1>2, <1>5, <2>1, ToldMore
  <2>2. EndsLast(s) /\ \A x : ToldIn(s, x) <=> ToldIn(sent[p], x) \/ (x = r /\ FALSE)
    BY <1>2, <1>5, <2>0 DEF TellsMore
  <2>3. sent' = [sent EXCEPT ![p] = s]
    BY <1>5, <2>1
  <2> QED BY <1>3, <2>2, <2>3
<1>6. ASSUME NEW c \in Callback, c.run = r, c.kind \in Endings, sent' = [sent EXCEPT ![p] = Append(@, c)]
      PROVE  (\A q \in Product : EndsLast(sent'[q])) /\ \A x : Told(x)' <=> Told(x) \/ x = r
  <2>1. PICK s : s = Append(sent[p], c)
    OBVIOUS
  <2>0. TellsMore(sent[p], c, s)
    BY <1>2, <1>6, <2>1, ToldMore
  <2>2. EndsLast(s) /\ \A x : ToldIn(s, x) <=> ToldIn(sent[p], x) \/ (x = r /\ TRUE)
    BY <1>2, <1>6, <2>0 DEF TellsMore
  <2>3. sent' = [sent EXCEPT ![p] = s]
    BY <1>6, <2>1
  <2> QED BY <1>3, <2>2, <2>3
<1>7. ASSUME NEW c \in Callback, NEW d \in Callback, c.run = r, d.run = r, c.kind \notin Endings,
             d.kind \notin Endings, sent' = [sent EXCEPT ![p] = Append(Append(@, c), d)]
      PROVE  (\A q \in Product : EndsLast(sent'[q])) /\ \A x : Told(x)' <=> Told(x)
  <2>1. PICK s : s = Append(sent[p], c)
    OBVIOUS
  <2>0. TellsMore(sent[p], c, s)
    BY <1>2, <1>7, <2>1, ToldMore
  <2>2. /\ s \in Seq(Callback) /\ EndsLast(s) /\ ~ToldIn(s, r)
        /\ \A x : ToldIn(s, x) <=> ToldIn(sent[p], x)
    BY <1>2, <1>7, <2>0 DEF TellsMore
  <2>3. PICK t : t = Append(s, d)
    OBVIOUS
  <2>6. TellsMore(s, d, t)
    BY <1>7, <2>2, <2>3, ToldMore
  <2>4. EndsLast(t) /\ \A x : ToldIn(t, x) <=> ToldIn(sent[p], x) \/ (x = r /\ FALSE)
    BY <1>7, <2>2, <2>6 DEF TellsMore
  <2>5. sent' = [sent EXCEPT ![p] = t]
    BY <1>7, <2>1, <2>3
  <2> QED BY <1>3, <2>4, <2>5
<1>8. CASE \E c : Reported(c, r, n) /\ GoesOnFrom(builder, r, n + 1) /\ sent' = [sent EXCEPT ![p] = Append(@, c)]
  BY <1>5, <1>8 DEF Reported, GoesOnFrom
<1>9. CASE \E c, d : /\ Reported(c, r, n) /\ Reported(d, r, n + 1) /\ GoesOnFrom(builder, r, n + 2)
                     /\ sent' = [sent EXCEPT ![p] = Append(Append(@, c), d)]
  BY <1>7, <1>9 DEF Reported, GoesOnFrom
<1>10. CASE \E c : Concluded(c, r, n) /\ IsOverIn(builder, r) /\ sent' = [sent EXCEPT ![p] = Append(@, c)]
  BY <1>6, <1>10 DEF Concluded, IsOverIn
<1> QED BY <1>4, <1>8, <1>9, <1>10 DEF Says

(* Who can still say something of a run: who holds it, and who announces.  *)
Held(x)   == x \in BusyRuns \cup QueuedRuns \cup door.todo \cup door.fails
Speaks(x) == Held(x) \/ Announcer(x)

LEMMA PoolRests == /\ UNCHANGED workers => BusyRuns' = BusyRuns
                   /\ UNCHANGED queue => QueuedRuns' = QueuedRuns
  BY DEF BusyRuns, QueuedRuns

(* Nobody takes up a run issued before but the expirers, one in progress.  *)
LEMMA LoopSpeaks ==
    ASSUME TypeAndRuns, Loop, NEW x \in Issued, Speaks(x)' PROVE Speaks(x)
<1>1. /\ door = OpenedWith(door.pc, door.batch, door.run, door.round, door.todo, door.fails)
      /\ queue \in Seq(Run) /\ x # NoRun
  BY DEF TypeAndRuns, TypeInv, DoorOK, Door, OpenedWith, PoolOK, Issued, NoRun, ContextOK
<1>2. /\ UNCHANGED workers /\ BusyRuns' = BusyRuns /\ expirers' = expirers
  <2>1. UNCHANGED <<workers, expirers>>
    BY DEF Loop, Submit, SubmitDev, AcceptCheck, AcceptAdd, Take, ResumeReplace, Register, Resume, ResumeCheck,
           Schedule, poolVars
  <2> QED BY <2>1, PoolRests
<1>3. CASE AcceptAdd \/ ResumeReplace
  <2>1. x \notin door'.todo /\ door'.fails = {} /\ door'.pc # "announce" /\ QueuedRuns' = QueuedRuns
    BY <1>3, NewcomersAreNew DEF poolVars, QueuedRuns
  <2> QED BY <1>2, <2>1 DEF Speaks, Held, Announcer
<1>4. CASE Submit \/ SubmitDev \/ Resume
  <2>1. door'.todo = {} /\ door'.fails = {} /\ door'.pc # "announce" /\ QueuedRuns' = QueuedRuns
    <3>1. CASE Submit \/ SubmitDev
      <4>1. PICK batch : door' = [Closed EXCEPT !.pc = "add", !.batch = batch] /\ UNCHANGED queue
        BY <3>1 DEF Submit, SubmitDev, AcceptCheck, poolVars
      <4> QED BY <4>1, PoolRests DEF Closed
    <3>2. CASE Resume
      <4>1. PICK r, n : door' = [Closed EXCEPT !.pc = "resume", !.run = r, !.round = n] /\ UNCHANGED queue
        BY <3>2 DEF Resume, ResumeCheck, poolVars
      <4> QED BY <4>1, PoolRests DEF Closed
    <3> QED BY <1>4, <3>1, <3>2
  <2> QED BY <1>2, <2>1 DEF Speaks, Held, Announcer
<1>5. CASE Take
  <2>1. /\ door'.todo = door.todo /\ door'.fails = door.fails /\ door'.pc = "schedule"
        /\ QueuedRuns' = QueuedRuns
    BY <1>1, <1>5 DEF Take, poolVars, QueuedRuns, OpenedWith
  <2> QED BY <1>2, <2>1 DEF Speaks, Held, Announcer
<1>6. ASSUME NEW r \in Run, Schedule(r) PROVE Speaks(x)
  <2>1. /\ door'.todo = door.todo \ {r} /\ door'.fails = door.fails /\ door'.pc = "register"
        /\ r \in door.todo /\ queue' = Append(queue, r)
    BY <1>1, <1>6 DEF Schedule, OpenedWith
  <2>2. QueuedRuns' \subseteq QueuedRuns \cup {r}
    <3>1. PICK q : q = Append(queue, r)
      OBVIOUS
    <3>2. /\ Len(queue) \in Nat /\ DOMAIN queue = 1 .. Len(queue) /\ DOMAIN q = 1 .. Len(queue) + 1
          /\ q[Len(queue) + 1] = r /\ \A i \in 1 .. Len(queue) : q[i] = queue[i]
      BY <1>1, <3>1, AppendProperties, LenProperties
    <3> QED BY <2>1, <3>1, <3>2 DEF QueuedRuns
  <2> QED BY <1>2, <2>1, <2>2 DEF Speaks, Held, Announcer
<1>7. CASE Register
  <2>1. /\ door'.todo = door.todo /\ door'.fails = door.fails /\ door'.pc # "announce"
        /\ QueuedRuns' = QueuedRuns
    BY <1>1, <1>7 DEF Register, QueuedRuns, OpenedWith
  <2> QED BY <1>2, <2>1 DEF Speaks, Held, Announcer
<1> QED BY <1>3, <1>4, <1>5, <1>6, <1>7 DEF Loop

LEMMA StartUpSpeaks ==
    ASSUME TypeAndRuns, StartUp, ~Restore, NEW x \in Issued, Speaks(x)' PROVE Speaks(x)
<1>1. /\ door = OpenedWith(door.pc, door.batch, door.run, door.round, door.todo, door.fails)
      /\ x # NoRun
  BY DEF TypeAndRuns, TypeInv, DoorOK, Door, OpenedWith, Issued, NoRun, ContextOK
<1>2. BusyRuns' = BusyRuns /\ QueuedRuns' = QueuedRuns /\ expirers' = expirers
  BY PoolRests DEF StartUp, RestoreAnnounce, Serve, RestoreFail, poolVars
<1>3. CASE Serve
  BY <1>2, <1>3 DEF Serve, Speaks, Held, Announcer
<1>4. CASE RestoreAnnounce
  <2>1. door'.todo = door.todo /\ door'.fails = door.fails /\ door'.pc # "announce"
    BY <1>1, <1>4 DEF RestoreAnnounce, OpenedWith
  <2> QED BY <1>2, <2>1 DEF Speaks, Held, Announcer
<1>5. ASSUME NEW r \in Run, RestoreFail(r) PROVE Speaks(x)
  <2>1. /\ r \in door.fails /\ door'.todo = door.todo /\ door'.fails = door.fails \ {r}
        /\ door'.pc # "announce" \/ door'.run = r
    BY <1>1, <1>5 DEF RestoreFail, OpenedWith
  <2> QED BY <1>2, <2>1 DEF Speaks, Held, Announcer
<1> QED BY <1>3, <1>4, <1>5 DEF StartUp

LEMMA WorkSpeaks ==
    ASSUME TypeAndRuns, NEW w \in Worker, Work(w), NEW x \in Issued, Speaks(x)' PROVE Speaks(x)
<1>1. x # NoRun /\ queue \in Seq(Run) /\ workers \in [Worker -> Working]
  BY DEF TypeAndRuns, TypeInv, PoolOK, Issued, NoRun, ContextOK
<1>2. door' = door /\ expirers' = expirers
  BY DEF Work, Pick, Start, ReportStage, ReportTool, Report, Finish, PublishNews, Release, Forget
<1>3. CASE Pick(w)
  <2>1. PICK r : r = Head(queue)
    OBVIOUS
  <2>2. r \in QueuedRuns /\ QueuedRuns' \subseteq QueuedRuns
    <3>1. /\ Len(queue) \in Nat \ {0} /\ DOMAIN queue = 1 .. Len(queue)
          /\ r = queue[1] /\ DOMAIN queue' = 1 .. Len(queue) - 1
          /\ \A i \in 1 .. Len(queue) - 1 : queue'[i] = queue[i + 1]
      BY <1>1, <1>3, <2>1, EmptySeq, LenProperties, HeadTailProperties DEF Pick
    <3> QED BY <3>1 DEF QueuedRuns
  <2>3. \A v \in Worker : workers'[v].run \in {workers[v].run, r}
    BY <1>1, <1>3, <2>1 DEF Pick
  <2>4. BusyRuns' \subseteq BusyRuns \cup {r}
    BY <2>3 DEF BusyRuns
  <2> QED BY <1>2, <2>2, <2>4 DEF Speaks, Held, Announcer
<1>4. CASE ~Pick(w)
  <2>1. WorkersKeepRuns /\ UNCHANGED queue
    BY <1>4, WorkersKeep DEF Work, ReportStage, ReportTool, Start, Report, Finish, PublishNews, Release, Forget,
                             TypeAndRuns
  <2>2. BusyRuns' \subseteq BusyRuns /\ QueuedRuns' = QueuedRuns
    BY <2>1 DEF WorkersKeepRuns, BusyRuns, QueuedRuns
  <2> QED BY <1>2, <2>2 DEF Speaks, Held, Announcer
<1> QED BY <1>3, <1>4

LEMMA SweepSpeaks ==
    ASSUME TypeAndRuns, ExpirersIssued, NEW e \in Expirers, Sweep(e), NEW x \in Issued, Speaks(x)'
    PROVE  Speaks(x) \/ Going(x)
<1>1. x # NoRun /\ expirers \in [Expirers -> Expirer]
  BY DEF TypeAndRuns, TypeInv, ExpirersOK, Issued, NoRun, ContextOK
<1>2. door' = door /\ BusyRuns' = BusyRuns /\ QueuedRuns' = QueuedRuns
  BY PoolRests DEF Sweep, Scan, Expire, PublishTimeout, poolVars
<1>3. CASE Scan(e) \/ PublishTimeout(e)
  <2>1. expirers'[e].run = NoRun /\ \A f \in Expirers \ {e} : expirers'[f] = expirers[f]
    BY <1>1, <1>3 DEF Scan, PublishTimeout, Resting, Expirer
  <2> QED BY <1>1, <1>2, <2>1 DEF Speaks, Held, Announcer
<1>4. ASSUME NEW r \in Run, Expire(e, r) PROVE Speaks(x) \/ Going(x)
  <2>1. CASE Applicable(r, "Fail")
    <3>1. /\ r \in Issued /\ r \in expirers[e].todo
      BY <1>4, RunFacts DEF Expire, ExpirersIssued, Issued, TypeAndRuns, TypeInv, ContextOK, Run
    <3>2. Going(r)
      BY <2>1, <3>1 DEF Applicable, Going, Sources, TimesOut, TypeAndRuns, RunsIssued, OwnersKnown
    <3>3. \A f \in Expirers : expirers'[f].run \in {expirers[f].run, r}
      BY <1>1, <1>4, <2>1 DEF Expire, Expirer
    <3> QED BY <1>2, <3>2, <3>3 DEF Speaks, Held, Announcer
  <2>2. CASE ~Applicable(r, "Fail")
    <3>1. \A f \in Expirers : expirers'[f].run = expirers[f].run
      BY <1>1, <1>4, <2>2 DEF Expire, Expirer
    <3> QED BY <1>2, <3>1 DEF Speaks, Held, Announcer
  <2> QED BY <2>1, <2>2
<1> QED BY <1>3, <1>4 DEF Sweep

LEMMA SpeakersStay ==
    ASSUME TypeAndRuns, ExpirersIssued, [Next]_vars, ~Restore, NEW x \in Issued, Speaks(x)'
    PROVE  Speaks(x) \/ Going(x)
<1>1. x # NoRun /\ expirers \in [Expirers -> Expirer]
  BY DEF TypeAndRuns, TypeInv, ExpirersOK, Issued, NoRun, ContextOK
<1>2. CASE UNCHANGED vars \/ RetryArchive \/ \E r \in Run : BecomeOverdue(r)
  BY <1>2 DEF vars, poolVars, RetryArchive, BecomeOverdue, Speaks, Held, Announcer, BusyRuns, QueuedRuns
<1>3. CASE Purge
  <2>1. \A f \in Expirers : expirers'[f].run \in {expirers[f].run, NoRun}
    BY <1>1, <1>3 DEF Purge, Resting
  <2> QED BY <1>1, <1>3, <2>1 DEF Purge, poolVars, Speaks, Held, Announcer, BusyRuns, QueuedRuns
<1>4. CASE Drain
  <2>1. QueuedRuns' = {}
    BY <1>4 DEF Drain, QueuedRuns
  <2> QED BY <1>4, <2>1 DEF Drain, Speaks, Held, Announcer, BusyRuns
<1>5. CASE Crash \/ Exit
  <2>1. QueuedRuns' = {} /\ BusyRuns' = {}
    BY <1>5 DEF Crash, Exit, Stop, QueuedRuns, BusyRuns, Idle
  <2> QED BY <1>1, <1>5, <2>1 DEF Crash, Exit, Stop, Closed, Resting, Speaks, Held, Announcer
<1>6. CASE Loop \/ StartUp
  BY <1>6, LoopSpeaks, StartUpSpeaks
<1>7. CASE \E w \in Worker : Work(w)
  BY <1>7, WorkSpeaks
<1>8. CASE \E e \in Expirers : Sweep(e)
  BY <1>8, SweepSpeaks
<1> QED BY <1>2, <1>3, <1>4, <1>5, <1>6, <1>7, <1>8 DEF Next

(* Whoever is about to announce a run has failed its session.              *)
LEMMA FailedIsOver ==
    ASSUME TypeAndRuns, OwnersMatch, NEW r \in Issued, UNCHANGED owner, Apply(r, "Fail", "TIMEOUT")
    PROVE  ~Going(r)'
<1>1. "Fail" \in Changes \ {"Resume"} /\ "TIMEOUT" \in Causes /\ Target["Fail"] = "FAILED"
      /\ r \in Run /\ r <= issued
  BY SizesAssumption DEF Changes, Causes, Target, Issued, Run, TypeAndRuns, TypeInv, ContextOK
<1>2. /\ sessions'[owner[r]].status = "FAILED"
      /\ \A p \in Product : p # owner[r] => sessions'[p].run # r
  BY <1>1, ApplyMoves
<1> QED BY <1>2 DEF Going, TimesOut

LEMMA AnnouncersSettle ==
    ASSUME TypeAndRuns, OwnersMatch, ExpirersIssued, [Next]_vars, ~Restore, NEW x \in Run, Announcer(x)'
    PROVE  Announcer(x) \/ ~Going(x)'
<1>1. /\ x # NoRun /\ expirers \in [Expirers -> Expirer]
      /\ door = OpenedWith(door.pc, door.batch, door.run, door.round, door.todo, door.fails)
  BY RunFacts DEF TypeAndRuns, TypeInv, ExpirersOK, DoorOK, Door, OpenedWith
<1>2. CASE UNCHANGED <<door, expirers>>
  BY <1>2 DEF Announcer
<1>3. CASE Loop
  <2>1. expirers' = expirers
    BY <1>3 DEF Loop, Submit, SubmitDev, AcceptCheck, AcceptAdd, Take, ResumeReplace, Register, Resume,
                ResumeCheck, Schedule
  <2>2. CASE AcceptAdd \/ ResumeReplace
    BY <2>1, <2>2, NewcomersAreNew DEF Announcer
  <2>3. CASE Submit \/ SubmitDev
    <3>1. PICK batch : door' = [Closed EXCEPT !.pc = "add", !.batch = batch]
      BY <2>3 DEF Submit, SubmitDev, AcceptCheck
    <3> QED BY <2>1, <3>1 DEF Closed, Announcer
  <2>4. CASE Resume
    <3>1. PICK r, n : door' = [Closed EXCEPT !.pc = "resume", !.run = r, !.round = n]
      BY <2>4 DEF Resume, ResumeCheck
    <3> QED BY <2>1, <3>1 DEF Closed, Announcer
  <2>5. CASE Take \/ Register \/ \E r \in Run : Schedule(r)
    <3>1. door'.pc # "announce"
      BY <1>1, <2>5 DEF Take, Register, Schedule, OpenedWith
    <3> QED BY <2>1, <3>1 DEF Announcer
  <2> QED BY <1>3, <2>2, <2>3, <2>4, <2>5 DEF Loop
<1>4. CASE StartUp
  <2>1. CASE RestoreAnnounce
    <3>1. door'.pc # "announce"
      BY <1>1, <2>1 DEF RestoreAnnounce, OpenedWith
    <3> QED BY <2>1, <3>1 DEF RestoreAnnounce, Announcer
  <2>2. ASSUME NEW r \in Run, RestoreFail(r) PROVE Announcer(x) \/ ~Going(x)'
    <3>1. r \in Issued /\ UNCHANGED contextVars /\ expirers' = expirers
      BY <2>2, RunFacts DEF RestoreFail, TypeAndRuns, RunsIssued, DoorIssued, Issued, Run, TypeInv, ContextOK
    <3>2. CASE Applicable(r, "Fail")
      <4>1. Apply(r, "Fail", "TIMEOUT") /\ door'.run = r
        BY <1>1, <2>2, <3>2 DEF RestoreFail, OpenedWith
      <4> QED BY <3>1, <4>1, FailedIsOver DEF contextVars, Announcer
    <3>3. CASE ~Applicable(r, "Fail")
      <4>1. door'.pc # "announce"
        BY <1>1, <2>2, <3>3 DEF RestoreFail, OpenedWith
      <4> QED BY <3>1, <4>1 DEF Announcer
    <3> QED BY <3>2, <3>3
  <2>3. CASE Serve
    BY <1>2, <2>3 DEF Serve
  <2> QED BY <1>4, <2>1, <2>2, <2>3 DEF StartUp
<1>5. ASSUME NEW e \in Expirers, Sweep(e) PROVE Announcer(x) \/ ~Going(x)'
  <2>1. door' = door
    BY <1>5 DEF Sweep, Scan, Expire, PublishTimeout
  <2>2. CASE Scan(e) \/ PublishTimeout(e)
    <3>1. expirers'[e].run = NoRun /\ \A f \in Expirers \ {e} : expirers'[f] = expirers[f]
      BY <1>1, <2>2 DEF Scan, PublishTimeout, Resting, Expirer
    <3> QED BY <1>1, <2>1, <3>1 DEF Announcer
  <2>3. ASSUME NEW r \in Run, Expire(e, r) PROVE Announcer(x) \/ ~Going(x)'
    <3>1. r \in Issued /\ UNCHANGED contextVars
      BY <2>3, RunFacts DEF Expire, ExpirersIssued, Issued, Run, TypeAndRuns, TypeInv, ContextOK
    <3>2. CASE Applicable(r, "Fail")
      <4>1. Apply(r, "Fail", "TIMEOUT") /\ \A f \in Expirers : expirers'[f].run \in {expirers[f].run, r}
        BY <1>1, <2>3, <3>2 DEF Expire, Expirer
      <4>2. ~Going(r)'
        BY <3>1, <4>1, FailedIsOver DEF contextVars
      <4> QED BY <2>1, <4>1, <4>2 DEF Announcer
    <3>3. CASE ~Applicable(r, "Fail")
      <4>1. \A f \in Expirers : expirers'[f].run = expirers[f].run
        BY <1>1, <2>3, <3>3 DEF Expire, Expirer
      <4> QED BY <2>1, <4>1 DEF Announcer
    <3> QED BY <3>2, <3>3
  <2> QED BY <1>5, <2>2, <2>3 DEF Sweep
<1>6. CASE Purge
  <2>1. \A f \in Expirers : expirers'[f].run \in {expirers[f].run, NoRun}
    BY <1>1, <1>6 DEF Purge, Resting
  <2> QED BY <1>1, <1>6, <2>1 DEF Purge, Announcer
<1>7. CASE Crash \/ Exit
  BY <1>1, <1>7 DEF Crash, Exit, Stop, Closed, Resting, Announcer
<1>8. CASE UNCHANGED vars \/ RetryArchive \/ Drain \/ \E r \in Run : BecomeOverdue(r)
  BY <1>2, <1>8 DEF vars, RetryArchive, Drain, BecomeOverdue
<1>9. ASSUME NEW w \in Worker, Work(w) PROVE UNCHANGED <<door, expirers>>
  BY <1>9 DEF Work, Pick, Start, ReportStage, ReportTool, Report, Finish, PublishNews, Release, Forget
<1> QED BY <1>2, <1>3, <1>4, <1>5, <1>6, <1>7, <1>8, <1>9 DEF Next

-----------------------------------------------------------------------------
(* The archive, when the server is down.                                   *)

LEMMA ArchiveSteps ==
    ASSUME [Next]_vars PROVE UNCHANGED archive \/ \E changed : Persist(changed)
<1>1. ASSUME NEW r, NEW change, NEW cause, Apply(r, change, cause) PROVE \E changed : Persist(changed)
  BY <1>1 DEF Apply, Set
<1>2. CASE Loop
  BY <1>2 DEF Loop, Submit, SubmitDev, AcceptCheck, AcceptAdd, Take, ResumeReplace, Register, Resume,
              ResumeCheck, Schedule, Set, storeVars
<1>3. CASE StartUp
  BY <1>1, <1>3 DEF StartUp, Restore, Boot, RestoreAnnounce, Serve, RestoreFail, storeVars
<1>4. ASSUME NEW w \in Worker, Work(w) PROVE UNCHANGED archive \/ \E changed : Persist(changed)
  BY <1>1, <1>4 DEF Work, Pick, Start, ReportStage, ReportTool, Report, Finish, PublishNews, Release, Forget,
                    storeVars
<1>5. ASSUME NEW e \in Expirers, Sweep(e) PROVE UNCHANGED archive \/ \E changed : Persist(changed)
  BY <1>1, <1>5 DEF Sweep, Scan, Expire, PublishTimeout, storeVars
<1>6. CASE UNCHANGED vars \/ Purge \/ RetryArchive \/ Drain \/ Crash \/ Exit \/ \E r \in Run : BecomeOverdue(r)
  BY <1>6 DEF vars, Purge, RetryArchive, Drain, Crash, Exit, Stop, BecomeOverdue, storeVars
<1> QED BY <1>2, <1>3, <1>4, <1>5, <1>6 DEF Next

(* Without a database nothing is archived.                                 *)
Unarchived == ~Restorable => \A p \in Product : archive[p] = Absent

LEMMA UnarchivedStays == ASSUME Unarchived, [Next]_vars PROVE Unarchived'
<1>1. CASE UNCHANGED archive
  BY <1>1 DEF Unarchived
<1>2. ASSUME NEW changed, Persist(changed) PROVE Unarchived'
  <2> SUFFICES ASSUME ~Restorable PROVE \A p \in Product : archive'[p] = Absent
    BY DEF Unarchived
  <2>1. \A p \in Product : archive'[p] = archive[p]
    BY <1>2 DEF Persist
  <2> QED BY <2>1 DEF Unarchived
<1> QED BY <1>1, <1>2, ArchiveSteps

(* With an archive that does not fail, a row in progress is that of a      *)
(* session in progress.                                                    *)
LEMMA RowsAreGoing ==
    ASSUME MirrorInv, Unarchived, ~ArchiveMayFail, phase # "down", NEW p \in Product,
           archive[p].status \in TimesOut
    PROVE  sessions[p] = archive[p]
<1>1. archive[p] # Absent
  BY DEF Absent, TimesOut
<1>2. CASE Restorable
  <2>1. archive[p] = Row(p, sessions[p])
    BY <1>2 DEF MirrorInv, Mirror
  <2> QED BY <1>1, <2>1 DEF Row
<1> QED BY <1>1, <1>2, SizesAssumption DEF Unarchived

(* The server stops and is started by steps of their own.                  *)
LEMMA PhaseSteps ==
    ASSUME [Next]_vars
    PROVE  /\ phase' = "down" => phase = "down" \/ Crash \/ Exit
           /\ phase = "down" /\ phase' # "down" => Restore
<1>1. CASE UNCHANGED vars
  BY <1>1 DEF vars, lifeVars
<1>2. CASE Loop
  BY <1>2 DEF Loop, Submit, SubmitDev, AcceptCheck, AcceptAdd, Take, ResumeReplace, Register, Resume,
              ResumeCheck, Schedule, lifeVars
<1>3. CASE StartUp
  BY <1>3 DEF StartUp, Restore, Boot, RestoreAnnounce, Serve, RestoreFail, lifeVars
<1>4. CASE \E w \in Worker : Work(w)
  BY <1>4 DEF Work, Pick, Start, ReportStage, ReportTool, Report, Finish, PublishNews, Release, Forget, lifeVars
<1>5. CASE \E e \in Expirers : Sweep(e)
  BY <1>5 DEF Sweep, Scan, Expire, PublishTimeout, lifeVars
<1>6. CASE Purge \/ RetryArchive \/ Drain \/ \E r \in Run : BecomeOverdue(r)
  BY <1>6 DEF Purge, RetryArchive, Drain, BecomeOverdue, lifeVars
<1>7. CASE Crash \/ Exit
  BY <1>7 DEF Crash, Exit, Stop
<1> QED BY <1>1, <1>2, <1>3, <1>4, <1>5, <1>6, <1>7 DEF Next

(* In a stopped server nothing happens until it is started.                *)
LEMMA DownIsStill ==
    ASSUME TypeAndRuns, Still, [Next]_vars, phase = "down", phase' = "down"
    PROVE  UNCHANGED <<archive, callbackVars>>
<1>1. queue = << >> /\ door.pc = "idle" /\ ~(Crash \/ Exit)
  BY DEF Still, Crash, Exit, Stop
<1>2. /\ \A w \in Worker : workers[w].pc = "idle"
      /\ \A e \in Expirers : expirers[e].pc = "idle"
  BY DEF Still
<1>3. ~Loop
  BY <1>1 DEF Loop, Submit, SubmitDev, AcceptCheck, AcceptAdd, Take, ResumeReplace, Register, Resume,
              ResumeCheck, Schedule
<1>4. ~StartUp
  BY <1>1 DEF StartUp, Restore, Boot, RestoreAnnounce, Serve, RestoreFail
<1>5. \A w \in Worker : ~Work(w)
  BY <1>1, <1>2 DEF Work, Pick, Start, ReportStage, ReportTool, Report, Finish, PublishNews, Release, Forget
<1>6. \A e \in Expirers : ~Sweep(e)
  BY <1>2 DEF Sweep, Scan, Expire, PublishTimeout
<1>7. ~(Purge \/ RetryArchive \/ Drain)
  BY <1>2 DEF Purge, RetryArchive, Drain, Expirers
<1>8. UNCHANGED vars \/ \E r \in Run : BecomeOverdue(r)
  BY <1>1, <1>3, <1>4, <1>5, <1>6, <1>7 DEF Next
<1> QED BY <1>8 DEF vars, BecomeOverdue, storeVars

-----------------------------------------------------------------------------
(* The ending of a run is the last of its callbacks, proved.               *)

(* A database that fails may bring a session back that had ended, so what  *)
(* is said of endings holds with one that does not fail, and with any      *)
(* until the first restart.                                                *)
Reliable == ~ArchiveMayFail \/ crashes = 0

(* A run whose ending was told has ended and will not be told of again:    *)
(* the builder knows it has finished, or nobody can say anything of it;    *)
(* nor will a restart bring it back.                                       *)
Closure(x) == /\ Told(x) => ~Going(x) /\ (x \in builder.finished \/ ~Speaks(x))
              /\ x \in builder.finished => Told(x)
              /\ Announcer(x) => ~Going(x)
              /\ phase = "down" /\ Told(x) =>
                   \A p \in Product : archive[p].run = x => archive[p].status \notin TimesOut

EndInv == Reliable => /\ \A p \in Product : EndsLast(sent[p])
                      /\ \A x \in Run : Closure(x)

(* All that was shown of the manager so far.                               *)
Standing == Ground /\ Attended /\ MirrorInv /\ Unarchived /\ CauseInv /\ NumberInv

LEMMA StandingHolds == Spec => []Standing
<1>1. Init => Unarchived
  BY DEF Init, Unarchived
<1>2. Unarchived /\ [Next]_vars => Unarchived'
  BY UnarchivedStays
<1>3. Spec => []Unarchived
  BY <1>1, <1>2, PTL DEF Spec
<1> QED BY <1>3, AttendedHolds, MirrorHolds, CausesHold, NumbersHold, PTL DEF Standing

LEMMA ToldWereIssued == ASSUME Standing, NEW x, Told(x) PROVE x \in Issued
<1>1. \A p \in Product : DOMAIN sent[p] = 1 .. Len(sent[p])
  BY LenProperties DEF Standing, Ground, TypeAndRuns, TypeInv, CallbackOK
<1> QED BY <1>1 DEF Told, Standing, NumberInv, SentByOwner

LEMMA ReliableBefore == ASSUME TypeAndRuns, [Next]_vars, Reliable' PROVE Reliable
  BY FirstLifeAlone DEF Reliable

(* A stop: nobody says anything any more, and no run that is over is       *)
(* archived.                                                               *)
LEMMA StopCloses ==
    ASSUME Standing, EndInv, Crash \/ Exit, Reliable' PROVE EndInv'
<1>1. /\ sent' = sent /\ builder' = NewBuilder /\ UNCHANGED archive /\ crashes' = crashes + 1
      /\ phase # "down" /\ door' = Closed /\ expirers' = [e \in Expirers |-> Resting]
      /\ queue' = << >> /\ workers' = [w \in Worker |-> Idle] /\ sessions' = [p \in Product |-> Absent]
  BY DEF Crash, Exit, Stop
<1>2. crashes \in Nat /\ [Next]_vars /\ TypeAndRuns
  BY DEF Standing, Ground, TypeAndRuns, TypeInv, LifeOK, Next
<1>3. ~ArchiveMayFail /\ Reliable
  BY <1>1, <1>2, ReliableBefore DEF Reliable
<1>4. \A x : Told(x)' <=> Told(x)
  BY <1>1 DEF Told
<1>5. ASSUME NEW x \in Run PROVE Closure(x)'
  <2>1. ~Speaks(x)' /\ ~Going(x)' /\ ~Announcer(x)'
    <3>1. QueuedRuns' = {} /\ BusyRuns' = {} /\ x # NoRun
      BY <1>1, RunFacts DEF QueuedRuns, BusyRuns, Idle
    <3> QED BY <1>1, <3>1 DEF Speaks, Held, Going, Announcer, Closed, Resting, Absent, TimesOut
  <2>2. x \notin builder'.finished
    BY <1>1 DEF NewBuilder
  <2>3. ASSUME Told(x), NEW p \in Product, archive[p].run = x PROVE archive[p].status \notin TimesOut
    <3>1. ~Going(x)
      BY <1>3, <2>3 DEF EndInv, Closure
    <3> QED BY <1>1, <1>3, <2>3, <3>1, RowsAreGoing DEF Going, Standing
  <2> QED BY <1>1, <1>4, <2>1, <2>2, <2>3 DEF Closure
<1> QED BY <1>1, <1>3, <1>5 DEF EndInv

(* A restart: what comes back has not ended.                               *)
LEMMA RestoreCloses ==
    ASSUME Standing, EndInv, Restore, Reliable' PROVE EndInv'
<1>1. /\ phase = "down" /\ phase' = "starting" /\ UNCHANGED <<callbackVars, poolVars, expirers, crashes>>
  BY DEF Restore, Boot
<1>2. ~ArchiveMayFail
  BY <1>1 DEF Reliable, Standing, CauseInv, FirstLife
<1>3. Boot(archive) /\ Reliable
  BY <1>2 DEF Restore, Reliable
<1>4. /\ sessions' = archive
      /\ \A x \in door'.todo \cup door'.fails :
           \E p \in Product : archive[p].run = x /\ archive[p].status \in TimesOut
      /\ door'.pc # "announce"
  <2> DEFINE runnable    == {archive[p].run : p \in {q \in Product : Runnable(archive[q])}}
             interrupted == {archive[p].run : p \in {q \in Product : Interrupted(archive[q])}}
  <2>1. /\ sessions' = archive
        /\ door' = IF runnable \cup interrupted = {} THEN Closed
                   ELSE [Closed EXCEPT !.pc = "schedule", !.todo = runnable, !.fails = interrupted]
    BY <1>3 DEF Boot
  <2>2. \A x \in runnable \cup interrupted :
          \E p \in Product : archive[p].run = x /\ archive[p].status \in TimesOut
    BY DEF Runnable, Interrupted, TimesOut
  <2> HIDE DEF runnable, interrupted
  <2>3. door'.todo \cup door'.fails \subseteq runnable \cup interrupted /\ door'.pc # "announce"
    BY <2>1 DEF Closed
  <2> QED BY <2>1, <2>2, <2>3
<1>5. ASSUME NEW x \in Run PROVE Closure(x)'
  <2>1. /\ Told(x)' <=> Told(x)
        /\ builder' = builder
    BY <1>1 DEF Told, callbackVars
  <2>2. Closure(x)
    BY <1>3 DEF EndInv
  <2>3. Told(x) => \A p \in Product : archive[p].run = x => archive[p].status \notin TimesOut
    BY <1>1, <2>2 DEF Closure
  <2>4. Told(x) => ~Going(x)'
    BY <1>4, <2>3 DEF Going
  <2>5. ~Announcer(x)'
    <3>1. x # NoRun /\ \A e \in Expirers : expirers[e].run = NoRun
      BY <1>1, RunFacts DEF Standing, Ground, Still, TypeAndRuns, TypeInv, ExpirersOK, Expirer
    <3> QED BY <1>1, <1>4, <3>1 DEF Announcer
  <2>6. ~(x \in BusyRuns' \cup QueuedRuns')
    <3>1. QueuedRuns' = QueuedRuns /\ BusyRuns' = BusyRuns
      BY <1>1, PoolRests DEF poolVars
    <3>2. queue = << >> /\ \A w \in Worker : workers[w].run = NoRun
      BY <1>1 DEF Standing, Ground, Still, TypeAndRuns, TypeInv, PoolOK, Working
    <3>3. QueuedRuns = {} /\ BusyRuns = {}
      BY <3>2 DEF QueuedRuns, BusyRuns
    <3> QED BY <3>1, <3>3
  <2>7. Told(x) => ~Speaks(x)'
    BY <1>4, <2>3, <2>5, <2>6 DEF Speaks, Held
  <2> QED BY <1>1, <2>1, <2>2, <2>4, <2>5, <2>7 DEF Closure
<1>6. \A p \in Product : EndsLast(sent'[p])
  BY <1>1, <1>3 DEF EndInv, callbackVars
<1> QED BY <1>5, <1>6 DEF EndInv

(* Any other step tells of the runs of a set, which were issued and have   *)
(* ended, and of no others.                                                *)
TellsOf(told) ==
    /\ told \subseteq Issued /\ \A x \in told : ~Going(x)
    /\ \A p \in Product : EndsLast(sent'[p])
    /\ \A x : Told(x)' <=> Told(x) \/ x \in told
    /\ builder'.finished = builder.finished \cup told
    /\ told # {} => phase # "down"

LEMMA StepCloses ==
    ASSUME Standing, EndInv, [Next]_vars, ~(Crash \/ Exit), ~Restore, Reliable, NEW told, TellsOf(told)
    PROVE  EndInv'
<1> USE DEF TellsOf
<1>1. TypeAndRuns /\ Still /\ OwnersMatch /\ ExpirersIssued /\ Issued \subseteq Run
  BY ContextGrows DEF Standing, Ground, Attended
<1>2. phase' = "down" => phase = "down"
  BY PhaseSteps
<1>3. ASSUME NEW x \in Run PROVE Closure(x)'
  <2>1. Closure(x)
    BY DEF EndInv
  <2>2. Told(x)' => x \in Issued /\ ~Going(x)
    BY <2>1, ToldWereIssued DEF Closure
  <2>3. Told(x)' => ~Going(x)'
    BY <1>1, <2>2, GoingIsOver
  <2>4. Told(x)' => x \in builder'.finished \/ ~Speaks(x)'
    <3> SUFFICES ASSUME Told(x)', x \notin builder'.finished, Speaks(x)' PROVE FALSE
      OBVIOUS
    <3>1. Speaks(x)
      BY <1>1, <2>2, SpeakersStay
    <3> QED BY <2>1, <3>1 DEF Closure
  <2>5. x \in builder'.finished => Told(x)'
    BY <2>1 DEF Closure
  <2>6. Announcer(x)' => ~Going(x)'
    <3> SUFFICES ASSUME Announcer(x)' PROVE ~Going(x)'
      OBVIOUS
    <3>1. CASE Announcer(x)
      <4>1. x \in Issued
        BY <1>1, <3>1, RunFacts DEF Announcer, ExpirersIssued, TypeAndRuns, RunsIssued, DoorIssued, Issued, Run,
                                    TypeInv, ContextOK
      <4> QED BY <1>1, <2>1, <3>1, <4>1, GoingIsOver DEF Closure
    <3> QED BY <1>1, <3>1, AnnouncersSettle
  <2>7. phase' = "down" /\ Told(x)' =>
          \A p \in Product : archive'[p].run = x => archive'[p].status \notin TimesOut
    <3> SUFFICES ASSUME phase' = "down", Told(x)'
                 PROVE  \A p \in Product : archive'[p].run = x => archive'[p].status \notin TimesOut
      OBVIOUS
    <3>1. phase = "down" /\ UNCHANGED archive
      BY <1>1, <1>2, DownIsStill
    <3>2. Told(x)
      BY <3>1
    <3> QED BY <2>1, <3>1, <3>2 DEF Closure
  <2> QED BY <2>3, <2>4, <2>5, <2>6, <2>7 DEF Closure
<1> QED BY <1>3 DEF EndInv

(* A step of the server tells of the ending of one run, or of none.        *)
LEMMA TellsOnce ==
    ASSUME Standing, Standing', EndInv, Reliable, [Next]_vars, ~(Crash \/ Exit), ~Restore
    PROVE  \/ TellsOf({})
           \/ /\ UNCHANGED <<storeVars, contextVars, lifeVars>>
              /\ \E r \in Run : ~Told(r) /\ TellsOf({r})
<1>1. TypeAndRuns /\ TypeAndRuns' /\ ExpirersIssued /\ Still
  BY DEF Standing, Ground, Attended
<1>2. ASSUME UNCHANGED callbackVars PROVE TellsOf({})
  <2>1. \A p \in Product : EndsLast(sent'[p])
    BY <1>2 DEF EndInv, callbackVars
  <2>2. \A x : Told(x)' <=> Told(x) \/ x \in {}
    BY <1>2 DEF callbackVars, Told
  <2>3. builder'.finished = builder.finished \cup {}
    BY <1>2 DEF callbackVars
  <2> QED BY <2>1, <2>2, <2>3 DEF TellsOf
<1>3. ASSUME NEW e \in Event, e.run <= issued, Publish(e), Said(e), 
             UNCHANGED <<storeVars, contextVars, lifeVars>>, ~UNCHANGED callbackVars
      PROVE  \/ TellsOf({})
             \/ \E r \in Run : ~Told(r) /\ TellsOf({r})
  <2>1. PICK r, p, n : r = e.run /\ p = owner[e.run] /\ n = builder.runs[r].sequence
    OBVIOUS
  <2>2. /\ p \in Product /\ Says(r, p, n) /\ r \notin builder.finished
        /\ e.kind \in Reports => builder'.finished = builder.finished
    BY <1>1, <1>3, <2>1, PublishedCallbacks
  <2>3. r \in Issued /\ r \in Run
    BY <1>1, <1>3, <2>1, RunFacts DEF Event, Run, Issued, TypeAndRuns, TypeInv, ContextOK
  <2>4. Closure(r) /\ \A q \in Product : EndsLast(sent[q])
    BY <2>3 DEF EndInv
  <2>5. Speaks(r) /\ phase # "down"
    <3>1. CASE Announcer(r)
      <4>1. phase # "down"
        BY <1>1, <2>3, <3>1, RunFacts DEF Announcer, Still, TypeAndRuns, TypeInv, ExpirersOK, Expirer
      <4> QED BY <3>1, <4>1 DEF Speaks
    <3>2. ASSUME NEW w \in Worker, workers[w].pc = "publish", workers[w].run = r
          PROVE  Speaks(r) /\ phase # "down"
      BY <1>1, <2>3, <3>2, RunFacts DEF Speaks, Held, BusyRuns, Still
    <3> QED BY <1>3, <2>1, <3>1, <3>2 DEF Said
  <2>6. ~Told(r)
    BY <2>2, <2>4, <2>5 DEF Closure
  <2>7. /\ \A q \in Product : EndsLast(sent'[q])
        /\ \/ builder'.finished = builder.finished /\ \A x : Told(x)' <=> Told(x)
           \/ /\ builder'.finished = builder.finished \cup {r}
              /\ \A x : Told(x)' <=> Told(x) \/ x = r
    BY <1>1, <2>2, <2>4, <2>6, SaysTold
  <2>8. CASE builder'.finished = builder.finished /\ \A x : Told(x)' <=> Told(x)
    <3>1. (\A x : Told(x)' <=> Told(x) \/ x \in {}) /\ builder'.finished = builder.finished \cup {}
      BY <2>8
    <3> QED BY <2>7, <3>1 DEF TellsOf
  <2>9. CASE /\ builder'.finished = builder.finished \cup {r}
             /\ \A x : Told(x)' <=> Told(x) \/ x = r
    <3>1. e.kind \notin Reports
      BY <2>2, <2>9
    <3>2. ~Going(r)
      <4>1. CASE Announcer(r)
        BY <2>4, <4>1 DEF Closure
      <4>2. ASSUME NEW w \in Worker, workers[w].pc = "publish", workers[w].run = r,
                   workers[w].news.kind = e.kind
            PROVE  ~Going(r)
        <5>1. Past(w) /\ workers[w].run # NoRun
          BY <2>3, <3>1, <4>2, RunFacts DEF Past
        <5> QED BY <4>2, <5>1 DEF Standing, Attended, WorkersFit, Going, TimesOut
      <4> QED BY <1>3, <2>1, <4>1, <4>2 DEF Said
    <3>3. \A x : Told(x)' <=> Told(x) \/ x \in {r}
      BY <2>9
    <3>4. TellsOf({r})
      BY <2>3, <2>5, <2>7, <2>9, <3>2, <3>3 DEF TellsOf
    <3> QED BY <2>3, <2>6, <3>4
  <2> QED BY <2>7, <2>8, <2>9
<1> QED BY <1>1, <1>2, <1>3, Announced DEF vars

LEMMA EndKept == ASSUME Standing, Standing', EndInv, [Next]_vars PROVE EndInv'
<1> SUFFICES ASSUME Reliable' PROVE EndInv'
  BY DEF EndInv
<1>1. Reliable
  BY ReliableBefore DEF Standing, Ground
<1>2. CASE ~(Crash \/ Exit) /\ ~Restore
  <2>1. \E told : TellsOf(told)
    BY <1>1, <1>2, TellsOnce
  <2> QED BY <1>1, <1>2, <2>1, StepCloses
<1> QED BY <1>2, StopCloses, RestoreCloses

LEMMA EndHolds == Spec => []EndInv
<1>1. Init => EndInv
  <2> SUFFICES ASSUME Init PROVE EndInv
    OBVIOUS
  <2>1. /\ \A p \in Product : sent[p] = << >> /\ Len(sent[p]) = 0 /\ DOMAIN sent[p] = {}
    BY DEF Init
  <2>2. (\A x : ~Told(x)) /\ \A p \in Product : EndsLast(sent[p])
    BY <2>1 DEF Told, EndsLast
  <2>3. builder.finished = {}
    BY DEF Init, NewBuilder
  <2>4. \A x \in Run : ~Announcer(x)
    BY RunFacts DEF Init, Announcer, Resting, Closed
  <2> QED BY <2>2, <2>3, <2>4 DEF EndInv, Closure
<1>2. Standing /\ Standing' /\ EndInv /\ [Next]_vars => EndInv'
  BY EndKept
<1> QED BY <1>1, <1>2, StandingHolds, PTL DEF Spec

(* Questions, result or failure are the last callback of a run, whichever  *)
(* threads announce it and in whatever order: with an archive that does    *)
(* not fail across any number of restarts, and with any archive until the  *)
(* first restart.                                                          *)
THEOREM EndingsComeLast == Spec => [](~ArchiveMayFail \/ crashes = 0 => EndingIsLast)
<1>1. Standing /\ EndInv => (~ArchiveMayFail \/ crashes = 0 => EndingIsLast)
  <2> SUFFICES ASSUME Standing, EndInv, Reliable, NEW p \in Product
               PROVE  \A i, j \in DOMAIN sent[p] :
                        i < j /\ sent[p][i].run = sent[p][j].run => sent[p][i].kind \notin Endings
    BY DEF EndingIsLast, Reliable
  <2>1. DOMAIN sent[p] = 1 .. Len(sent[p])
    BY LenProperties DEF Standing, Ground, TypeAndRuns, TypeInv, CallbackOK
  <2> QED BY <2>1 DEF EndInv, EndsLast
<1> QED BY <1>1, EndHolds, StandingHolds, PTL

-----------------------------------------------------------------------------
(***************************************************************************)
(* The limits of the server and the life cycle of runs, for any number of  *)
(* products, workers, runs, places and restarts: the two counters of       *)
(* SessionCapacity stay within their limits, restored sessions included,   *)
(* and the manager implements RunLifecycle.                                *)
(***************************************************************************)

(* The runs in progress, whether the server runs or is down.               *)
LiveRuns == {r \in Run : Live(r)}
ExecRuns == {workers[w].run : w \in Executing}

(* Between the check of a request and the places it takes there is room:   *)
(* other threads only give places back.                                    *)
DoorRoom ==
    /\ door.pc \in {"add", "resume", "take"} => phase = "up"
    /\ door.pc = "add" =>
         /\ Room(Len(door.batch))
         /\ (\E i \in 1 .. Len(door.batch) : door.batch[i] \in DevProducts) => DevRoom(Len(door.batch))
    /\ door.pc = "resume" => Room(1) /\ owner[door.run] \notin DevProducts
    /\ door.pc = "take" =>
         /\ Room(Cardinality(door.todo))
         /\ (\E r \in door.todo : owner[r] \in DevProducts) => DevRoom(Cardinality(door.todo))

(* Drain drops the queue, and the places of the runs in it are not given   *)
(* back.                                                                   *)
DrainFits == phase = "draining" => queue = << >> /\ door.pc = "idle" /\ inflight >= Cardinality(ExecRuns)

LimitInv == /\ DoorRoom /\ DrainFits
            /\ Cardinality(devRuns) <= MaxDevInflight
            /\ Reliable => inflight <= MaxInflight /\ Cardinality(LiveRuns) <= MaxInflight

-----------------------------------------------------------------------------
(* Counting.                                                               *)

LEMMA CountSubset ==
    ASSUME NEW S, NEW T, T \subseteq Run, S \subseteq T
    PROVE  Cardinality(S) \in Nat /\ Cardinality(T) \in Nat /\ Cardinality(S) <= Cardinality(T)
<1>1. S \subseteq Run
  OBVIOUS
<1> QED BY <1>1, FiniteRuns, FS_Subset

LEMMA CountUnion ==
    ASSUME NEW S, NEW T, S \subseteq Run, T \subseteq Run
    PROVE  /\ Cardinality(S) \in Nat /\ Cardinality(T) \in Nat /\ Cardinality(S \cup T) \in Nat
           /\ Cardinality(S \cup T) <= Cardinality(S) + Cardinality(T)
<1>1. IsFiniteSet(S) /\ IsFiniteSet(T) /\ S \cup T \subseteq Run /\ S \cap T \subseteq Run
  BY FiniteRuns
<1>2. Cardinality(S \cup T) = Cardinality(S) + Cardinality(T) - Cardinality(S \cap T)
  BY <1>1, FS_Union
<1>3. /\ Cardinality(S) \in Nat /\ Cardinality(T) \in Nat
      /\ Cardinality(S \cup T) \in Nat /\ Cardinality(S \cap T) \in Nat
  BY <1>1, FiniteRuns
<1> QED BY <1>2, <1>3

(* The numbers from n + 1 to n + k are k.                                  *)
LEMMA CountInterval == ASSUME NEW n \in Nat, NEW k \in Nat PROVE Cardinality(n + 1 .. n + k) = k
<1>1. n + 1 \in Int /\ n + k \in Int
  OBVIOUS
<1>2. Cardinality(n + 1 .. n + k) = IF n + 1 > n + k THEN 0 ELSE n + k - (n + 1) + 1
  BY <1>1, FS_Interval
<1> QED BY <1>2

-----------------------------------------------------------------------------
(* Runs in progress.                                                       *)

LEMMA LiveOrGoing == /\ phase # "down" => \A r : Live(r) <=> Going(r)
                     /\ phase = "down" => \A r : Live(r) <=>
                          \E p \in Product : archive[p].run = r /\ archive[p].status \in TimesOut
  BY DEF Live, Going

(* Nothing but a request that is accepted sets a run going.                *)
LEMMA LiveIsOver ==
    ASSUME Standing, [Next]_vars, Reliable', ~(AcceptAdd \/ ResumeReplace), NEW r \in Run, Live(r)'
    PROVE  Live(r)
<1>1. TypeAndRuns /\ Still
  BY DEF Standing, Ground
<1>2. phase' # "down" => \E p \in Product : sessions'[p].run = r /\ sessions'[p].status \in TimesOut
  BY DEF Live
<1>3. phase' = "down" => \E p \in Product : archive'[p].run = r /\ archive'[p].status \in TimesOut
  BY DEF Live
<1>4. CASE Restore
  <2>1. phase = "down" /\ phase' = "starting" /\ crashes' = crashes
    BY <1>4 DEF Restore, Boot
  <2>2. ~ArchiveMayFail
    BY <2>1 DEF Reliable, Standing, CauseInv, FirstLife
  <2>3. sessions' = archive
    BY <1>4, <2>2 DEF Restore, Boot
  <2> QED BY <1>2, <2>1, <2>3, LiveOrGoing
<1>5. CASE Crash \/ Exit
  <2>1. /\ phase # "down" /\ phase' = "down" /\ archive' = archive /\ crashes' = crashes + 1
    BY <1>5 DEF Crash, Exit, Stop
  <2>2. ~ArchiveMayFail
    BY <1>1, <2>1 DEF Reliable, TypeAndRuns, TypeInv, LifeOK
  <2> QED BY <1>3, <2>1, <2>2, RowsAreGoing, LiveOrGoing DEF Standing, Going
<1>6. CASE ~(Crash \/ Exit) /\ ~Restore
  <2>1. phase' = "down" <=> phase = "down"
    BY <1>6, PhaseSteps
  <2>2. CASE phase = "down"
    BY <1>1, <1>3, <2>1, <2>2, DownIsStill, LiveOrGoing
  <2>3. CASE phase # "down"
    <3>1. Settling /\ r # NoRun
      BY <1>1, <1>6, StepsSettle, RunFacts
    <3> QED BY <1>2, <2>1, <2>3, <3>1, LiveOrGoing DEF Settling, Going
  <2> QED BY <2>2, <2>3
<1> QED BY <1>4, <1>5, <1>6

(* When a request is accepted, every run in progress holds a place.        *)
LEMMA LiveAreHeld ==
    ASSUME Standing, phase = "up", door.pc \in {"add", "resume"}
    PROVE  LiveRuns \subseteq Holders /\ inflight = Cardinality(Holders)
<1>1. door.todo = {} /\ door.fails = {} /\ inflight = Cardinality(Holders)
  BY DEF Standing, Ground, WorkInv, DoorFits, PlacesFit, CapacityMatchesWork
<1>2. ASSUME NEW r \in Run, Live(r) PROVE r \in Holders
  <2>1. PICK p \in Product : sessions[p].run = r /\ sessions[p].status \in TimesOut
    BY <1>2 DEF Live
  <2>2. /\ sessions[p].status = "ACCEPTED" => Awaits(r)
        /\ sessions[p].status = "RUNNING" => Drives(r)
    BY <2>1, StrandedByRun DEF Standing, Attended
  <2>3. r \in QueuedRuns \/ \E w \in Worker : workers[w].run = r /\ workers[w].pc \in {"start", "job", "publish"}
    BY <1>1, <2>1, <2>2 DEF Awaits, Drives, TimesOut
  <2> QED BY <2>3 DEF Holders, Executing
<1> QED BY <1>1, <1>2 DEF LiveRuns

(* The runs an accepted request adds are those it is about to schedule,    *)
(* and there is room for them.                                             *)
LEMMA NewcomersAreThose ==
    ASSUME Standing, AcceptAdd \/ ResumeReplace
    PROVE  /\ LiveRuns' \subseteq LiveRuns \cup door'.todo
           /\ door'.todo \subseteq Run \ Issued
           /\ phase' = phase /\ inflight' = inflight /\ devRuns' = devRuns
<1>1. TypeAndRuns /\ TypeAndRuns' /\ [Next]_vars
  BY TypeAndRunsInductive DEF Standing, Ground, Next, Loop
<1>2. /\ \A p \in Product : sessions'[p] = sessions[p] \/ sessions'[p].run \notin Issued
      /\ phase' = phase /\ door.pc \in {"add", "resume"} /\ \A r \in door'.todo : r \notin Issued
  BY <1>1, NewcomersAreNew
<1>3. inflight' = inflight /\ devRuns' = devRuns
  BY DEF AcceptAdd, ResumeReplace, capacityVars
<1>4. /\ door'.todo \subseteq Run
      /\ \A r \in Run \ Issued : r <= issued' => r \in door'.todo
  <2>1. issued \in Nat /\ Run \subseteq Nat \ {0} /\ door'.todo \subseteq Run
    BY <1>1, SizesAssumption DEF TypeAndRuns, TypeInv, ContextOK, Run, DoorOK, Door
  <2>2. CASE AcceptAdd
    <3>1. issued' = issued + Len(door.batch)
          /\ door' = [Closed EXCEPT !.pc = "take", !.todo = issued + 1 .. issued + Len(door.batch)]
      BY <2>2 DEF AcceptAdd
    <3>2. door'.todo = issued + 1 .. issued + Len(door.batch) /\ Len(door.batch) \in Nat
      BY <1>1, <3>1, LenProperties DEF Closed, TypeAndRuns, TypeInv, DoorOK, Door
    <3> QED BY <2>1, <3>1, <3>2 DEF Issued
  <2>3. CASE ResumeReplace
    <3>1. \/ issued' = issued + 1 /\ door' = [Closed EXCEPT !.pc = "take", !.todo = {issued + 1}]
          \/ issued' = issued
      BY <2>3 DEF ResumeReplace, contextVars
    <3>3. [Closed EXCEPT !.pc = "take", !.todo = {issued + 1}].todo = {issued + 1}
      BY DEF Closed
    <3>4. issued + 1 # issued
      BY <2>1
    <3>2. issued' = issued + 1 => door'.todo = {issued + 1}
      BY <3>1, <3>3, <3>4
    <3> QED BY <2>1, <3>1, <3>2 DEF Issued
  <2> QED BY <2>1, <2>2, <2>3
<1>5. ASSUME NEW r \in Run, Live(r)' PROVE r \in LiveRuns \cup door'.todo
  <2>1. phase # "down"
    BY <1>2 DEF Standing, Ground, Still
  <2>2. PICK p \in Product : sessions'[p].run = r /\ sessions'[p].status \in TimesOut
    BY <1>2, <1>5, <2>1 DEF Live
  <2>3. r <= issued'
    BY <1>1, <2>2 DEF TypeAndRuns, RunsIssued, StoredIssued
  <2>4. CASE sessions'[p] = sessions[p]
    BY <2>1, <2>2, <2>4 DEF LiveRuns, Live
  <2>5. CASE r \notin Issued
    BY <1>4, <2>3, <2>5
  <2> QED BY <1>2, <2>2, <2>4, <2>5
<1> QED BY <1>2, <1>3, <1>4, <1>5 DEF LiveRuns

(* Room stays while the event loop waits.                                  *)
LEMMA RoomStays ==
    ASSUME TypeAndRuns, DoorRoom, UNCHANGED <<door, owner>>, phase' = phase \/ door.pc = "idle",
           inflight' \in Int, inflight' <= inflight, devRuns' \subseteq devRuns
    PROVE  DoorRoom'
<1>1. /\ Cardinality(devRuns') \in Nat /\ Cardinality(devRuns) \in Nat
      /\ Cardinality(devRuns') <= Cardinality(devRuns)
  BY CountSubset DEF TypeAndRuns, TypeInv, CapacityOK
<1>2. MaxInflight \in Nat /\ MaxDevInflight \in Nat /\ inflight \in Int
  BY SizesAssumption DEF TypeAndRuns, TypeInv, CapacityOK
<1>3. \A n \in Nat : (Room(n) => Room(n)') /\ (DevRoom(n) => DevRoom(n)')
  <2> SUFFICES ASSUME NEW n \in Nat PROVE (Room(n) => Room(n)') /\ (DevRoom(n) => DevRoom(n)')
    OBVIOUS
  <2>1. PICK a, b : a = Cardinality(devRuns) /\ b = Cardinality(devRuns')
    OBVIOUS
  <2>2. a \in Nat /\ b \in Nat /\ b <= a
    BY <1>1, <2>1
  <2>3. a + n <= MaxDevInflight => b + n <= MaxDevInflight
    BY <1>2, <2>2
  <2>4. PICK i, j : i = inflight /\ j = inflight'
    OBVIOUS
  <2>5. i \in Int /\ j \in Int /\ j <= i
    BY <1>2, <2>4
  <2>6. i + n <= MaxInflight => j + n <= MaxInflight
    BY <1>2, <2>5
  <2> QED BY <2>1, <2>3, <2>4, <2>6 DEF Room, DevRoom
<1>4. Len(door.batch) \in Nat /\ Cardinality(door.todo) \in Nat
  BY LenProperties, FiniteRuns DEF TypeAndRuns, TypeInv, DoorOK, Door
<1> QED BY <1>3, <1>4 DEF DoorRoom

LEMMA NewcomersHaveRoom == ASSUME Standing, DoorRoom, AcceptAdd \/ ResumeReplace PROVE DoorRoom'
<1>1. /\ phase' = phase /\ inflight' = inflight /\ devRuns' = devRuns
  BY NewcomersAreThose
<1>2. TypeAndRuns
  BY DEF Standing, Ground
<1>3. \A n : (Room(n)' <=> Room(n)) /\ (DevRoom(n)' <=> DevRoom(n))
  BY <1>1 DEF Room, DevRoom
<1>4. CASE AcceptAdd
  <2> DEFINE new == issued + 1 .. issued + Len(door.batch)
  <2>1. /\ door.pc = "add" /\ door' = [Closed EXCEPT !.pc = "take", !.todo = new]
        /\ owner' = [r \in Run |-> IF r \in new THEN door.batch[r - issued] ELSE owner[r]]
    BY <1>4 DEF AcceptAdd
  <2>2. door'.pc = "take" /\ door'.todo = new
    BY <2>1 DEF Closed
  <2>3. issued \in Nat /\ Len(door.batch) \in Nat
    BY <1>2, SizesAssumption, LenProperties DEF TypeAndRuns, TypeInv, ContextOK, DoorOK, Door
  <2>4. Cardinality(new) = Len(door.batch)
    BY <2>3, CountInterval
  <2>5. \A r \in new : r \in Run /\ r - issued \in 1 .. Len(door.batch)
    BY <2>2, <2>3, NewcomersAreThose
  <2>6. (\E r \in new : owner'[r] \in DevProducts)
          => \E i \in 1 .. Len(door.batch) : door.batch[i] \in DevProducts
    BY <2>1, <2>5
  <2> QED BY <1>1, <1>3, <2>1, <2>2, <2>4, <2>6 DEF DoorRoom
<1>5. CASE ResumeReplace
  <2>1. door.pc = "resume"
    BY <1>5 DEF ResumeReplace
  <2>2. CASE door' = Closed
    BY <2>2 DEF Closed, DoorRoom
  <2>3. CASE /\ owner' = [owner EXCEPT ![issued + 1] = owner[door.run]]
             /\ door' = [Closed EXCEPT !.pc = "take", !.todo = {issued + 1}]
    <3>1. door'.pc = "take" /\ door'.todo = {issued + 1} /\ issued + 1 \in Run
      <4>1. door'.pc = "take" /\ door'.todo = {issued + 1}
        BY <2>3 DEF Closed
      <4> QED BY <4>1, NewcomersAreThose
    <3>2. owner'[issued + 1] = owner[door.run]
      BY <1>2, <2>3, <3>1 DEF TypeAndRuns, TypeInv, ContextOK
    <3>3. Cardinality(door'.todo) = 1
      BY <3>1, FS_Singleton
    <3> QED BY <1>1, <1>3, <2>1, <3>1, <3>2, <3>3 DEF DoorRoom
  <2> QED BY <1>5, <2>2, <2>3 DEF ResumeReplace
<1> QED BY <1>4, <1>5

LEMMA LoopHasRoom == ASSUME Standing, DoorRoom, Loop PROVE DoorRoom'
<1>1. TypeAndRuns /\ OwnersMatch
  BY DEF Standing, Ground, Attended
<1>2. door = OpenedWith(door.pc, door.batch, door.run, door.round, door.todo, door.fails)
  BY <1>1 DEF TypeAndRuns, TypeInv, DoorOK, Door, OpenedWith
<1>3. CASE AcceptAdd \/ ResumeReplace
  BY <1>3, NewcomersHaveRoom
<1>4. ASSUME NEW batch, AcceptCheck(batch),
             (\E i \in 1 .. Len(batch) : batch[i] \in DevProducts) => DevRoom(Len(batch))
      PROVE  DoorRoom'
  <2>1. /\ door' = [Closed EXCEPT !.pc = "add", !.batch = batch] /\ Room(Len(batch)) /\ phase = "up"
        /\ UNCHANGED <<phase, inflight, devRuns>>
    BY <1>4 DEF AcceptCheck, lifeVars, capacityVars
  <2>2. door'.pc = "add" /\ door'.batch = batch
    BY <2>1 DEF Closed
  <2>3. Room(Len(batch))' /\ (DevRoom(Len(batch)) => DevRoom(Len(batch))')
    BY <2>1 DEF Room, DevRoom
  <2> QED BY <1>4, <2>1, <2>2, <2>3 DEF DoorRoom
<1>5. CASE Submit
  <2>1. PICK batch \in Batches(Product \ DevProducts) : AcceptCheck(batch)
    BY <1>5 DEF Submit
  <2>2. PICK n \in 1 .. MaxBatch : batch \in [1 .. n -> Product \ DevProducts]
    BY DEF Batches
  <2>3. batch \in Seq(Product \ DevProducts)
    BY <2>2, SizesAssumption, SeqDef
  <2>4. \A i \in 1 .. Len(batch) : batch[i] \notin DevProducts
    BY <2>3, ElementOfSeq
  <2> QED BY <1>4, <2>1, <2>4
<1>6. CASE SubmitDev
  BY <1>4, <1>6 DEF SubmitDev
<1>7. ASSUME NEW p \in Product, NEW r \in Run, NEW round, ResumeCheck(p, r, round) PROVE DoorRoom'
  <2>1. /\ door' = [Closed EXCEPT !.pc = "resume", !.run = r, !.round = round] /\ Room(1) /\ phase = "up"
        /\ UNCHANGED <<phase, inflight, devRuns, owner>> /\ p \notin DevProducts /\ sessions[p].run = r
    BY <1>7 DEF ResumeCheck, lifeVars, capacityVars, contextVars
  <2>2. door'.pc = "resume" /\ door'.run = r
    BY <2>1 DEF Closed
  <2>3. owner[r] = p
    BY <1>1, <2>1, RunFacts DEF OwnersMatch
  <2>4. Room(1)'
    BY <2>1 DEF Room
  <2> QED BY <2>1, <2>2, <2>3, <2>4 DEF DoorRoom
<1>8. CASE Take \/ Register \/ \E r \in Run : Schedule(r)
  <2>1. door'.pc \notin {"add", "resume", "take"}
    BY <1>2, <1>8 DEF Take, Register, Schedule, OpenedWith
  <2> QED BY <2>1 DEF DoorRoom
<1> QED BY <1>3, <1>5, <1>6, <1>7, <1>8 DEF Loop, Resume

LEMMA DoorHasRoom == ASSUME Standing, DoorRoom, [Next]_vars PROVE DoorRoom'
<1>1. TypeAndRuns
  BY DEF Standing, Ground
<1>2. inflight \in Int
  BY <1>1 DEF TypeAndRuns, TypeInv, CapacityOK
<1>3. CASE Loop
  BY <1>3, LoopHasRoom
<1>4. CASE StartUp
  <2>1. CASE Serve
    BY <1>1, <1>2, <2>1, RoomStays DEF Serve, capacityVars, contextVars
  <2>2. door = OpenedWith(door.pc, door.batch, door.run, door.round, door.todo, door.fails)
    BY <1>1 DEF TypeAndRuns, TypeInv, DoorOK, Door, OpenedWith
  <2>3. CASE RestoreAnnounce \/ \E r \in Run : RestoreFail(r)
    <3>1. door'.pc \notin {"add", "resume", "take"}
      BY <2>2, <2>3 DEF RestoreAnnounce, RestoreFail, OpenedWith
    <3> QED BY <3>1 DEF DoorRoom
  <2>4. ASSUME NEW rows, Boot(rows) PROVE DoorRoom'
    <3>1. PICK a, b : door' = IF a \cup b = {} THEN Closed
                               ELSE [Closed EXCEPT !.pc = "schedule", !.todo = a, !.fails = b]
      BY <2>4 DEF Boot
    <3>2. door'.pc \notin {"add", "resume", "take"}
      BY <3>1 DEF Closed
    <3> QED BY <3>2 DEF DoorRoom
  <2> QED BY <1>4, <2>1, <2>3, <2>4 DEF StartUp, Restore
<1>5. ASSUME NEW w \in Worker, Work(w) PROVE DoorRoom'
  <2>1. UNCHANGED <<door, owner, phase>>
    BY <1>5 DEF Work, Pick, Start, ReportStage, ReportTool, Report, Finish, PublishNews, Release, Forget,
                contextVars, lifeVars
  <2>2. \/ UNCHANGED capacityVars
        \/ inflight' = inflight - 1 /\ devRuns' = devRuns \ {workers[w].run}
    BY <1>5 DEF Work, Pick, Start, ReportStage, ReportTool, Report, Finish, PublishNews, Release, Forget
  <2>3. inflight' \in Int /\ inflight' <= inflight /\ devRuns' \subseteq devRuns
    BY <1>2, <2>2 DEF capacityVars
  <2> QED BY <1>1, <2>1, <2>3, RoomStays
<1>6. ASSUME NEW e \in Expirers, Sweep(e) PROVE DoorRoom'
  <2>1. UNCHANGED <<door, owner, phase, inflight, devRuns>>
    BY <1>6 DEF Sweep, Scan, Expire, PublishTimeout, capacityVars, contextVars, lifeVars
  <2> QED BY <1>1, <1>2, <2>1, RoomStays
<1>7. CASE Purge \/ RetryArchive \/ Drain \/ \E r \in Run : BecomeOverdue(r)
  <2>1. UNCHANGED <<door, owner, inflight, devRuns>> /\ (phase' = phase \/ door.pc = "idle")
    BY <1>7 DEF Purge, RetryArchive, Drain, BecomeOverdue, capacityVars, contextVars, lifeVars
  <2> QED BY <1>1, <1>2, <2>1, RoomStays
<1>8. CASE Crash \/ Exit
  BY <1>8 DEF Crash, Exit, Stop, Closed, DoorRoom
<1>9. CASE UNCHANGED vars
  BY <1>1, <1>2, <1>9, RoomStays DEF vars, capacityVars, contextVars, lifeVars
<1> QED BY <1>3, <1>4, <1>5, <1>6, <1>7, <1>8, <1>9 DEF Next

-----------------------------------------------------------------------------
(* The places.                                                             *)

LEMMA DrainKept == ASSUME Standing, DrainFits, [Next]_vars PROVE DrainFits'
<1> SUFFICES ASSUME phase' = "draining"
             PROVE  queue' = << >> /\ door'.pc = "idle" /\ inflight' >= Cardinality(ExecRuns')
  BY DEF DrainFits
<1>1. TypeAndRuns /\ WorkInv /\ Still
  BY DEF Standing, Ground
<1>2. /\ workers \in [Worker -> Working] /\ queue \in Seq(Run) /\ inflight \in Int
      /\ Executing \subseteq Worker
      /\ \A w \in Worker : workers[w].pc # "idle" => workers[w].run \in Run
  BY <1>1, WorkersRun DEF TypeAndRuns, TypeInv, PoolOK, CapacityOK, Executing
<1>3. ExecRuns \subseteq Holders /\ Holders \subseteq Run
  BY <1>1, PoolRuns DEF ExecRuns, Holders
<1>4. CASE Drain
  <2>1. /\ phase = "up" /\ UNCHANGED <<workers, inflight, door>> /\ queue' = << >> /\ door.pc = "idle"
    BY <1>4 DEF Drain, capacityVars
  <2>2. ExecRuns' = ExecRuns /\ inflight = Cardinality(Holders)
    BY <1>1, <2>1 DEF ExecRuns, Executing, WorkInv, PlacesFit, CapacityMatchesWork
  <2>3. /\ Cardinality(ExecRuns) \in Nat /\ Cardinality(Holders) \in Nat
        /\ Cardinality(ExecRuns) <= Cardinality(Holders)
    BY <1>3, CountSubset
  <2> QED BY <2>1, <2>2, <2>3
<1>5. ASSUME phase = "draining" PROVE queue = << >> /\ door.pc = "idle" /\ inflight >= Cardinality(ExecRuns)
  BY <1>5 DEF DrainFits
<1>6. ASSUME phase = "draining", UNCHANGED <<queue, door, inflight, workers>>
      PROVE  queue' = << >> /\ door'.pc = "idle" /\ inflight' >= Cardinality(ExecRuns')
  <2>1. ExecRuns' = ExecRuns
    BY <1>6 DEF ExecRuns, Executing
  <2> QED BY <1>5, <1>6, <2>1
<1>7. ASSUME phase = "draining", NEW w \in Worker, Work(w)
      PROVE  queue' = << >> /\ door'.pc = "idle" /\ inflight' >= Cardinality(ExecRuns')
  <2>1. ~Pick(w)
    BY <1>5, <1>7 DEF Pick
  <2>2. CASE Start(w) \/ ReportStage(w) \/ ReportTool(w) \/ Finish(w) \/ PublishNews(w)
    <3>1. GoesOn(w) /\ UNCHANGED <<queue, door, inflight>>
      BY <1>1, <2>2, GoingOn
    <3>2. Executing' = Executing
      BY <3>1 DEF GoesOn, Executing
    <3>3. \A v \in Worker : workers'[v].run = workers[v].run
      BY <3>1 DEF GoesOn
    <3>4. ExecRuns' = ExecRuns
      BY <1>2, <3>2, <3>3 DEF ExecRuns
    <3> QED BY <1>5, <1>7, <3>1, <3>4
  <2>3. CASE Release(w)
    <3> DEFINE r == workers[w].run
    <3>1. /\ w \in Executing /\ r \in Run /\ workers'[w].pc = "done" /\ \A v \in Worker \ {w} : workers'[v] = workers[v]
          /\ UNCHANGED <<queue, door>> /\ inflight' = inflight - 1
      BY <1>2, <2>3 DEF Release, Executing
    <3>2. Executing' = Executing \ {w}
      BY <3>1 DEF Executing
    <3>3. \A v \in Executing \ {w} : workers[v].run # r
      BY <1>1, <1>2, <3>1, RunFacts DEF Executing, WorkInv, HeldOnce
    <3>4. ExecRuns' = ExecRuns \ {r} /\ r \in ExecRuns
      BY <1>2, <3>1, <3>2, <3>3 DEF ExecRuns
    <3>5. ExecRuns \subseteq Run
      BY <1>3
    <3>6. IsFiniteSet(ExecRuns) /\ Cardinality(ExecRuns) \in Nat
      BY <3>5, FiniteRuns
    <3>7. Cardinality(ExecRuns') = Cardinality(ExecRuns) - 1
      BY <3>4, <3>6, FS_RemoveElement
    <3> QED BY <1>2, <1>5, <1>7, <3>1, <3>6, <3>7
  <2>4. CASE Forget(w)
    <3>1. /\ workers[w].pc = "done" /\ workers'[w].pc = "idle" /\ UNCHANGED <<queue, door, inflight>>
          /\ \A v \in Worker \ {w} : workers'[v] = workers[v]
      BY <1>2, <2>4 DEF Forget, Idle, capacityVars
    <3>2. Executing' = Executing /\ w \notin Executing
      BY <3>1 DEF Executing
    <3>3. ExecRuns' = ExecRuns
      BY <1>2, <3>1, <3>2 DEF ExecRuns
    <3> QED BY <1>5, <1>7, <3>1, <3>3
  <2> QED BY <1>7, <2>1, <2>2, <2>3, <2>4 DEF Work
<1>8. CASE Loop
  <2>1. phase' = phase
    BY <1>8 DEF Loop, Submit, SubmitDev, AcceptCheck, AcceptAdd, Take, ResumeReplace, Register, Resume,
                ResumeCheck, Schedule, lifeVars
  <2>2. phase # "draining"
    BY <1>5, <1>8 DEF Loop, Submit, SubmitDev, AcceptCheck, AcceptAdd, Take, ResumeReplace, Register, Resume,
                      ResumeCheck, Schedule
  <2> QED BY <2>1, <2>2
<1>9. CASE StartUp
  <2>1. phase' = phase \/ phase' \in {"starting", "up"}
    BY <1>9 DEF StartUp, Restore, Boot, RestoreAnnounce, Serve, RestoreFail, lifeVars
  <2>2. phase # "draining"
    BY <1>5, <1>9 DEF StartUp, Restore, Boot, RestoreAnnounce, Serve, RestoreFail
  <2> QED BY <2>1, <2>2
<1>10. CASE UNCHANGED vars
  BY <1>6, <1>10 DEF vars, poolVars, capacityVars, lifeVars
<1>11. CASE Purge \/ RetryArchive \/ (\E r \in Run : BecomeOverdue(r)) \/ \E e \in Expirers : Sweep(e)
  <2>1. UNCHANGED <<queue, door, inflight, workers, phase>>
    BY <1>11 DEF Purge, RetryArchive, BecomeOverdue, Sweep, Scan, Expire, PublishTimeout, poolVars, capacityVars,
                 lifeVars
  <2> QED BY <1>6, <2>1
<1>12. ASSUME NEW w \in Worker, Work(w) PROVE phase' = phase
  BY <1>12 DEF Work, Pick, Start, ReportStage, ReportTool, Report, Finish, PublishNews, Release, Forget, lifeVars
<1>13. CASE Crash \/ Exit
  BY <1>13 DEF Crash, Exit, Stop
<1> QED BY <1>4, <1>7, <1>8, <1>9, <1>10, <1>11, <1>12, <1>13 DEF Next

(* No place is owed.                                                       *)
LEMMA PlacesCount == ASSUME Standing, DrainFits PROVE inflight >= 0
<1>1. TypeAndRuns /\ WorkInv /\ ExecRuns \subseteq Holders /\ Holders \subseteq Run
  BY PoolRuns DEF Standing, Ground, ExecRuns, Holders
<1>2. phase \in {"starting", "up", "draining", "down"}
  BY <1>1 DEF TypeAndRuns, TypeInv, LifeOK
<1>3. Cardinality(Holders) \in Nat /\ Cardinality(ExecRuns) \in Nat /\ inflight \in Int
  BY <1>1, CountSubset DEF TypeAndRuns, TypeInv, CapacityOK
<1>4. CASE phase \in {"starting", "up"}
  BY <1>1, <1>3, <1>4 DEF WorkInv, PlacesFit, CapacityMatchesWork
<1>5. CASE phase = "draining"
  BY <1>3, <1>5 DEF DrainFits
<1>6. CASE phase = "down"
  BY <1>1, <1>6 DEF WorkInv, PlacesFit
<1> QED BY <1>2, <1>4, <1>5, <1>6

(* What each step does to the counters.                                    *)
LEMMA CapacitySteps ==
    ASSUME TypeAndRuns, [Next]_vars
    PROVE  \/ inflight' = inflight /\ devRuns' = devRuns
           \/ inflight' = inflight - 1 /\ devRuns' \subseteq devRuns
           \/ inflight' = 0 /\ devRuns' = {}
           \/ Take \/ Restore
<1>1. CASE Loop
  BY <1>1 DEF Loop, Submit, SubmitDev, AcceptCheck, AcceptAdd, ResumeReplace, Register, Resume,
              ResumeCheck, Schedule, capacityVars
<1>2. CASE StartUp
  BY <1>2 DEF StartUp, RestoreAnnounce, Serve, RestoreFail, capacityVars
<1>3. ASSUME NEW w \in Worker, Work(w)
      PROVE  UNCHANGED capacityVars \/ (inflight' = inflight - 1 /\ devRuns' = devRuns \ {workers[w].run})
  BY <1>3 DEF Work, Pick, Start, ReportStage, ReportTool, Report, Finish, PublishNews, Release, Forget
<1>4. CASE \E e \in Expirers : Sweep(e)
  BY <1>4 DEF Sweep, Scan, Expire, PublishTimeout, capacityVars
<1>5. CASE Purge \/ RetryArchive \/ Drain \/ Crash \/ Exit \/ \E r \in Run : BecomeOverdue(r)
  BY <1>5 DEF Purge, RetryArchive, Drain, Crash, Exit, Stop, BecomeOverdue, capacityVars
<1>6. CASE UNCHANGED vars
  BY <1>6 DEF vars, capacityVars
<1> QED BY <1>1, <1>2, <1>3, <1>4, <1>5, <1>6 DEF Next, capacityVars

(* Restored sessions were within the limit when the server stopped.        *)
LEMMA RestoreWithinLimit ==
    ASSUME Standing, Cardinality(LiveRuns) <= MaxInflight, Restore, ~ArchiveMayFail
    PROVE  inflight' <= MaxInflight /\ devRuns' = devRuns
<1> DEFINE runnable == {archive[p].run : p \in {q \in Product : Runnable(archive[q])}}
<1>1. phase = "down" /\ inflight' = inflight + Cardinality(runnable) /\ devRuns' = devRuns
  BY DEF Restore, Boot, PlacesWith
<1>2. inflight = 0
  BY <1>1 DEF Standing, Ground, WorkInv, PlacesFit
<1>3. \A p \in Product : archive[p] \in Session
  BY DEF Standing, Ground, TypeAndRuns, TypeInv, StoreOK
<1>4. runnable \subseteq LiveRuns
  BY <1>1, <1>3 DEF LiveRuns, Live, Runnable, TimesOut, Session
<1>5. LiveRuns \subseteq Run
  BY DEF LiveRuns
<1> HIDE DEF runnable
<1>6. /\ Cardinality(runnable) \in Nat /\ Cardinality(LiveRuns) \in Nat
      /\ Cardinality(runnable) <= Cardinality(LiveRuns)
  BY <1>4, <1>5, CountSubset
<1> QED BY <1>1, <1>2, <1>6, SizesAssumption

LEMMA TakeWithinLimits ==
    ASSUME Standing, DoorRoom, Take, Cardinality(devRuns) <= MaxDevInflight
    PROVE  inflight' <= MaxInflight /\ Cardinality(devRuns') <= MaxDevInflight
<1> DEFINE dev == {r \in door.todo : owner[r] \in DevProducts}
<1>1. /\ door.pc = "take" /\ inflight' = inflight + Cardinality(door.todo) /\ devRuns' = devRuns \cup dev
  BY DEF Take, PlacesWith
<1>2. inflight' <= MaxInflight
  BY <1>1 DEF DoorRoom, Room
<1>3. door.todo \subseteq Run /\ devRuns \subseteq Run /\ dev \subseteq door.todo
  BY DEF Standing, Ground, TypeAndRuns, TypeInv, DoorOK, Door, CapacityOK
<1>4. CASE dev = {}
  <2>1. devRuns' = devRuns
    BY <1>1, <1>4
  <2> QED BY <1>2, <2>1
<1>5. CASE dev # {}
  <2>1. Cardinality(devRuns) + Cardinality(door.todo) <= MaxDevInflight
    BY <1>1, <1>5 DEF DoorRoom, DevRoom
  <2> HIDE DEF dev
  <2>2. /\ Cardinality(devRuns \cup dev) <= Cardinality(devRuns) + Cardinality(dev)
        /\ Cardinality(devRuns) \in Nat /\ Cardinality(dev) \in Nat /\ Cardinality(devRuns \cup dev) \in Nat
    BY <1>3, CountUnion
  <2>3. Cardinality(dev) <= Cardinality(door.todo) /\ Cardinality(door.todo) \in Nat
    BY <1>3, CountSubset
  <2>4. PICK a, b, c, d : /\ a = Cardinality(devRuns \cup dev) /\ b = Cardinality(devRuns)
                          /\ c = Cardinality(dev) /\ d = Cardinality(door.todo)
    OBVIOUS
  <2>5. a <= MaxDevInflight
    BY <2>1, <2>2, <2>3, <2>4, SizesAssumption
  <2> QED BY <1>1, <1>2, <2>4, <2>5
<1> QED BY <1>4, <1>5

(* An accepted request sets as many runs going as it takes places.         *)
LEMMA NewcomersWithinLimit ==
    ASSUME Standing, DoorRoom, DoorRoom', AcceptAdd \/ ResumeReplace, Cardinality(LiveRuns) <= MaxInflight
    PROVE  Cardinality(LiveRuns') <= MaxInflight
<1>1. /\ LiveRuns' \subseteq LiveRuns \cup door'.todo /\ door'.todo \subseteq Run \ Issued
      /\ phase' = phase /\ inflight' = inflight
  BY NewcomersAreThose
<1>2. door.pc \in {"add", "resume"} /\ phase = "up" /\ LiveRuns \subseteq Run
  BY DEF AcceptAdd, ResumeReplace, DoorRoom, LiveRuns
<1>3. LiveRuns \subseteq Holders /\ inflight = Cardinality(Holders) /\ Holders \subseteq Run
  BY <1>2, LiveAreHeld, PoolRuns DEF Standing, Ground
<1>4. CASE door'.pc = "take"
  <2>1. inflight + Cardinality(door'.todo) <= MaxInflight
    BY <1>1, <1>4 DEF DoorRoom, Room
  <2>2. PICK new : new = door'.todo
    OBVIOUS
  <2>3. LiveRuns' \subseteq Holders \cup new /\ new \subseteq Run
    BY <1>1, <1>3, <2>2
  <2>4. /\ Cardinality(Holders) \in Nat /\ Cardinality(new) \in Nat /\ Cardinality(Holders \cup new) \in Nat
        /\ Cardinality(Holders \cup new) <= Cardinality(Holders) + Cardinality(new)
    BY <1>3, <2>3, CountUnion
  <2>5. Holders \cup new \subseteq Run
    BY <1>3, <2>3
  <2>6. Cardinality(LiveRuns') \in Nat /\ Cardinality(LiveRuns') <= Cardinality(Holders \cup new)
    BY <2>3, <2>5, CountSubset
  <2>7. PICK a, b, c, d : /\ a = Cardinality(LiveRuns') /\ b = Cardinality(Holders \cup new)
                          /\ c = Cardinality(Holders) /\ d = Cardinality(new)
    OBVIOUS
  <2>8. c + d <= MaxInflight
    BY <1>3, <2>1, <2>2, <2>7
  <2>9. a <= MaxInflight
    BY <2>4, <2>6, <2>7, <2>8, SizesAssumption
  <2> QED BY <2>7, <2>9
<1>5. CASE door'.pc # "take"
  <2>1. door' = Closed
    BY <1>5 DEF AcceptAdd, ResumeReplace, Closed
  <2>2. LiveRuns' \subseteq LiveRuns
    BY <1>1, <2>1 DEF Closed
  <2>3. /\ Cardinality(LiveRuns') \in Nat /\ Cardinality(LiveRuns) \in Nat
        /\ Cardinality(LiveRuns') <= Cardinality(LiveRuns)
    BY <1>2, <2>2, CountSubset
  <2> QED BY <2>3, SizesAssumption
<1> QED BY <1>4, <1>5

LEMMA LimitsKept == ASSUME Standing, LimitInv, [Next]_vars PROVE LimitInv'
<1>1. TypeAndRuns /\ MaxInflight \in Nat /\ MaxDevInflight \in Nat
  BY SizesAssumption DEF Standing, Ground
<1>2. DoorRoom /\ DrainFits /\ Cardinality(devRuns) <= MaxDevInflight
      /\ DoorRoom' /\ DrainFits'
  BY DoorHasRoom, DrainKept DEF LimitInv
<1>3. inflight \in Int /\ devRuns \subseteq Run
  BY <1>1 DEF TypeAndRuns, TypeInv, CapacityOK
<1>4. Reliable' => Reliable /\ inflight <= MaxInflight /\ Cardinality(LiveRuns) <= MaxInflight
  BY <1>1, ReliableBefore DEF LimitInv
<1>5. Reliable' /\ Restore => ~ArchiveMayFail
  BY DEF Restore, Boot, Reliable, Standing, CauseInv, FirstLife
<1>6. Cardinality(devRuns') <= MaxDevInflight
  <2>1. devRuns' \subseteq devRuns \/ Take
    BY <1>1, CapacitySteps DEF Restore, Boot
  <2>2. CASE devRuns' \subseteq devRuns
    <3>1. Cardinality(devRuns') \in Nat /\ Cardinality(devRuns) \in Nat
          /\ Cardinality(devRuns') <= Cardinality(devRuns)
      BY <1>3, <2>2, CountSubset
    <3> QED BY <1>1, <1>2, <3>1
  <2>3. CASE Take
    BY <1>2, <2>3, TakeWithinLimits
  <2> QED BY <2>1, <2>2, <2>3
<1>7. ASSUME Reliable' PROVE inflight' <= MaxInflight
  <2>1. CASE inflight' = inflight \/ inflight' = inflight - 1 \/ inflight' = 0
    BY <1>1, <1>3, <1>4, <1>7, <2>1
  <2>2. CASE Take
    BY <1>2, <2>2, TakeWithinLimits
  <2>3. CASE Restore
    BY <1>4, <1>5, <1>7, <2>3, RestoreWithinLimit
  <2> QED BY <1>1, <2>1, <2>2, <2>3, CapacitySteps
<1>8. ASSUME Reliable' PROVE Cardinality(LiveRuns') <= MaxInflight
  <2>1. CASE AcceptAdd \/ ResumeReplace
    BY <1>2, <1>4, <1>8, <2>1, NewcomersWithinLimit
  <2>2. CASE ~(AcceptAdd \/ ResumeReplace)
    <3>1. LiveRuns' \subseteq LiveRuns /\ LiveRuns \subseteq Run
      BY <1>8, <2>2, LiveIsOver DEF LiveRuns
    <3>2. Cardinality(LiveRuns') \in Nat /\ Cardinality(LiveRuns) \in Nat
          /\ Cardinality(LiveRuns') <= Cardinality(LiveRuns)
      BY <3>1, CountSubset
    <3> QED BY <1>1, <1>4, <1>8, <3>2
  <2> QED BY <2>1, <2>2
<1> QED BY <1>2, <1>6, <1>7, <1>8 DEF LimitInv

LEMMA LimitsInvariant == Spec => []LimitInv
<1>1. Init => LimitInv
  <2> SUFFICES ASSUME Init PROVE LimitInv
    OBVIOUS
  <2>1. DoorRoom /\ DrainFits /\ inflight = 0 /\ devRuns = {}
    BY DEF Init, DoorRoom, DrainFits, Closed
  <2>2. LiveRuns = {}
    BY DEF Init, LiveRuns, Live, Absent, TimesOut
  <2>3. Cardinality({}) = 0
    BY FS_EmptySet
  <2> QED BY <2>1, <2>2, <2>3, SizesAssumption DEF LimitInv
<1>2. Standing /\ LimitInv /\ [Next]_vars => LimitInv'
  BY LimitsKept
<1> QED BY <1>1, <1>2, StandingHolds, PTL DEF Spec

(* The two limits of SessionCapacity hold at every moment, not only when a *)
(* request is checked.  That of the sandbox, and that no place is given    *)
(* back twice, whatever fails and however often the server restarts; the   *)
(* overall one across any number of restarts with an archive that does not *)
(* fail, and with any archive until the first restart.  (A row whose       *)
(* removal failed is restored beyond it: run restore_beyond_limit.)        *)
THEOREM LimitsHold == Spec => []WithinLimits
<1>1. Standing /\ LimitInv => WithinLimits
  <2> SUFFICES ASSUME Standing, LimitInv PROVE WithinLimits
    OBVIOUS
  <2>1. inflight >= 0 /\ Cardinality(devRuns) <= MaxDevInflight
    BY PlacesCount DEF LimitInv, Standing, Ground, TypeAndRuns, TypeInv, CapacityOK
  <2>2. Reliable => inflight <= MaxInflight
    BY DEF LimitInv
  <2> QED BY <2>1, <2>2 DEF WithinLimits, Reliable
<1> QED BY <1>1, LimitsInvariant, StandingHolds, PTL

-----------------------------------------------------------------------------
(* The manager implements RunLifecycle.                                    *)

(* The batch of a request that was checked is not empty, names a product   *)
(* once, and replaces no session in progress.                              *)
BatchFits ==
    door.pc = "add" =>
      /\ Len(door.batch) >= 1
      /\ \A i, j \in 1 .. Len(door.batch) : door.batch[i] = door.batch[j] => i = j
      /\ \A i \in 1 .. Len(door.batch) : sessions[door.batch[i]].status \notin TimesOut

LEMMA DoorChecks ==
    ASSUME TypeAndRuns, Still, [Next]_vars, door'.pc = "add"
    PROVE  \/ UNCHANGED door /\ ~(AcceptAdd \/ ResumeReplace \/ Restore)
           \/ Submit \/ SubmitDev
<1>1. door = OpenedWith(door.pc, door.batch, door.run, door.round, door.todo, door.fails)
  BY DEF TypeAndRuns, TypeInv, DoorOK, Door, OpenedWith
<1>2. ~(AcceptAdd \/ ResumeReplace)
  BY NewcomersAreNew
<1>5. ~Restore
  <2>1. ASSUME NEW rows, Boot(rows) PROVE FALSE
    <3>1. PICK a, b : door' = IF a \cup b = {} THEN Closed
                              ELSE [Closed EXCEPT !.pc = "schedule", !.todo = a, !.fails = b]
      BY <2>1 DEF Boot
    <3> QED BY <3>1 DEF Closed
  <2> QED BY <2>1 DEF Restore
<1>3. CASE Loop
  <2>1. ~(Take \/ Register \/ \E r \in Run : Schedule(r))
    BY <1>1 DEF Take, Register, Schedule, OpenedWith
  <2>2. ~Resume
    BY DEF Resume, ResumeCheck, Closed
  <2> QED BY <1>2, <1>3, <2>1, <2>2 DEF Loop
<1>4. CASE StartUp
  <2>1. ~(RestoreAnnounce \/ \E r \in Run : RestoreFail(r))
    BY <1>1 DEF RestoreAnnounce, RestoreFail, OpenedWith
  <2> QED BY <1>2, <1>4, <1>5, <2>1 DEF StartUp, Serve
<1>6. ~(Crash \/ Exit)
  BY DEF Crash, Exit, Stop, Closed
<1>7. CASE \E w \in Worker : Work(w)
  BY <1>2, <1>5, <1>7 DEF Work, Pick, Start, ReportStage, ReportTool, Report, Finish, PublishNews, Release, Forget
<1>8. CASE \E e \in Expirers : Sweep(e)
  BY <1>2, <1>5, <1>8 DEF Sweep, Scan, Expire, PublishTimeout
<1>9. CASE UNCHANGED vars \/ Purge \/ RetryArchive \/ Drain \/ \E r \in Run : BecomeOverdue(r)
  BY <1>2, <1>5, <1>9 DEF vars, Purge, RetryArchive, Drain, BecomeOverdue
<1> QED BY <1>3, <1>4, <1>6, <1>7, <1>8, <1>9 DEF Next

LEMMA BatchChecked ==
    ASSUME NEW products, products \subseteq Product, NEW batch \in Batches(products), AcceptCheck(batch)
    PROVE  BatchFits'
<1>1. door' = [Closed EXCEPT !.pc = "add", !.batch = batch] /\ sessions' = sessions
      /\ \A i \in DOMAIN batch : sessions[batch[i]].status \notin TimesOut
  BY DEF AcceptCheck, storeVars, BlocksNewAccept, TimesOut
<1>2. PICK n \in 1 .. MaxBatch : /\ batch \in [1 .. n -> products]
                                 /\ \A i, j \in 1 .. n : batch[i] = batch[j] => i = j
  BY DEF Batches
<1>3. n \in Nat /\ n >= 1 /\ batch \in Seq(products)
  BY <1>2, SizesAssumption, SeqDef
<1>4. DOMAIN batch = 1 .. n
  BY <1>2
<1>5. Len(batch) = n
  BY <1>3, <1>4, LenProperties
<1>6. door'.batch = batch
  BY <1>1 DEF Closed
<1> QED BY <1>1, <1>2, <1>3, <1>4, <1>5, <1>6 DEF BatchFits

LEMMA BatchKept == ASSUME Standing, Standing', BatchFits, [Next]_vars PROVE BatchFits'
<1>1. TypeAndRuns /\ TypeAndRuns' /\ Still
  BY DEF Standing, Ground
<1>2. CASE door'.pc # "add"
  BY <1>2 DEF BatchFits
<1>3. CASE UNCHANGED door /\ ~(AcceptAdd \/ ResumeReplace \/ Restore) /\ door.pc = "add"
  <2>1. Settling
    BY <1>1, <1>3, StepsSettle
  <2>2. \A p \in Product : sessions'[p] \in Session
    BY <1>1 DEF TypeAndRuns, TypeInv, StoreOK
  <2>3. \A p \in Product : sessions'[p].status \in TimesOut => sessions[p].status \in TimesOut
    BY <2>1, <2>2 DEF Settling, Session, TimesOut
  <2>4. \A i \in 1 .. Len(door.batch) : door.batch[i] \in Product
    BY <1>1, ElementOfSeq DEF TypeAndRuns, TypeInv, DoorOK, Door
  <2> QED BY <1>3, <2>3, <2>4 DEF BatchFits
<1>4. CASE Submit \/ SubmitDev
  BY <1>4, BatchChecked, ProductAssumption DEF Submit, SubmitDev
<1> QED BY <1>1, <1>2, <1>3, <1>4, DoorChecks

LEMMA BatchHolds == Spec => []BatchFits
<1>1. Init => BatchFits
  BY DEF Init, BatchFits, Closed
<1>2. Standing /\ Standing' /\ BatchFits /\ [Next]_vars => BatchFits'
  BY BatchKept
<1> QED BY <1>1, <1>2, StandingHolds, PTL DEF Spec

(* A server that is never stopped: the bound on restarts is zero.          *)
NeverStops == crashes = 0 /\ phase = "up" /\ expirers["drain"].pc = "idle"

LEMMA NeverStopsHolds == ASSUME MaxCrashes = 0 PROVE Spec => []NeverStops
<1>1. Init => NeverStops
  BY DEF Init, NeverStops, Resting, Expirers
<1>2. TypeAndRuns /\ NeverStops /\ [Next]_vars => NeverStops'
  <2> SUFFICES ASSUME TypeAndRuns, NeverStops, [Next]_vars PROVE NeverStops'
    OBVIOUS
  <2>1. ~(Crash \/ Exit \/ Drain \/ Restore \/ Serve)
    BY DEF NeverStops, Crash, Exit, Drain, Restore, Boot, Serve
  <2>2. CASE UNCHANGED <<lifeVars, expirers>>
    BY <2>2 DEF NeverStops, lifeVars
  <2>3. CASE Loop
    BY <2>2, <2>3 DEF Loop, Submit, SubmitDev, AcceptCheck, AcceptAdd, Take, ResumeReplace, Register, Resume,
                      ResumeCheck, Schedule
  <2>9. CASE RestoreAnnounce \/ \E r \in Run : RestoreFail(r)
    BY <2>2, <2>9 DEF RestoreAnnounce, RestoreFail
  <2>4. CASE \E w \in Worker : Work(w)
    BY <2>2, <2>4 DEF Work, Pick, Start, ReportStage, ReportTool, Report, Finish, PublishNews, Release, Forget
  <2>5. ASSUME NEW e \in Expirers, Sweep(e) PROVE NeverStops'
    <3>1. e # "drain"
      BY <2>5 DEF NeverStops, Sweep, Scan, Expire, PublishTimeout
    <3>2. expirers'["drain"] = expirers["drain"]
      BY <2>5, <3>1 DEF Sweep, Scan, Expire, PublishTimeout, TypeAndRuns, TypeInv, ExpirersOK, Expirers
    <3> QED BY <2>5, <3>2 DEF NeverStops, Sweep, Scan, Expire, PublishTimeout, lifeVars
  <2>6. CASE Purge
    BY <2>6 DEF NeverStops, Purge, lifeVars, TypeAndRuns, TypeInv, ExpirersOK, Expirers
  <2>7. CASE RetryArchive \/ \E r \in Run : BecomeOverdue(r)
    BY <2>2, <2>7 DEF RetryArchive, BecomeOverdue
  <2>8. CASE UNCHANGED vars
    BY <2>2, <2>8 DEF vars
  <2> QED BY <2>1, <2>2, <2>3, <2>4, <2>5, <2>6, <2>7, <2>8, <2>9 DEF Next, StartUp
<1> QED BY <1>1, <1>2, TypeAndRunsInvariant, PTL DEF Spec

LEMMA LiveWereIssued == ASSUME TypeAndRuns, NEW r \in Run, Live(r) PROVE r \in Issued
<1>1. r # NoRun
  BY RunFacts
<1>2. issued \in Nat /\ r \in Nat \ {0}
  BY SizesAssumption DEF TypeAndRuns, TypeInv, ContextOK, Run
<1>3. r <= issued
  BY <1>1 DEF Live, TypeAndRuns, RunsIssued, StoredIssued
<1> QED BY <1>2, <1>3 DEF Issued

(* The runs of an accepted request are all set going, and none of those    *)
(* already in progress is replaced.                                        *)
Admits(new) ==
    /\ new # {} /\ new \subseteq Run \ Issued
    /\ LiveRuns' = LiveRuns \cup new
    /\ \A r \in Run : r <= issued' <=> r <= issued \/ r \in new

LEMMA AcceptAdmits ==
    ASSUME Standing, Standing', BatchFits, AcceptAdd PROVE \E new : Admits(new)
<1> DEFINE new == issued + 1 .. issued + Len(door.batch)
           b == door.batch
<1>1. /\ LiveRuns' \subseteq LiveRuns \cup door'.todo /\ door'.todo \subseteq Run \ Issued
      /\ phase' = phase /\ phase # "down"
  BY NewcomersAreThose DEF AcceptAdd, Standing, Ground, Still
<1>2. /\ door.pc = "add" /\ door' = [Closed EXCEPT !.pc = "take", !.todo = new]
      /\ issued' = issued + Len(b)
      /\ owner' = [r \in Run |-> IF r \in new THEN b[r - issued] ELSE owner[r]]
      /\ sessions' = [p \in Product |->
                      IF \E r \in new : owner'[r] = p
                      THEN Accepted(CHOOSE r \in new : owner'[r] = p)
                      ELSE sessions[p]]
  BY DEF AcceptAdd
<1>3. door'.todo = new
  BY <1>2 DEF Closed
<1>4. /\ issued \in Nat /\ Len(b) \in Nat /\ Len(b) >= 1
      /\ \A i \in 1 .. Len(b) : b[i] \in Product
  BY <1>2, SizesAssumption, LenProperties, ElementOfSeq
  DEF BatchFits, Standing, Ground, TypeAndRuns, TypeInv, ContextOK, DoorOK, Door
<1>5. \A r \in new : r \in Run /\ r - issued \in 1 .. Len(b) /\ owner'[r] = b[r - issued]
  BY <1>1, <1>2, <1>3, <1>4
<1>6. ASSUME NEW r \in new PROVE Live(r)'
  <2>1. PICK p : p = owner'[r]
    OBVIOUS
  <2>2. p \in Product
    BY <1>4, <1>5, <2>1
  <2>3. ASSUME NEW x \in new, owner'[x] = p PROVE x = r
    <3>1. b[x - issued] = b[r - issued]
      BY <1>5, <2>1, <2>3
    <3>2. x - issued = r - issued
      BY <1>2, <1>5, <3>1 DEF BatchFits
    <3> QED BY <1>4, <3>2
  <2>4. sessions'[p] = Accepted(CHOOSE x \in new : owner'[x] = p)
    BY <1>2, <2>1, <2>2
  <2>5. (CHOOSE x \in new : owner'[x] = p) = r
    BY <2>1, <2>3
  <2>6. sessions'[p].run = r /\ sessions'[p].status \in TimesOut
    BY <2>4, <2>5 DEF Accepted, TimesOut
  <2> QED BY <1>1, <2>2, <2>6 DEF Live
<1>7. ASSUME NEW r \in LiveRuns PROVE Live(r)'
  <2>1. PICK p \in Product : sessions[p].run = r /\ sessions[p].status \in TimesOut
    BY <1>1 DEF LiveRuns, Live
  <2>2. ~\E x \in new : owner'[x] = p
    <3> SUFFICES ASSUME NEW x \in new, owner'[x] = p PROVE FALSE
      OBVIOUS
    <3>1. x - issued \in 1 .. Len(b) /\ b[x - issued] = p
      BY <1>5
    <3> QED BY <1>2, <2>1, <3>1 DEF BatchFits
  <2>3. sessions'[p] = sessions[p]
    BY <1>2, <2>2
  <2> QED BY <1>1, <2>1, <2>3 DEF Live
<1>8. LiveRuns' = LiveRuns \cup new
  <2>1. LiveRuns \subseteq Run /\ new \subseteq Run
    BY <1>1, <1>3 DEF LiveRuns
  <2>2. LiveRuns \cup new \subseteq LiveRuns'
    BY <1>6, <1>7, <2>1 DEF LiveRuns
  <2> QED BY <1>1, <1>3, <2>2
<1>9. new # {} /\ \A r \in Run : r <= issued' <=> r <= issued \/ r \in new
  <2>1. PICK n : n = Len(b)
    OBVIOUS
  <2>2. n \in Nat /\ n >= 1 /\ issued' = issued + n /\ new = issued + 1 .. issued + n
    BY <1>2, <1>4, <2>1
  <2>3. issued + 1 \in issued + 1 .. issued + n
    BY <1>4, <2>2
  <2>4. \A r \in Nat : r <= issued + n <=> r <= issued \/ r \in issued + 1 .. issued + n
    BY <1>4, <2>2
  <2> QED BY <2>2, <2>3, <2>4, RunFacts
<1> QED BY <1>1, <1>3, <1>8, <1>9 DEF Admits

LEMMA ResumeAdmits ==
    ASSUME Standing, Standing', ResumeReplace
    PROVE  (\E new : Admits(new)) \/ UNCHANGED <<storeVars, contextVars, lifeVars>>
<1>4. PICK p, n : p = owner[door.run] /\ n = issued + 1
  OBVIOUS
<1>1. /\ LiveRuns' \subseteq LiveRuns \cup door'.todo /\ door'.todo \subseteq Run \ Issued
      /\ phase' = phase /\ phase # "down"
  BY NewcomersAreThose DEF ResumeReplace, Standing, Ground, Still
<1>2. CASE Applicable(door.run, "Resume") /\ sessions[p].round = door.round
  <2>1. /\ issued' = n
        /\ sessions' = [sessions EXCEPT ![p] = [Moved(sessions[p], "Resume") EXCEPT !.run = n]]
        /\ door' = [Closed EXCEPT !.pc = "take", !.todo = {n}]
        /\ sessions[p].status = "AWAITING_INPUT"
    BY <1>2, <1>4 DEF ResumeReplace, Set, Applicable, Sources
  <2>2. issued \in Nat /\ p \in Product
    BY <1>4, SizesAssumption DEF ResumeReplace, Standing, Ground, TypeAndRuns, TypeInv, ContextOK, DoorOK, Door,
                                 RunsIssued, OwnersKnown, DoorIssued, Issued, Run
  <2>3. door'.todo = {n}
    BY <2>1 DEF Closed
  <2>4. sessions'[p].run = n /\ sessions'[p].status = "ACCEPTED"
    <3>1. sessions \in [Product -> Session]
      BY DEF Standing, Ground, TypeAndRuns, TypeInv, StoreOK
    <3>2. sessions'[p] = [Moved(sessions[p], "Resume") EXCEPT !.run = n]
      BY <2>1, <2>2, <3>1
    <3> QED BY <2>1, <2>2, <3>1, <3>2 DEF Moved, Session, Target
  <2>5. Live(n)'
    BY <1>1, <2>2, <2>4 DEF Live, TimesOut
  <2>6. ASSUME NEW r \in LiveRuns PROVE Live(r)'
    <3>1. PICK q \in Product : sessions[q].run = r /\ sessions[q].status \in TimesOut
      BY <1>1 DEF LiveRuns, Live
    <3>2. q # p
      BY <2>1, <3>1 DEF TimesOut
    <3>3. sessions'[q] = sessions[q]
      BY <2>1, <3>2 DEF Standing, Ground, TypeAndRuns, TypeInv, StoreOK
    <3> QED BY <1>1, <3>1, <3>3 DEF Live
  <2>7. LiveRuns' = LiveRuns \cup {n}
    <3>1. n \in Run /\ LiveRuns \subseteq Run
      BY <1>1, <2>3 DEF LiveRuns
    <3>2. LiveRuns \cup {n} \subseteq LiveRuns'
      BY <2>5, <2>6, <3>1 DEF LiveRuns
    <3> QED BY <1>1, <2>3, <3>2
  <2>8. \A r \in Run : r <= issued' <=> r <= issued \/ r \in {n}
    BY <1>4, <2>1, <2>2, RunFacts
  <2>9. Admits({n})
    BY <1>1, <2>3, <2>7, <2>8 DEF Admits
  <2> QED BY <2>9
<1>3. CASE ~(Applicable(door.run, "Resume") /\ sessions[p].round = door.round)
  BY <1>3, <1>4 DEF ResumeReplace
<1> QED BY <1>2, <1>3

(* The life of runs as RunLifecycle sees it.                               *)
StatesFit ==
    /\ Lifecycle!live = LiveRuns
    /\ \A r \in Run : /\ RunState(r) = "unused" <=> r \notin Issued
                      /\ RunState(r) = "live" <=> r \in LiveRuns
                      /\ RunState(r) = "ended" <=> r \in Issued /\ r \notin LiveRuns
                      /\ RunState(r) \in {"unused", "live", "ended"}

LEMMA LifeStates == TypeAndRuns => StatesFit
<1> SUFFICES ASSUME TypeAndRuns PROVE StatesFit
  OBVIOUS
<1>1. \A r \in LiveRuns : r \in Issued
  BY LiveWereIssued DEF LiveRuns
<1>2. \A r \in Run : r \in Issued <=> ~(r > issued)
  BY SizesAssumption DEF TypeAndRuns, TypeInv, ContextOK, Run, Issued
<1>3. \A r \in Run : RunState(r) = IF r \notin Issued THEN "unused"
                                   ELSE IF r \in LiveRuns THEN "live" ELSE "ended"
  BY <1>2 DEF RunState, LiveRuns
<1>4. LiveRuns \subseteq Run
  BY DEF LiveRuns
<1>5. Lifecycle!live = {r \in Run : RunState(r) = "live"}
  BY DEF Lifecycle!live
<1> QED BY <1>1, <1>3, <1>4, <1>5 DEF StatesFit

LEMMA CountsAlike == \A S : Lifecycle!Cardinality(S) = Cardinality(S)
  BY DEF Lifecycle!Cardinality, Cardinality

SameTold == \A r : Told(r)' <=> Told(r)

LEMMA ToldIsKept == ASSUME SameTold PROVE [r \in Run |-> Told(r)]' = [r \in Run |-> Told(r)]
<1>1. \A r \in Run : Told(r)' = Told(r)
  BY ZenonT(20) DEF SameTold, Told
<1> QED BY <1>1, Zenon

(* A request that is accepted.                                             *)
LEMMA AdmittedAsPromised ==
    ASSUME Standing, Standing', LimitInv', Reliable', SameTold, NEW new, Admits(new)
    PROVE  Lifecycle!Next
<1>1. /\ new # {} /\ new \subseteq Run /\ new \cap Issued = {}
      /\ LiveRuns' = LiveRuns \cup new
      /\ \A r \in Run : r \in Issued' <=> r \in Issued \/ r \in new
  BY SizesAssumption DEF Admits, Standing, Ground, TypeAndRuns, TypeInv, ContextOK, Run, Issued
<1>2. TypeAndRuns /\ TypeAndRuns' /\ Cardinality(LiveRuns') <= MaxInflight
  BY DEF Standing, Ground, LimitInv
<1>7. StatesFit /\ StatesFit'
  <2>1. (TypeAndRuns => StatesFit) /\ (TypeAndRuns' => StatesFit')
    BY LifeStates, PTL
  <2> QED BY <1>2, <2>1
<1>3. \A r \in Run : RunState(r)' = IF r \in new THEN "live" ELSE RunState(r)
  <2> QED BY <1>1, <1>7 DEF StatesFit
<1>4. \A r \in new : RunState(r) = "unused"
  BY <1>1, <1>7 DEF StatesFit
<1>5. Lifecycle!Cardinality(Lifecycle!live \cup new) <= MaxInflight
  BY <1>1, <1>2, <1>7, CountsAlike DEF StatesFit
<1>8. [r \in Run |-> RunState(r)]' = [r \in Run |-> IF r \in new THEN "live" ELSE RunState(r)]
  BY <1>3
<1>6. Lifecycle!Accept(new)
  BY <1>1, <1>4, <1>5, <1>8, ToldIsKept DEF Lifecycle!Accept
<1> QED BY <1>1, <1>6 DEF Lifecycle!Next

(* A step that ends runs, or none.                                         *)
LEMMA EndedAsPromised ==
    ASSUME Standing, Standing', UNCHANGED issued, SameTold, LiveRuns' \subseteq LiveRuns
    PROVE  Lifecycle!Next \/ UNCHANGED <<[r \in Run |-> RunState(r)], [r \in Run |-> Told(r)]>>
<1>1. PICK over : over = LiveRuns \ LiveRuns'
  OBVIOUS
<1>2. over \subseteq LiveRuns /\ LiveRuns \subseteq Run /\ LiveRuns' = LiveRuns \ over /\ Issued' = Issued
  BY <1>1 DEF LiveRuns, Issued
<1>3. TypeAndRuns /\ TypeAndRuns'
  BY DEF Standing, Ground
<1>7. StatesFit /\ StatesFit'
  <2>1. (TypeAndRuns => StatesFit) /\ (TypeAndRuns' => StatesFit')
    BY LifeStates, PTL
  <2> QED BY <1>3, <2>1
<1>4. \A r \in Run : RunState(r)' = IF r \in over THEN "ended" ELSE RunState(r)
  <2>2. \A r \in over : r \in Issued
    BY <1>2, <1>3, LiveWereIssued DEF LiveRuns
  <2> QED BY <1>2, <1>7, <2>2 DEF StatesFit
<1>5. CASE over = {}
  <2>1. \A r \in Run : RunState(r)' = RunState(r)
    BY <1>4, <1>5
  <2>2. [r \in Run |-> RunState(r)]' = [r \in Run |-> RunState(r)]
    BY <2>1
  <2> QED BY <2>2, ToldIsKept
<1>6. CASE over # {}
  <2>1. Lifecycle!End(over)
    BY <1>2, <1>4, <1>7, ToldIsKept DEF Lifecycle!End, StatesFit
  <2> QED BY <1>2, <1>6, <2>1 DEF Lifecycle!Next
<1> QED BY <1>5, <1>6

(* A step that tells of the ending of a run.                               *)
LEMMA ToldAsPromised ==
    ASSUME Standing, UNCHANGED <<storeVars, contextVars, lifeVars>>,
           NEW r \in Run, ~Told(r), TellsOf({r})
    PROVE  Lifecycle!Next
<1>1. /\ r \in Issued /\ ~Going(r) /\ phase # "down" /\ \A x : Told(x)' <=> Told(x) \/ x \in {r}
  BY DEF TellsOf
<1>2. RunState(r) = "ended"
  BY <1>1, LifeStates, LiveOrGoing DEF Standing, Ground, LiveRuns, StatesFit
<1>3. \A x \in Run : RunState(x)' = RunState(x)
  BY DEF RunState, Live, storeVars, contextVars, lifeVars
<1>4. \A x \in Run : Told(x)' = IF x = r THEN TRUE ELSE Told(x)
  BY <1>1, ZenonT(20) DEF Told
<1>5. [x \in Run |-> Told(x)]' = [[x \in Run |-> Told(x)] EXCEPT ![r] = TRUE]
  BY <1>4
<1>6. [x \in Run |-> RunState(x)]' = [x \in Run |-> RunState(x)]
  BY <1>3
<1>7. Lifecycle!Announce(r)
  BY <1>2, <1>5, <1>6 DEF Lifecycle!Announce
<1> QED BY <1>7 DEF Lifecycle!Next

LEMMA LivesAsPromised ==
    ASSUME Standing, Standing', EndInv, LimitInv', BatchFits, Reliable', [Next]_vars
    PROVE  Lifecycle!Next \/ UNCHANGED <<[r \in Run |-> RunState(r)], [r \in Run |-> Told(r)]>>
<1>1. Reliable /\ TypeAndRuns
  BY ReliableBefore DEF Standing, Ground
<1>2. UNCHANGED sent => SameTold
  BY DEF SameTold, Told
<1>3. CASE AcceptAdd \/ ResumeReplace
  <2>1. SameTold
    BY <1>1, <1>2, <1>3, NewcomersAreNew DEF callbackVars
  <2>2. CASE \E new : Admits(new)
    BY <2>1, <2>2, AdmittedAsPromised
  <2>3. CASE UNCHANGED <<storeVars, contextVars, lifeVars>>
    <3>1. issued' = issued /\ LiveRuns' = LiveRuns
      BY <2>3 DEF storeVars, contextVars, lifeVars, LiveRuns, Live
    <3> QED BY <2>1, <3>1, EndedAsPromised
  <2> QED BY <1>3, <2>2, <2>3, AcceptAdmits, ResumeAdmits
<1>4. CASE ~(AcceptAdd \/ ResumeReplace)
  <2>1. LiveRuns' \subseteq LiveRuns
    BY <1>4, LiveIsOver DEF LiveRuns
  <2>2. CASE Restore \/ Crash \/ Exit
    <3>1. UNCHANGED <<sent, issued>>
      BY <2>2 DEF Restore, Boot, Crash, Exit, Stop, callbackVars, contextVars
    <3> QED BY <1>2, <2>1, <3>1, EndedAsPromised
  <2>3. CASE ~(Restore \/ Crash \/ Exit)
    <3>1. issued' = issued
      BY <1>1, <1>4, <2>3, StepsSettle DEF contextVars
    <3>2. CASE TellsOf({})
      <4>1. SameTold
        BY <3>2 DEF TellsOf, SameTold
      <4> QED BY <2>1, <3>1, <4>1, EndedAsPromised
    <3>3. CASE /\ UNCHANGED <<storeVars, contextVars, lifeVars>>
               /\ \E r \in Run : ~Told(r) /\ TellsOf({r})
      BY <3>3, ToldAsPromised
    <3> QED BY <1>1, <2>3, <3>2, <3>3, TellsOnce
  <2> QED BY <2>2, <2>3
<1> QED BY <1>3, <1>4

LEMMA LivesFromNothing == ASSUME Init PROVE Lifecycle!Init
<1>1. \A r \in Run : RunState(r) = "unused"
  BY SizesAssumption DEF Init, RunState, Run
<1>2. \A p \in Product : DOMAIN sent[p] = {}
  BY DEF Init
<1>3. \A r \in Run : Told(r) = FALSE
  BY <1>2 DEF Told
<1> QED BY <1>1, <1>3 DEF Lifecycle!Init

(* The manager implements RunLifecycle: runs are admitted up to the limit, *)
(* each ends once and for all, and is announced at most once and after its *)
(* end; neither late results nor restarts bring one back.  It does with an *)
(* archive that does not fail, however often it restarts, and with any     *)
(* archive as long as it does not restart.                                 *)
THEOREM ManagerImplementsLifecycle ==
    ASSUME ~ArchiveMayFail \/ MaxCrashes = 0 PROVE Spec => LifecycleSpec
<1>1. Init => Lifecycle!Init
  BY LivesFromNothing
<1>2. /\ Standing /\ Standing' /\ EndInv /\ LimitInv' /\ BatchFits /\ Reliable' /\ [Next]_vars
      => [Lifecycle!Next]_<<[r \in Run |-> RunState(r)], [r \in Run |-> Told(r)]>>
  BY LivesAsPromised
<1>3. Spec => []Reliable
  <2>1. CASE ~ArchiveMayFail
    <3>1. TRUE => Reliable
      BY <2>1 DEF Reliable
    <3> QED BY <3>1, PTL
  <2>2. CASE MaxCrashes = 0
    <3>1. NeverStops => Reliable
      BY DEF NeverStops, Reliable
    <3>2. Spec => []NeverStops
      BY <2>2, NeverStopsHolds
    <3> QED BY <3>1, <3>2, PTL
  <2> QED BY <2>1, <2>2
<1> QED BY <1>1, <1>2, <1>3, StandingHolds, EndHolds, LimitsInvariant, BatchHolds, PTL
        DEF Spec, LifecycleSpec, Lifecycle!Spec
=============================================================================

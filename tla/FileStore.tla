------------------------------ MODULE FileStore ------------------------------
(* Images of products: a page asks for an address for each, puts the images     *)
(* there itself, and creates the diagnosis with their keys; what is put and     *)
(* never used, and the images of what is removed, are deleted                  *)
(* (global/infra/s3, DiagnosesService, ProductService; uploads.ts,               *)
(* diagnosisPipeline.ts of the frontend).  The bucket is S3.                   *)
EXTENDS Naturals, FiniteSets

CONSTANTS
  Key,          \* an attempt of a page to create a diagnosis, and one of its images
  BatchSize     \* rows the clean-up takes at a time

VARIABLES
  file_rows,    \* s3_files: per key "none", "pending" or "confirmed"
  aged,         \* keys of rows older than a day
  bucket,       \* keys of the objects that are there
  uploads,      \* per attempt, how far it is
  on_way,       \* keys whose object may still arrive
  arrived,      \* keys whose page knows that the object is there
  diagnosed,    \* attempts whose diagnosis exists
  removals,     \* requests to delete, [keys, at]
  refused,      \* keys of objects that S3 answered it could not delete
  cleaner       \* the hourly clean-up, [keys, at]

fileVars == <<file_rows, aged, bucket, uploads, on_way, arrived, diagnosed, removals, refused, cleaner>>

Submit == {k[1] : k \in Key}

KeysOf(s) == {k \in Key: k[1] = s}

Resting == [keys |-> {}, at |-> "rests"]

Init ==
  /\ file_rows = [k \in Key |-> "none"]
  /\ aged = {} /\ bucket = {} /\ on_way = {} /\ arrived = {} /\ diagnosed = {}
  /\ removals = {} /\ refused = {}
  /\ uploads = [s \in Submit |-> "asks"]
  /\ cleaner = Resting

-----------------------------------------------------------------------------
(* One address after the other, each row in a transaction of its own.          *)
Presign(k) ==
  /\ uploads[k[1]] = "asks" /\ file_rows[k] = "none"
  /\ file_rows' = [file_rows EXCEPT ![k] = "pending"]
  /\ UNCHANGED <<aged, bucket, uploads, on_way, arrived, diagnosed, removals, refused, cleaner>>

(* The page has the addresses only when it has all of them.                    *)
Presigned(s) ==
  /\ uploads[s] = "asks" /\ \A k \in KeysOf(s): file_rows[k] = "pending"
  /\ uploads' = [uploads EXCEPT ![s] = "puts"]
  /\ on_way' = on_way \cup KeysOf(s)
  /\ UNCHANGED <<file_rows, aged, bucket, arrived, diagnosed, removals, refused, cleaner>>

(* An object may arrive though the page has given up on it.                    *)
Put(k) ==
  /\ k \in on_way
  /\ bucket' = bucket \cup {k} /\ on_way' = on_way \ {k} /\ arrived' = arrived \cup {k}
  /\ UNCHANGED <<file_rows, aged, uploads, diagnosed, removals, refused, cleaner>>

(* The page is closed, or one of its requests fails or is out of time.          *)
GiveUp(s) ==
  /\ uploads[s] \in {"asks", "puts"}
  /\ uploads' = [uploads EXCEPT ![s] = "over"]
  /\ UNCHANGED <<file_rows, aged, bucket, on_way, arrived, diagnosed, removals, refused, cleaner>>

(* Mutant: an image that a diagnosis uses stays pending.                       *)
StayPending(keys) == file_rows

(* markConfirmed: of the rows that are there.                                  *)
Confirmed(keys) ==
  [k \in Key |-> IF k \in keys /\ file_rows[k] # "none" THEN "confirmed" ELSE file_rows[k]]

(* All images are there before the diagnosis is asked for (submitDiagnosis).     *)
CreateDiagnoses(s) ==
  /\ uploads[s] = "puts" /\ KeysOf(s) \subseteq arrived
  /\ uploads' = [uploads EXCEPT ![s] = "over"]
  /\ diagnosed' = diagnosed \cup {s}
  /\ file_rows' = Confirmed(KeysOf(s))
  /\ UNCHANGED <<aged, bucket, on_way, arrived, removals, refused, cleaner>>

(* By the user; after the commit, on another thread, the images are deleted.     *)
Remove(s) ==
  /\ s \in diagnosed /\ diagnosed' = diagnosed \ {s}
  /\ removals' = removals \cup {[keys |-> KeysOf(s), at |-> "objects"]}
  /\ UNCHANGED <<file_rows, aged, bucket, uploads, on_way, arrived, refused, cleaner>>

(* A day passes for a row that is still pending: by then its page is done and    *)
(* its address is worthless, both of which take minutes.                        *)
DayPasses(k) ==
  /\ file_rows[k] = "pending" /\ k \notin aged /\ uploads[k[1]] = "over"
  /\ aged' = aged \cup {k} /\ on_way' = on_way \ {k}
  /\ UNCHANGED <<file_rows, bucket, uploads, arrived, diagnosed, removals, refused, cleaner>>

-----------------------------------------------------------------------------
(* Mutant: the rows go before the objects.                                     *)
RowsFirst(job) ==
  IF job.at = "objects" THEN [rows |-> job.keys, objects |-> {}, next |-> "rows"]
  ELSE [rows |-> {}, objects |-> job.keys, next |-> "done"]

(* What a step of a deletion takes away (deleteAll, then removeByKeys).         *)
Deletion(job) ==
  IF job.at = "objects" THEN [rows |-> {}, objects |-> job.keys, next |-> "rows"]
  ELSE [rows |-> job.keys, objects |-> {}, next |-> "done"]

(* S3 may answer that it could not delete some of the objects; nobody looks.     *)
TakeAway(job) ==
  /\ \E kept \in SUBSET (Deletion(job).objects \cap bucket):
       /\ bucket' = bucket \ (Deletion(job).objects \ kept)
       /\ refused' = refused \cup kept
  /\ file_rows' = [k \in Key |-> IF k \in Deletion(job).rows THEN "none" ELSE file_rows[k]]
  /\ aged' = aged \ Deletion(job).rows

(* A deletion that fails, of its objects after some of the requests.            *)
Cut(job, part) ==
  /\ part # {} => job.at = "objects"
  /\ bucket' = bucket \ part

(* S3FileDeleteEventListener.                                                 *)
DeleteRemoved(job) ==
  /\ TakeAway(job)
  /\ removals' = (removals \ {job}) \cup
       (IF Deletion(job).next = "done" THEN {} ELSE {[job EXCEPT !.at = Deletion(job).next]})
  /\ UNCHANGED <<uploads, on_way, arrived, diagnosed, cleaner>>

(* A failure is logged and forgotten, as is a deletion when the server stops.    *)
DeleteRemovedFails(job, part) ==
  /\ Cut(job, part)
  /\ removals' = removals \ {job}
  /\ UNCHANGED <<file_rows, aged, uploads, on_way, arrived, diagnosed, refused, cleaner>>

(* S3OrphanFileCleanupScheduler: batch after batch of the rows that were a day   *)
(* old when it began.                                                        *)
Expired == {k \in aged: file_rows[k] = "pending"}

FindExpired(keys) ==
  /\ cleaner.at = "rests" /\ keys \subseteq Expired /\ Cardinality(keys) \in 1 .. BatchSize
  /\ cleaner' = [keys |-> keys, at |-> "objects"]
  /\ UNCHANGED <<file_rows, aged, bucket, uploads, on_way, arrived, diagnosed, removals, refused>>

CleanUp ==
  /\ cleaner.at # "rests" /\ TakeAway(cleaner)
  /\ cleaner' = IF Deletion(cleaner).next = "done" THEN Resting ELSE [cleaner EXCEPT !.at = Deletion(cleaner).next]
  /\ UNCHANGED <<uploads, on_way, arrived, diagnosed, removals>>

(* It ends; the next hour begins anew.                                        *)
CleanUpFails(part) ==
  /\ cleaner.at # "rests" /\ Cut(cleaner, part)
  /\ cleaner' = Resting
  /\ UNCHANGED <<file_rows, aged, uploads, on_way, arrived, diagnosed, removals, refused>>

Next ==
  \/ \E k \in Key: Presign(k) \/ Put(k) \/ DayPasses(k)
  \/ \E s \in Submit: Presigned(s) \/ GiveUp(s) \/ CreateDiagnoses(s) \/ Remove(s)
  \/ \E job \in removals: DeleteRemoved(job) \/ \E part \in SUBSET job.keys: DeleteRemovedFails(job, part)
  \/ \E keys \in SUBSET Expired: FindExpired(keys)
  \/ CleanUp
  \/ \E part \in SUBSET cleaner.keys: CleanUpFails(part)

Spec == Init /\ [][Next]_fileVars

-----------------------------------------------------------------------------
(* The images of a diagnosis are there as long as it is, whatever is deleted at  *)
(* the same time and however deletions fail (DiagnosesService.createDiagnoses,   *)
(* S3OrphanFileCleanupScheduler).                                             *)
ImagesStay == \A s \in diagnosed: KeysOf(s) \subseteq bucket

(* No object is there without a row, which is all that could find it again, but  *)
(* for those S3 answered it could not delete: the row comes first and goes last   *)
(* (S3PresignedUrlProvider, S3FileDeleteEventListener).                         *)
ObjectsAreKnown == \A k \in bucket: file_rows[k] = "none" => k \in refused
=============================================================================

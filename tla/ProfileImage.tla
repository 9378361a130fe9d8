----------------------------- MODULE ProfileImage -----------------------------
(***************************************************************************)
(* The profile image of one user: StoredFile rows, the profile's reference *)
(* to one of them, the objects in storage, and the two cleanup jobs.  The  *)
(* client uploads by itself, with a presigned URL; no transaction spans    *)
(* the database, the storage and the queue.                                *)
(*                                                                         *)
(* A transaction that attaches or clears is its read of the profile and    *)
(* its writes: the writes lock the file's row and then the user's, and     *)
(* what commits between them is as if it had committed before both.        *)
(* Storage is configured.                                                  *)
(***************************************************************************)
EXTENDS Naturals

CONSTANTS
    Files,        \* StoredFile rows (and their object keys), used or not
    Procs,        \* concurrent HTTP requests of the user
    MaxAttempts,  \* DEFAULT_JOB_OPTIONS.attempts
    None

ASSUME AttemptsAssumption == MaxAttempts \in Nat \ {0}
ASSUME NoneAssumption == None \notin Files

VARIABLES
    queueing,  \* Redis is configured
    gone,      \* the user's status is DELETED
    status,    \* status of each row
    profile,   \* profileImageFileId
    object,    \* what storage holds under the key
    job,       \* the cleanup jobs of each file
    req,       \* the local state of each request
    condemned, \* history: files whose deletion was decided before or while they were attached
    raced      \* history: a transaction has written what it read is no longer true of

vars == <<queueing, gone, status, profile, object, job, req, condemned, raced>>

Status == {"none", "UPLOADING", "ACTIVE", "DELETED"}

\* "good": of the size and type of the upload plan.
Object == {"absent", "good", "bad"}

Kinds == {"expire", "delete"}

\* failed: the attempts that failed.
Job == [state : {"none", "queued", "read", "object", "mark", "ended", "failed"},
        failed : 0 .. MaxAttempts - 1]

InState(state) == [state |-> state, failed |-> 0]

\* seen: the status that was read.  previous: the image that was read.
Request == [pc : {"idle", "schedule", "current", "head", "rejectObject", "rejectMark",
                  "read", "attach", "clearRead", "clear", "enqueue",
                  "inlineObject", "inlineMark", "file"},
            file : Files \cup {None}, seen : Status, previous : Files \cup {None}]

Doing(pc, f) == [pc |-> pc, file |-> f, seen |-> "none", previous |-> None]

IdleRequest == Doing("idle", None)

(***************************************************************************)
(* Shared pieces                                                           *)
(***************************************************************************)

\* The request goes on to pc; a request that is over forgets what it knew.
Goes(p, pc) ==
    req' = [req EXCEPT ![p] = IF pc = "idle" THEN IdleRequest ELSE [@ EXCEPT !.pc = pc]]

\* updateMany with status not DELETED: of the files, those that exist are now DELETED.
MarkedDeleted(files) ==
    [f \in Files |-> IF f \in files /\ status[f] # "none" THEN "DELETED" ELSE status[f]]

Enqueued(kind, f) ==
    IF job[<<kind, f>>].state \in {"read", "object", "mark"} THEN job
    ELSE [job EXCEPT ![<<kind, f>>] = InState("queued")]

\* Without a queue the cleanup is done by the request.
CleaningUp(p, f) ==
    req' = [req EXCEPT ![p] = Doing(IF queueing THEN "enqueue" ELSE "inlineObject", f)]

(***************************************************************************)
(* createUploadPlan, and the client's upload                               *)
(***************************************************************************)

CreateUploadPlan(p, f) ==
    /\ req[p].pc = "idle" /\ status[f] = "none"
    /\ ~gone
    /\ status' = [status EXCEPT ![f] = "UPLOADING"]
    /\ req' = [req EXCEPT ![p] = Doing("schedule", f)]
    /\ UNCHANGED <<queueing, gone, profile, object, job, condemned, raced>>

\* scheduleExpireUpload: removeJob and enqueue, of an id that was never used.
ScheduleExpireUpload(p) ==
    /\ req[p].pc = "schedule"
    /\ job' = IF queueing THEN Enqueued("expire", req[p].file) ELSE job
    /\ Goes(p, "idle")
    /\ UNCHANGED <<queueing, gone, status, profile, object, condemned, raced>>

\* The presigned URL expires long before the delay of the expiry job is over.
IsUrlValid(f) == status[f] # "none" /\ job[<<"expire", f>>] \in {InState("none"), InState("queued")}

\* The client puts what it likes, as long as the URL is valid.
Upload(f, content) ==
    /\ IsUrlValid(f)
    /\ object[f] # content
    /\ object' = [object EXCEPT ![f] = content]
    /\ UNCHANGED <<queueing, gone, status, profile, job, req, condemned, raced>>

(***************************************************************************)
(* completeUpload                                                          *)
(***************************************************************************)

\* findStoredFileForOwner; a DELETED file is refused.
FindFile(p, f) ==
    /\ req[p].pc = "idle"
    /\ status[f] \in {"UPLOADING", "ACTIVE"}
    /\ req' = [req EXCEPT ![p] = [Doing("current", f) EXCEPT !.seen = status[f]]]
    /\ UNCHANGED <<queueing, gone, status, profile, object, job, condemned, raced>>

\* getProfileImageFileId: completing the attached image again changes nothing.
IsDone(p) == req[p].seen = "ACTIVE" /\ profile = req[p].file

ReadCurrent(p) ==
    /\ req[p].pc = "current"
    /\ req' = [req EXCEPT ![p] = IF IsDone(p) THEN IdleRequest ELSE Doing("head", @.file)]
    /\ UNCHANGED <<queueing, gone, status, profile, object, job, condemned, raced>>

\* headObject.
HeadObject(p) ==
    /\ req[p].pc = "head"
    /\ LET f == req[p].file
       IN  \/ object[f] = "absent" /\ Goes(p, "idle") /\ UNCHANGED condemned
           \/ object[f] = "good" /\ Goes(p, "read") /\ UNCHANGED condemned
           \/ object[f] = "bad" /\ Goes(p, "rejectObject") /\ condemned' = condemned \cup {f}
    /\ UNCHANGED <<queueing, gone, status, profile, object, job, raced>>

\* rejectUpload and tryInlineDelete: deleteObject, best effort.
DeleteObject(p) ==
    /\ req[p].pc \in {"rejectObject", "inlineObject"}
    /\ \/ object' = [object EXCEPT ![req[p].file] = "absent"]
       \/ object' = object
    /\ Goes(p, IF req[p].pc = "rejectObject" THEN "rejectMark" ELSE "inlineMark")
    /\ UNCHANGED <<queueing, gone, status, profile, job, condemned, raced>>

\* ...and markStoredFileDeleted, best effort.
MarkDeleted(p) ==
    /\ req[p].pc \in {"rejectMark", "inlineMark"}
    /\ \/ status' = MarkedDeleted({req[p].file})
       \/ status' = status
    /\ Goes(p, "idle")
    /\ UNCHANGED <<queueing, gone, profile, object, job, condemned, raced>>

\* attachProfileImageFile reads the user and the profile.
AttachRead(p) ==
    /\ req[p].pc = "read"
    /\ IF gone THEN Goes(p, "idle")
       ELSE req' = [req EXCEPT ![p].pc = "attach", ![p].previous = profile]
    /\ UNCHANGED <<queueing, gone, status, profile, object, job, condemned, raced>>

Revived(f) == "ACTIVE"

\* A file that is DELETED stays so.
Activated(f) == IF status[f] = "DELETED" THEN "DELETED" ELSE "ACTIVE"

NoneReplaced(p) == {}

PreviousAlways(p) == {req[p].previous} \ {None}

\* The image that is replaced.
Replaced(p) == {req[p].previous} \ {None, req[p].file}

\* ...and writes: the file, the profile, the previous file, whatever the rows are now.
AttachWrite(p) ==
    /\ req[p].pc = "attach"
    /\ LET f == req[p].file
       IN  /\ status' = [MarkedDeleted(Replaced(p)) EXCEPT ![f] =
                           IF f \in Replaced(p) THEN @ ELSE Activated(f)]
           /\ profile' = f
           /\ condemned' = IF status[f] = "DELETED" THEN condemned \cup {f} ELSE condemned
    /\ raced' = (raced \/ profile # req[p].previous)
    /\ IF req[p].previous \in {None, req[p].file} THEN Goes(p, "idle")
       ELSE CleaningUp(p, req[p].previous)
    /\ UNCHANGED <<queueing, gone, object, job>>

(***************************************************************************)
(* clearProfileImage, the cleanup of a file and getProfileImageUrl         *)
(***************************************************************************)

ClearRead(p) ==
    /\ req[p].pc = "idle"
    /\ ~gone /\ profile # None
    /\ req' = [req EXCEPT ![p] = [Doing("clear", None) EXCEPT !.previous = profile]]
    /\ UNCHANGED <<queueing, gone, status, profile, object, job, condemned, raced>>

ClearWrite(p) ==
    /\ req[p].pc = "clear"
    /\ profile' = None
    /\ status' = MarkedDeleted({req[p].previous})
    /\ raced' = (raced \/ profile # req[p].previous)
    /\ CleaningUp(p, req[p].previous)
    /\ UNCHANGED <<queueing, gone, object, job, condemned>>

\* enqueueDeleteStoredFile: removeJob and enqueue.
EnqueueDelete(p) ==
    /\ req[p].pc = "enqueue"
    /\ job' = Enqueued("delete", req[p].file)
    /\ Goes(p, "idle")
    /\ UNCHANGED <<queueing, gone, status, profile, object, condemned, raced>>

\* getCurrentProfileImageFile reads the user and the profile, then the file.
ReadImage(p) ==
    /\ req[p].pc = "idle"
    /\ ~gone /\ profile # None
    /\ req' = [req EXCEPT ![p] = Doing("file", profile)]
    /\ UNCHANGED <<queueing, gone, status, profile, object, job, condemned, raced>>

IsServed(p) == status[req[p].file] = "ACTIVE"

\* A URL for the image, or 204.
ServeImage(p) ==
    /\ req[p].pc = "file" /\ IsServed(p)
    /\ Goes(p, "idle")
    /\ UNCHANGED <<queueing, gone, status, profile, object, job, condemned, raced>>

ServeNothing(p) ==
    /\ req[p].pc = "file" /\ ~IsServed(p)
    /\ Goes(p, "idle")
    /\ UNCHANGED <<queueing, gone, status, profile, object, job, condemned, raced>>

\* The database, the storage or the queue fails, or the process dies; what follows a
\* committed transaction is best effort.
RequestFails(p) ==
    /\ req[p].pc # "idle"
    /\ Goes(p, "idle")
    /\ UNCHANGED <<queueing, gone, status, profile, object, job, condemned, raced>>

(***************************************************************************)
(* runExpireProfileImageUpload and runDeleteProfileImageStoredFile         *)
(***************************************************************************)

\* The delay of the expiry job is over, or a worker is free.
StartJob(kind, f) ==
    /\ job[<<kind, f>>].state = "queued"
    /\ job' = [job EXCEPT ![<<kind, f>>].state = "read"]
    /\ UNCHANGED <<queueing, gone, status, profile, object, req, condemned, raced>>

\* The expiry job is for uploads that were never completed.
AnyUpload(kind, f) == TRUE

IsStale(kind, f) == kind = "delete" \/ status[f] = "UPLOADING"

JobReads(kind, f) ==
    /\ job[<<kind, f>>].state = "read"
    /\ job' = [job EXCEPT ![<<kind, f>>] =
                 IF IsStale(kind, f) THEN [@ EXCEPT !.state = "object"] ELSE InState("ended")]
    /\ condemned' = IF kind = "expire" /\ status[f] = "UPLOADING"
                    THEN condemned \cup {f} ELSE condemned
    /\ UNCHANGED <<queueing, gone, status, profile, object, req, raced>>

JobDeletesObject(kind, f) ==
    /\ job[<<kind, f>>].state = "object"
    /\ object' = [object EXCEPT ![f] = "absent"]
    /\ job' = [job EXCEPT ![<<kind, f>>].state = "mark"]
    /\ UNCHANGED <<queueing, gone, status, profile, req, condemned, raced>>

JobMarksDeleted(kind, f) ==
    /\ job[<<kind, f>>].state = "mark"
    /\ status' = MarkedDeleted({f})
    /\ job' = [job EXCEPT ![<<kind, f>>] = InState("ended")]
    /\ UNCHANGED <<queueing, gone, profile, object, req, condemned, raced>>

RetriedAlways(j) == [state |-> "queued", failed |-> j.failed + 1]

\* What becomes of a job whose attempt failed.
Retried(j) ==
    IF j.failed + 1 < MaxAttempts THEN [state |-> "queued", failed |-> j.failed + 1]
    ELSE InState("failed")

\* The storage or the database fails, or the worker dies: the job starts over.
JobFails(kind, f) ==
    /\ job[<<kind, f>>].state \in {"read", "object", "mark"}
    /\ job' = [job EXCEPT ![<<kind, f>>] = Retried(@)]
    /\ UNCHANGED <<queueing, gone, status, profile, object, req, condemned, raced>>

\* The account is erased; the image and its rows are not touched.
EraseUser ==
    /\ ~gone
    /\ gone' = TRUE
    /\ UNCHANGED <<queueing, status, profile, object, job, req, condemned, raced>>

Proceed(p) ==
    \/ ScheduleExpireUpload(p)
    \/ ReadCurrent(p) \/ HeadObject(p) \/ DeleteObject(p) \/ MarkDeleted(p)
    \/ AttachRead(p) \/ AttachWrite(p)
    \/ ClearWrite(p) \/ EnqueueDelete(p)
    \/ ServeImage(p) \/ ServeNothing(p)
    \/ RequestFails(p)

Work(kind, f) ==
    \/ StartJob(kind, f) \/ JobReads(kind, f)
    \/ JobDeletesObject(kind, f) \/ JobMarksDeleted(kind, f)
    \/ JobFails(kind, f)

Next ==
    \/ \E p \in Procs : \/ \E f \in Files : CreateUploadPlan(p, f) \/ FindFile(p, f)
                        \/ ClearRead(p) \/ ReadImage(p)
                        \/ Proceed(p)
    \/ \E f \in Files : \/ \E content \in {"good", "bad"} : Upload(f, content)
                        \/ \E kind \in Kinds : Work(kind, f)
    \/ EraseUser

Init ==
    /\ queueing \in BOOLEAN
    /\ gone = FALSE
    /\ status = [f \in Files |-> "none"]
    /\ profile = None
    /\ object = [f \in Files |-> "absent"]
    /\ job = [k \in Kinds \X Files |-> InState("none")]
    /\ req = [p \in Procs |-> IdleRequest]
    /\ condemned = {}
    /\ raced = FALSE

Spec == Init /\ [][Next]_vars

-----------------------------------------------------------------------------
(***************************************************************************)
(* Properties.                                                             *)
(***************************************************************************)

\* Every variable has its type.
TypeOK ==
    /\ queueing \in BOOLEAN /\ gone \in BOOLEAN /\ raced \in BOOLEAN
    /\ status \in [Files -> Status]
    /\ profile \in Files \cup {None}
    /\ object \in [Files -> Object]
    /\ job \in [Kinds \X Files -> Job]
    /\ req \in [Procs -> Request]
    /\ condemned \subseteq Files

\* The profile's image is there: its row is ACTIVE and its object stored, unless the
\* file was rejected or expired as an upload, or DELETED, when it was being attached.
AttachedIsStored ==
    profile # None /\ profile \notin condemned =>
        status[profile] = "ACTIVE" /\ object[profile] # "absent"

\* No ACTIVE file is forgotten: it is the profile's image, unless two transactions
\* have read the same image and both replaced it.
ActiveIsAttached == \A f \in Files : status[f] = "ACTIVE" /\ ~raced => profile = f

\* No completion, however late, revives a file that is DELETED.
DeletedIsFinal ==
    [][\A f \in Files : status[f] = "DELETED" => status'[f] = "DELETED"]_vars
=============================================================================

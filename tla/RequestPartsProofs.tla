-------------------------- MODULE RequestPartsProofs --------------------------
(***************************************************************************)
(* Proofs about RequestParts: ProfileImage for any number of files,        *)
(* requests and attempts, and ListQueries for any table, query and page    *)
(* size.  What they say of the sum is at the end, with what                *)
(* AccessProofs says of its part.                                          *)
(***************************************************************************)
EXTENDS RequestParts, FiniteSetTheorems, TLAPS

accessed == INSTANCE AccessProofs WITH
                Tokens <- AccessTokens, Procs <- Clients, req <- guarded

-----------------------------------------------------------------------------
(* The invariant. *)

\* The types but for those of the flags.
Types ==
    /\ status \in [Files -> Status]
    /\ profile \in Files \cup {None}
    /\ object \in [Files -> Object]
    /\ job \in [Kinds \X Files -> Job]
    /\ req \in [Procs -> Request]
    /\ condemned \subseteq Files

\* What a request relies on, given the rows st, the objects ob and the condemned files co.
RequestOK(r, st, ob, co) ==
    /\ r.file \in Files => st[r.file] # "none"
    /\ r.previous \in Files => st[r.previous] # "none"
    /\ r.pc \notin {"idle", "clear"} => r.file \in Files
    /\ r.pc = "clear" => r.previous \in Files
    /\ r.pc \in {"enqueue", "inlineObject", "inlineMark"} => st[r.file] = "DELETED"
    /\ r.pc \in {"rejectObject", "rejectMark"} => r.file \in co
    /\ r.pc \in {"read", "attach"} =>
           ob[r.file] # "absent" \/ st[r.file] = "DELETED" \/ r.file \in co

\* A job to delete a file is only enqueued when its row is DELETED; one that expires an
\* upload has found it UPLOADING.
JobOK(f, j, st, co) ==
    /\ j[<<"delete", f>>].state # "none" => st[f] = "DELETED"
    /\ j[<<"expire", f>>].state \in {"object", "mark"} => f \in co

ProfileHasRow == profile # None => status[profile] # "none"

Inv ==
    /\ Types /\ ProfileHasRow /\ AttachedIsStored
    /\ \A p \in Procs : RequestOK(req[p], status, object, condemned)
    /\ \A f \in Files : JobOK(f, job, status, condemned)

\* What every step leaves true of every file.
Tame ==
    /\ \A f \in Files : status[f] # "none" => status'[f] # "none"
    /\ \A f \in Files : status[f] = "DELETED" => status'[f] = "DELETED"
    /\ condemned \subseteq condemned'
    /\ \A f \in Files : object[f] # "absent" =>
          object'[f] # "absent" \/ status'[f] = "DELETED" \/ f \in condemned'

\* ...so that what the others rely on stays true.
LEMMA OthersRely ==
    ASSUME Tame, NEW r \in Request, RequestOK(r, status, object, condemned)
    PROVE  RequestOK(r, status', object', condemned')
<1>1. r.file \in Files \/ r.file = None
  BY DEF Request
<1> QED
  BY <1>1, NoneAssumption DEF Tame, RequestOK

LEMMA JobsRely ==
    ASSUME Tame, NEW f \in Files, JobOK(f, job, status, condemned)
    PROVE  JobOK(f, job, status', condemned')
BY DEF Tame, JobOK

\* A request's record that it can have anyway.
LEMMA Records ==
    ASSUME NEW f \in Files, NEW x \in Files \cup {None}
    PROVE  /\ IdleRequest \in Request /\ IdleRequest.pc = "idle" /\ IdleRequest.file = None
           /\ IdleRequest.previous = None
           /\ \A pc \in {"schedule", "current", "head", "file", "enqueue", "inlineObject"} :
                 /\ Doing(pc, f) \in Request /\ Doing(pc, f).pc = pc
                 /\ Doing(pc, f).file = f /\ Doing(pc, f).previous = None
BY DEF IdleRequest, Doing, Request, Status

\* A step of one request, of which the parts that matter are shown.
LEMMA RequestSteps ==
    ASSUME Inv, NEW p \in Procs, NEW r \in Request, req' = [req EXCEPT ![p] = r],
           Tame, RequestOK(r, status', object', condemned'),
           status' \in [Files -> Status], profile' \in Files \cup {None},
           object' \in [Files -> Object], job' \in [Kinds \X Files -> Job],
           condemned' \subseteq Files,
           ProfileHasRow', AttachedIsStored',
           \A f \in Files : JobOK(f, job', status', condemned')
    PROVE  Inv'
<1>1. req' \in [Procs -> Request] /\ req'[p] = r /\ \A q \in Procs \ {p} : req'[q] = req[q]
  BY DEF Inv, Types
<1>2. ASSUME NEW q \in Procs PROVE RequestOK(req'[q], status', object', condemned')
  <2>1. CASE q # p
    <3>1. req[q] \in Request /\ RequestOK(req[q], status, object, condemned)
      BY DEF Inv, Types
    <3> QED
      BY <1>1, <2>1, <3>1, OthersRely
  <2> QED
    BY <1>1, <2>1
<1> QED
  BY <1>1, <1>2 DEF Inv, Types

\* A step that only moves a request, and may condemn a file.
LEMMA RequestMoves ==
    ASSUME Inv, NEW p \in Procs, NEW r \in Request, req' = [req EXCEPT ![p] = r],
           UNCHANGED <<status, profile, object, job>>,
           condemned \subseteq condemned', condemned' \subseteq Files,
           RequestOK(r, status, object, condemned')
    PROVE  Inv'
<1>1. Tame
  BY DEF Tame
<1>2. \A f \in Files : JobOK(f, job, status', condemned')
  BY <1>1, JobsRely DEF Inv
<1>3. ProfileHasRow' /\ AttachedIsStored'
  BY DEF Inv, ProfileHasRow, AttachedIsStored
<1> QED
  BY <1>1, <1>2, <1>3, RequestSteps DEF Inv, Types

\* A row that is marked DELETED; the profile's image is spared if it is not condemned.
LEMMA Marked ==
    ASSUME Inv, NEW files \in SUBSET Files, status' = MarkedDeleted(files)
    PROVE  /\ status' \in [Files -> Status]
           /\ \A f \in Files : status[f] # "none" => status'[f] # "none"
           /\ \A f \in Files : status[f] = "DELETED" => status'[f] = "DELETED"
           /\ \A f \in files : status[f] # "none" => status'[f] = "DELETED"
           /\ \A f \in Files \ files : status'[f] = status[f]
BY DEF Inv, Types, MarkedDeleted, Status

\* A file of which it was decided that it goes is not an image that must be there.
Decided(f) == f \in condemned \/ status[f] = "DELETED"

LEMMA DecidedIsNoImage ==
    ASSUME Inv, NEW f \in Files, Decided(f), profile \notin condemned PROVE f # profile
BY NoneAssumption DEF Inv, AttachedIsStored, Decided

\* Such a file may be marked, and its object deleted, while a request goes on.
LEMMA DecidedGoes ==
    ASSUME Inv, NEW f \in Files, Decided(f),
           \/ status' = status
           \/ status' = MarkedDeleted({f}),
           \/ object' = object
           \/ object' = [object EXCEPT ![f] = "absent"],
           UNCHANGED <<profile, condemned>>
    PROVE  /\ Tame /\ ProfileHasRow' /\ AttachedIsStored'
           /\ status' \in [Files -> Status] /\ object' \in [Files -> Object]
<1>1. /\ status' \in [Files -> Status]
      /\ \A g \in Files : status[g] # "none" => status'[g] # "none"
      /\ \A g \in Files : status[g] = "DELETED" => status'[g] = "DELETED"
      /\ \A g \in Files \ {f} : status'[g] = status[g]
  BY Marked DEF Inv, Types
<1>2. /\ object' \in [Files -> Object]
      /\ \A g \in Files \ {f} : object'[g] = object[g]
  BY DEF Inv, Types, Object
<1>3. Tame
  BY <1>1, <1>2 DEF Tame, Decided
<1>4. ProfileHasRow'
  BY <1>1 DEF Inv, Types, ProfileHasRow
<1>5. AttachedIsStored'
  BY <1>1, <1>2, DecidedIsNoImage DEF Inv, Types, AttachedIsStored
<1> QED
  BY <1>1, <1>2, <1>3, <1>4, <1>5

-----------------------------------------------------------------------------
(* The steps. *)

LEMMA Initially == ASSUME Init PROVE Inv
<1>1. IdleRequest \in Request
  BY DEF IdleRequest, Doing, Request, Status
<1>2. InState("none") \in Job
  BY AttemptsAssumption DEF InState, Job
<1>3. Types
  BY <1>1, <1>2 DEF Init, Types, Status, Object
<1>4. \A p \in Procs : RequestOK(req[p], status, object, condemned)
  BY NoneAssumption DEF Init, RequestOK, IdleRequest, Doing
<1>5. \A f \in Files : JobOK(f, job, status, condemned)
  BY DEF Init, JobOK, InState, Kinds
<1> QED
  BY <1>3, <1>4, <1>5 DEF Init, Inv, ProfileHasRow, AttachedIsStored

\* A request starts.
LEMMA Starts ==
    ASSUME Inv, NEW p \in Procs, NEW f \in Files, CreateUploadPlan(p, f) \/ FindFile(p, f)
    PROVE  Inv'
<1>1. CASE CreateUploadPlan(p, f)
  <2>1. /\ Doing("schedule", f) \in Request /\ req' = [req EXCEPT ![p] = Doing("schedule", f)]
        /\ UNCHANGED <<profile, object, job, condemned>>
    BY <1>1, Records DEF CreateUploadPlan
  <2>2. /\ status' \in [Files -> Status] /\ status[f] = "none" /\ status'[f] = "UPLOADING"
        /\ \A g \in Files \ {f} : status'[g] = status[g]
    BY <1>1 DEF CreateUploadPlan, Inv, Types, Status
  <2>3. Tame
    BY <2>1, <2>2 DEF Tame
  <2>4. RequestOK(Doing("schedule", f), status', object', condemned')
    BY <2>2, NoneAssumption DEF RequestOK, Doing
  <2>5. \A g \in Files : JobOK(g, job', status', condemned')
    BY <2>1, <2>3, JobsRely DEF Inv
  <2>6. ProfileHasRow' /\ AttachedIsStored'
    BY <2>1, <2>2 DEF Inv, Types, ProfileHasRow, AttachedIsStored
  <2> QED
    BY <2>1, <2>2, <2>3, <2>4, <2>5, <2>6, RequestSteps DEF Inv, Types
<1>2. CASE FindFile(p, f)
  <2> DEFINE r == [Doing("current", f) EXCEPT !.seen = status[f]]
  <2>1. r \in Request /\ r.pc = "current" /\ r.file = f /\ r.previous = None
    BY DEF Inv, Types, Doing, Request
  <2>2. RequestOK(r, status, object, condemned)
    BY <1>2, <2>1, NoneAssumption DEF FindFile, RequestOK
  <2> QED
    BY <1>2, <2>1, <2>2, RequestMoves DEF FindFile, Inv, Types
<1> QED
  BY <1>1, <1>2

\* A request goes from one place to another.
LEMMA Moves ==
    ASSUME Inv, NEW p \in Procs, req[p].pc # "idle", req[p].pc # "clear", NEW pc, Goes(p, pc),
           pc \in {"idle", "rejectObject", "rejectMark", "read", "inlineMark"}
    PROVE  \E r \in Request :
              /\ req' = [req EXCEPT ![p] = r] /\ r.pc = pc
              /\ pc = "idle" => r = IdleRequest
              /\ pc # "idle" => r.file = req[p].file /\ r.previous = req[p].previous
<1>1. req[p].file \in Files /\ req[p] \in Request
  BY DEF Inv, Types, RequestOK
<1>2. CASE pc = "idle"
  BY <1>1, <1>2, Records DEF Goes
<1>3. CASE pc # "idle"
  <2> DEFINE r == [req[p] EXCEPT !.pc = pc]
  <2>1. r \in Request /\ r.pc = pc /\ r.file = req[p].file /\ r.previous = req[p].previous
    BY <1>1 DEF Request
  <2>2. req' = [req EXCEPT ![p] = r]
    BY <1>3 DEF Goes
  <2> QED
    BY <1>3, <2>1, <2>2
<1> QED
  BY <1>2, <1>3

\* An idle request relies on nothing.
LEMMA IdleIsOK ==
    ASSUME NEW st, NEW ob, NEW co PROVE RequestOK(IdleRequest, st, ob, co)
BY NoneAssumption DEF RequestOK, IdleRequest, Doing

LEMMA Idles ==
    ASSUME Inv, NEW p \in Procs, Goes(p, "idle"),
           UNCHANGED <<status, profile, object, job, condemned>>
    PROVE  Inv'
<1>1. IdleRequest \in Request
  BY DEF IdleRequest, Doing, Request, Status
<1> QED
  BY <1>1, IdleIsOK, RequestMoves DEF Goes, Inv, Types

\* A job is enqueued: its queue entry is as good as before.
LEMMA Enqueues ==
    ASSUME Inv, NEW kind \in Kinds, NEW f \in Files, job' = Enqueued(kind, f),
           kind = "delete" => status[f] = "DELETED",
           UNCHANGED <<status, condemned>>
    PROVE  /\ job' \in [Kinds \X Files -> Job]
           /\ \A g \in Files : JobOK(g, job', status', condemned')
<1>1. InState("queued") \in Job /\ InState("queued").state = "queued"
  BY AttemptsAssumption DEF InState, Job
<1>2. /\ job' \in [Kinds \X Files -> Job]
      /\ \A k \in Kinds, g \in Files :
            \/ job'[<<k, g>>] = job[<<k, g>>]
            \/ k = kind /\ g = f /\ job'[<<k, g>>].state = "queued"
  BY <1>1 DEF Enqueued, Inv, Types
<1>3. {"delete", "expire"} = Kinds
  BY DEF Kinds
<1> QED
  BY <1>2, <1>3 DEF Inv, JobOK

\* The steps of a request that write neither rows nor objects.
LEMMA Reads ==
    ASSUME Inv, NEW p \in Procs,
           \/ ReadCurrent(p) \/ HeadObject(p) \/ AttachRead(p) \/ ClearRead(p) \/ ReadImage(p)
           \/ ServeImage(p) \/ ServeNothing(p) \/ RequestFails(p)
    PROVE  Inv'
<1> DEFINE f == req[p].file
<1>1. req[p] \in Request /\ RequestOK(req[p], status, object, condemned)
  BY DEF Inv, Types
<1>2. CASE ReadCurrent(p)
  <2>1. f \in Files /\ status[f] # "none"
    BY <1>1, <1>2 DEF ReadCurrent, RequestOK
  <2>2. Doing("head", f) \in Request /\ RequestOK(Doing("head", f), status, object, condemned)
    BY <2>1, NoneAssumption DEF Doing, Request, Status, RequestOK
  <2>3. \/ req' = [req EXCEPT ![p] = IdleRequest]
        \/ req' = [req EXCEPT ![p] = Doing("head", f)]
    BY <1>2 DEF ReadCurrent
  <2> QED
    BY <1>2, <2>1, <2>2, <2>3, Records, IdleIsOK, RequestMoves DEF ReadCurrent, Inv, Types
<1>3. CASE HeadObject(p)
  <2>1. f \in Files /\ req[p].pc # "idle" /\ req[p].pc # "clear"
    BY <1>1, <1>3 DEF HeadObject, RequestOK
  <2>2. CASE Goes(p, "idle") /\ UNCHANGED condemned
    BY <1>3, <2>2, Idles DEF HeadObject
  <2>3. CASE object[f] = "good" /\ Goes(p, "read") /\ UNCHANGED condemned
    <3>1. PICK r \in Request : /\ req' = [req EXCEPT ![p] = r] /\ r.pc = "read"
                               /\ r.file = f /\ r.previous = req[p].previous
      BY <2>1, <2>3, Moves
    <3>2. RequestOK(r, status, object, condemned)
      BY <1>1, <2>1, <2>3, <3>1 DEF RequestOK
    <3> QED
      BY <1>3, <2>3, <3>1, <3>2, RequestMoves DEF HeadObject, Inv, Types
  <2>4. CASE Goes(p, "rejectObject") /\ condemned' = condemned \cup {f}
    <3>1. PICK r \in Request : /\ req' = [req EXCEPT ![p] = r] /\ r.pc = "rejectObject"
                               /\ r.file = f /\ r.previous = req[p].previous
      BY <2>1, <2>4, Moves
    <3>2. RequestOK(r, status, object, condemned')
      BY <1>1, <2>1, <2>4, <3>1 DEF RequestOK
    <3> QED
      BY <1>3, <2>1, <2>4, <3>1, <3>2, RequestMoves DEF HeadObject, Inv, Types
  <2> QED
    BY <1>3, <2>2, <2>3, <2>4 DEF HeadObject
<1>4. CASE AttachRead(p)
  <2> DEFINE r == [req[p] EXCEPT !.pc = "attach", !.previous = profile]
  <2>1. CASE Goes(p, "idle")
    BY <1>4, <2>1, Idles DEF AttachRead
  <2>2. CASE req' = [req EXCEPT ![p] = r]
    <3>1. r \in Request /\ r.pc = "attach" /\ r.file = f /\ r.previous = profile
      BY <1>1 DEF Inv, Types, Request
    <3>2. RequestOK(r, status, object, condemned)
      BY <1>1, <1>4, <3>1, NoneAssumption DEF AttachRead, RequestOK, Inv, ProfileHasRow
    <3> QED
      BY <1>4, <2>2, <3>1, <3>2, RequestMoves DEF AttachRead, Inv, Types
  <2> QED
    BY <1>4, <2>1, <2>2 DEF AttachRead
<1>5. CASE ClearRead(p)
  <2> DEFINE r == [Doing("clear", None) EXCEPT !.previous = profile]
  <2>1. r \in Request /\ r.pc = "clear" /\ r.file = None /\ r.previous = profile
    BY DEF Doing, Request, Status, Inv, Types
  <2>2. RequestOK(r, status, object, condemned)
    BY <1>5, <2>1, NoneAssumption DEF ClearRead, RequestOK, Inv, Types, ProfileHasRow
  <2> QED
    BY <1>5, <2>1, <2>2, RequestMoves DEF ClearRead, Inv, Types
<1>6. CASE ReadImage(p)
  <2>1. profile \in Files /\ status[profile] # "none"
    BY <1>6 DEF ReadImage, Inv, Types, ProfileHasRow
  <2>2. /\ Doing("file", profile) \in Request
        /\ RequestOK(Doing("file", profile), status, object, condemned)
    BY <2>1, NoneAssumption DEF Doing, Request, Status, RequestOK
  <2> QED
    BY <1>6, <2>2, RequestMoves DEF ReadImage, Inv, Types
<1>7. CASE ServeImage(p) \/ ServeNothing(p) \/ RequestFails(p)
  BY <1>7, Idles DEF ServeImage, ServeNothing, RequestFails
<1> QED
  BY <1>2, <1>3, <1>4, <1>5, <1>6, <1>7

\* The cleanup that a request does or enqueues: the file has been decided upon.
LEMMA Cleanups ==
    ASSUME Inv, NEW p \in Procs,
           DeleteObject(p) \/ MarkDeleted(p) \/ EnqueueDelete(p) \/ ScheduleExpireUpload(p)
    PROVE  Inv'
<1> DEFINE f == req[p].file
<1>1. req[p] \in Request /\ RequestOK(req[p], status, object, condemned)
  BY DEF Inv, Types
<1>2. CASE DeleteObject(p)
  <2> DEFINE pc == IF req[p].pc = "rejectObject" THEN "rejectMark" ELSE "inlineMark"
  <2>1. f \in Files /\ Decided(f) /\ req[p].pc # "idle" /\ req[p].pc # "clear"
    BY <1>1, <1>2 DEF DeleteObject, RequestOK, Decided
  <2>2. Goes(p, pc) /\ pc \in {"rejectMark", "inlineMark"}
    BY <1>2 DEF DeleteObject
  <2>3. PICK r \in Request : /\ req' = [req EXCEPT ![p] = r] /\ r.pc = pc
                             /\ r.file = f /\ r.previous = req[p].previous
    BY <2>1, <2>2, Moves
  <2>4. /\ Tame /\ ProfileHasRow' /\ AttachedIsStored'
        /\ status' \in [Files -> Status] /\ object' \in [Files -> Object]
    BY <1>2, <2>1, DecidedGoes DEF DeleteObject
  <2>5. \A g \in Files : JobOK(g, job', status', condemned')
    BY <1>2, <2>4, JobsRely DEF DeleteObject, Inv
  <2>6. RequestOK(r, status', object', condemned')
    BY <1>1, <1>2, <2>1, <2>3 DEF DeleteObject, RequestOK
  <2> QED
    BY <1>2, <2>3, <2>4, <2>5, <2>6, RequestSteps DEF DeleteObject, Inv, Types
<1>3. CASE MarkDeleted(p)
  <2>1. f \in Files /\ Decided(f)
    BY <1>1, <1>3 DEF MarkDeleted, RequestOK, Decided
  <2>2. req' = [req EXCEPT ![p] = IdleRequest] /\ IdleRequest \in Request
    BY <1>3, <2>1, Records DEF MarkDeleted, Goes
  <2>3. /\ Tame /\ ProfileHasRow' /\ AttachedIsStored'
        /\ status' \in [Files -> Status] /\ object' \in [Files -> Object]
    BY <1>3, <2>1, DecidedGoes DEF MarkDeleted
  <2>4. \A g \in Files : JobOK(g, job', status', condemned')
    BY <1>3, <2>3, JobsRely DEF MarkDeleted, Inv
  <2> QED
    BY <1>3, <2>2, <2>3, <2>4, IdleIsOK, RequestSteps DEF MarkDeleted, Inv, Types
<1>4. CASE EnqueueDelete(p) \/ ScheduleExpireUpload(p)
  <2>1. f \in Files /\ (EnqueueDelete(p) => status[f] = "DELETED")
    BY <1>1, <1>4 DEF EnqueueDelete, ScheduleExpireUpload, RequestOK
  <2>2. /\ req' = [req EXCEPT ![p] = IdleRequest] /\ IdleRequest \in Request
        /\ UNCHANGED <<status, profile, object, condemned>>
    BY <1>4, <2>1, Records DEF EnqueueDelete, ScheduleExpireUpload, Goes
  <2>3. \/ job' = Enqueued("delete", f) /\ status[f] = "DELETED"
        \/ job' = Enqueued("expire", f)
        \/ job' = job
    BY <1>4, <2>1 DEF EnqueueDelete, ScheduleExpireUpload
  <2>4. Tame
    BY <2>2 DEF Tame
  <2>5. /\ job' \in [Kinds \X Files -> Job]
        /\ \A g \in Files : JobOK(g, job', status', condemned')
    <3>1. CASE job' = job
      BY <2>2, <3>1, <2>4, JobsRely DEF Inv, Types
    <3>2. CASE job' # job
      BY <2>1, <2>2, <2>3, <3>2, Enqueues DEF Kinds
    <3> QED
      BY <3>1, <3>2
  <2>6. ProfileHasRow' /\ AttachedIsStored'
    BY <2>2 DEF Inv, ProfileHasRow, AttachedIsStored
  <2> QED
    BY <2>2, <2>4, <2>5, <2>6, IdleIsOK, RequestSteps DEF Inv, Types
<1> QED
  BY <1>2, <1>3, <1>4

\* A request that clears the image it has read, or replaces it.
LEMMA CleaningUpIsOK ==
    ASSUME Inv, NEW p \in Procs, NEW f \in Files, CleaningUp(p, f), status'[f] = "DELETED"
    PROVE  \E r \in Request : /\ req' = [req EXCEPT ![p] = r]
                              /\ RequestOK(r, status', object', condemned')
<1> DEFINE pc == IF queueing THEN "enqueue" ELSE "inlineObject"
<1>1. pc \in {"enqueue", "inlineObject"}
  OBVIOUS
<1>2. Doing(pc, f) \in Request /\ RequestOK(Doing(pc, f), status', object', condemned')
  BY <1>1, NoneAssumption DEF Doing, Request, Status, RequestOK
<1>3. req' = [req EXCEPT ![p] = Doing(pc, f)]
  BY DEF CleaningUp
<1> QED
  BY <1>2, <1>3

LEMMA Clears == ASSUME Inv, NEW p \in Procs, ClearWrite(p) PROVE Inv'
<1> DEFINE g == req[p].previous
<1>1. g \in Files /\ status[g] # "none"
  BY DEF ClearWrite, Inv, RequestOK
<1>2. /\ status' \in [Files -> Status]
      /\ \A f \in Files : status[f] # "none" => status'[f] # "none"
      /\ \A f \in Files : status[f] = "DELETED" => status'[f] = "DELETED"
      /\ status'[g] = "DELETED"
  BY <1>1, Marked DEF ClearWrite
<1>3. Tame
  BY <1>2 DEF ClearWrite, Tame
<1>4. PICK r \in Request : /\ req' = [req EXCEPT ![p] = r]
                           /\ RequestOK(r, status', object', condemned')
  BY <1>1, <1>2, CleaningUpIsOK DEF ClearWrite
<1>5. \A f \in Files : JobOK(f, job', status', condemned')
  BY <1>3, JobsRely DEF ClearWrite, Inv
<1>6. ProfileHasRow' /\ AttachedIsStored'
  BY DEF ClearWrite, ProfileHasRow, AttachedIsStored
<1> QED
  BY <1>2, <1>3, <1>4, <1>5, <1>6, RequestSteps DEF ClearWrite, Inv, Types

LEMMA Attaches == ASSUME Inv, NEW p \in Procs, AttachWrite(p) PROVE Inv'
<1> DEFINE f == req[p].file
           g == req[p].previous
<1>1. /\ f \in Files /\ status[f] # "none" /\ req[p] \in Request
      /\ g \in Files \cup {None} /\ (g \in Files => status[g] # "none")
      /\ object[f] # "absent" \/ status[f] = "DELETED" \/ f \in condemned
  BY DEF AttachWrite, Inv, Types, RequestOK, Request
<1>2. Replaced(p) \in SUBSET Files /\ f \notin Replaced(p)
  BY <1>1 DEF Replaced
<1>3. /\ status' \in [Files -> Status]
      /\ \A h \in Files : status[h] # "none" => status'[h] # "none"
      /\ \A h \in Files : status[h] = "DELETED" => status'[h] = "DELETED"
      /\ \A h \in Replaced(p) : status[h] # "none" => status'[h] = "DELETED"
      /\ status[f] # "DELETED" => status'[f] = "ACTIVE"
  BY <1>1, <1>2 DEF AttachWrite, Activated, MarkedDeleted, Inv, Types, Status
<1>4. /\ profile' = f /\ UNCHANGED <<object, job>>
      /\ condemned' = IF status[f] = "DELETED" THEN condemned \cup {f} ELSE condemned
  BY DEF AttachWrite
<1>5. Tame
  BY <1>3, <1>4 DEF Tame
<1>6. PICK r \in Request : /\ req' = [req EXCEPT ![p] = r]
                           /\ RequestOK(r, status', object', condemned')
  <2>1. CASE g \in {None, f}
    <3>1. req' = [req EXCEPT ![p] = IdleRequest]
      BY <2>1 DEF AttachWrite, Goes
    <3> QED
      BY <1>1, <3>1, Records, IdleIsOK
  <2>2. CASE g \notin {None, f}
    <3>1. g \in Replaced(p) /\ CleaningUp(p, g)
      BY <1>1, <2>2 DEF AttachWrite, Replaced
    <3>2. g \in Files /\ status'[g] = "DELETED"
      BY <1>1, <1>2, <1>3, <3>1
    <3> QED
      BY <3>1, <3>2, CleaningUpIsOK
  <2> QED
    BY <2>1, <2>2
<1>7. \A h \in Files : JobOK(h, job', status', condemned')
  BY <1>4, <1>5, JobsRely DEF Inv
<1>8. ProfileHasRow' /\ AttachedIsStored'
  BY <1>1, <1>3, <1>4 DEF ProfileHasRow, AttachedIsStored
<1> QED
  BY <1>1, <1>3, <1>4, <1>5, <1>6, <1>7, <1>8, RequestSteps DEF Inv, Types

\* The steps of the cleanup jobs.
LEMMA JobSteps ==
    ASSUME Inv, NEW kind \in Kinds, NEW f \in Files, Work(kind, f) PROVE Inv'
<1> DEFINE j == job[<<kind, f>>]
<1>1. <<kind, f>> \in Kinds \X Files /\ j \in Job /\ JobOK(f, job, status, condemned)
  BY DEF Inv, Types
<1>2. ASSUME NEW i \in Job, job' = [job EXCEPT ![<<kind, f>>] = i], j.state # "none",
             UNCHANGED <<req, profile>>, Tame, condemned' \subseteq Files,
             status' \in [Files -> Status], object' \in [Files -> Object],
             ProfileHasRow', AttachedIsStored',
             kind = "expire" /\ i.state \in {"object", "mark"} => f \in condemned'
      PROVE  Inv'
  <2>1. /\ job' \in [Kinds \X Files -> Job]
        /\ \A k \in Kinds, h \in Files : \/ job'[<<k, h>>] = job[<<k, h>>]
                                         \/ k = kind /\ h = f /\ job'[<<k, h>>] = i
    BY <1>2 DEF Inv, Types
  <2>2. ASSUME NEW h \in Files PROVE JobOK(h, job', status', condemned')
    <3>1. JobOK(h, job, status', condemned')
      BY <1>2, JobsRely DEF Inv
    <3>2. kind = "delete" => status'[f] = "DELETED"
      BY <1>1, <1>2 DEF JobOK, Tame
    <3> QED
      BY <1>2, <2>1, <3>1, <3>2 DEF JobOK, Kinds
  <2>3. ASSUME NEW q \in Procs PROVE RequestOK(req'[q], status', object', condemned')
    <3>1. req[q] \in Request /\ RequestOK(req[q], status, object, condemned)
      BY DEF Inv, Types
    <3> QED
      BY <1>2, <3>1, OthersRely
  <2> QED
    BY <1>2, <2>1, <2>2, <2>3 DEF Inv, Types
<1>3. /\ \A s \in {"read", "object", "mark"} :
            [j EXCEPT !.state = s] \in Job /\ [j EXCEPT !.state = s].state = s
      /\ InState("ended") \in Job /\ InState("ended").state = "ended"
      /\ Retried(j) \in Job /\ Retried(j).state \in {"queued", "failed"}
  BY <1>1, AttemptsAssumption DEF Job, InState, Retried
<1>4. CASE StartJob(kind, f) \/ JobFails(kind, f)
  <2>1. /\ UNCHANGED <<status, profile, object, req, condemned>> /\ j.state # "none"
        /\ \E i \in Job : /\ job' = [job EXCEPT ![<<kind, f>>] = i]
                          /\ i.state \notin {"object", "mark"}
    BY <1>3, <1>4 DEF StartJob, JobFails
  <2>2. Tame /\ ProfileHasRow' /\ AttachedIsStored'
    BY <2>1 DEF Tame, Inv, ProfileHasRow, AttachedIsStored
  <2> QED
    BY <1>2, <2>1, <2>2 DEF Inv, Types
<1>5. CASE JobReads(kind, f)
  <2>1. /\ UNCHANGED <<status, profile, object, req>> /\ j.state # "none"
        /\ condemned \subseteq condemned' /\ condemned' \subseteq Files
    BY <1>5 DEF JobReads, Inv, Types
  <2>2. \E i \in Job : /\ job' = [job EXCEPT ![<<kind, f>>] = i]
                       /\ kind = "expire" /\ i.state \in {"object", "mark"} => f \in condemned'
    BY <1>3, <1>5 DEF JobReads, IsStale
  <2>3. Tame /\ ProfileHasRow' /\ AttachedIsStored'
    BY <2>1 DEF Tame, Inv, ProfileHasRow, AttachedIsStored
  <2> QED
    BY <1>2, <2>1, <2>2, <2>3 DEF Inv, Types
<1>6. CASE JobDeletesObject(kind, f) \/ JobMarksDeleted(kind, f)
  <2>1. Decided(f)
    BY <1>1, <1>6 DEF JobDeletesObject, JobMarksDeleted, JobOK, Decided, Kinds
  <2>2. /\ Tame /\ ProfileHasRow' /\ AttachedIsStored'
        /\ status' \in [Files -> Status] /\ object' \in [Files -> Object]
    BY <1>6, <2>1, DecidedGoes DEF JobDeletesObject, JobMarksDeleted
  <2>3. /\ UNCHANGED <<profile, req, condemned>> /\ j.state \in {"object", "mark"}
        /\ \E i \in Job : job' = [job EXCEPT ![<<kind, f>>] = i]
    BY <1>3, <1>6 DEF JobDeletesObject, JobMarksDeleted
  <2>4. kind = "expire" => f \in condemned'
    BY <1>1, <2>3 DEF JobOK
  <2> QED
    BY <1>2, <2>2, <2>3, <2>4 DEF Inv, Types
<1> QED
  BY <1>4, <1>5, <1>6 DEF Work

\* The client's upload, and the erasure of the user.
LEMMA Uploads ==
    ASSUME Inv, NEW f \in Files, NEW content \in {"good", "bad"}, Upload(f, content)
    PROVE  Inv'
<1>1. /\ UNCHANGED <<status, profile, job, req, condemned>>
      /\ object' \in [Files -> Object]
      /\ \A g \in Files : object[g] # "absent" => object'[g] # "absent"
  BY DEF Upload, Inv, Types, Object
<1>2. Tame
  BY <1>1 DEF Tame
<1>3. ASSUME NEW q \in Procs PROVE RequestOK(req'[q], status', object', condemned')
  <2>1. req[q] \in Request /\ RequestOK(req[q], status, object, condemned)
    BY DEF Inv, Types
  <2> QED
    BY <1>1, <1>2, <2>1, OthersRely
<1>4. ProfileHasRow' /\ AttachedIsStored'
  BY <1>1 DEF Inv, Types, ProfileHasRow, AttachedIsStored
<1> QED
  BY <1>1, <1>3, <1>4 DEF Inv, Types

LEMMA Steps == ASSUME Inv, [Next]_vars PROVE Inv'
<1>1. CASE EraseUser \/ UNCHANGED vars
  <2>1. UNCHANGED <<status, profile, object, job, req, condemned>>
    BY <1>1 DEF EraseUser, vars
  <2> QED
    BY <2>1 DEF Inv, Types, ProfileHasRow, AttachedIsStored
<1> QED
  BY <1>1, Starts, Reads, Cleanups, Clears, Attaches, JobSteps, Uploads DEF Next, Proceed

LEMMA Always == Spec => []Inv
<1>1. Init => Inv
  BY Initially
<1>2. Inv /\ [Next]_vars => Inv'
  BY Steps
<1> QED
  BY <1>1, <1>2, PTL DEF Spec

\* However completions, clearings and the two jobs interleave, the profile's image has
\* an ACTIVE row and an object, unless the file was condemned before it was attached.
THEOREM AttachedFilesAreStored == Spec => []AttachedIsStored
BY Always, PTL DEF Inv

-----------------------------------------------------------------------------
(* Rows that are deleted, and rows that are forgotten. *)

\* What a step can do to the rows and the profile.
Written ==
    \/ UNCHANGED <<status, profile>>
    \/ profile' = profile /\ \E f \in Files : status' = MarkedDeleted({f})
    \/ /\ profile' = profile
       /\ \E f \in Files : status[f] = "none" /\ status' = [status EXCEPT ![f] = "UPLOADING"]
    \/ \E p \in Procs : AttachWrite(p) \/ ClearWrite(p)

LEMMA StepsWrite == ASSUME Inv, [Next]_vars PROVE Written
<1>1. ASSUME NEW p \in Procs, NEW f \in Files, CreateUploadPlan(p, f) PROVE Written
  BY <1>1 DEF CreateUploadPlan, Written
<1>2. ASSUME NEW p \in Procs, MarkDeleted(p) PROVE Written
  <2>1. req[p].file \in Files
    BY <1>2 DEF MarkDeleted, Inv, RequestOK
  <2> QED
    BY <1>2, <2>1 DEF MarkDeleted, Written
<1>3. ASSUME NEW kind \in Kinds, NEW f \in Files, Work(kind, f) PROVE Written
  BY <1>3 DEF Work, StartJob, JobReads, JobDeletesObject, JobMarksDeleted, JobFails, Written
<1>4. ASSUME NEW p \in Procs, AttachWrite(p) \/ ClearWrite(p) PROVE Written
  BY <1>4 DEF Written
<1>5. ASSUME NEW p \in Procs, Proceed(p), ~MarkDeleted(p), ~AttachWrite(p), ~ClearWrite(p)
      PROVE  UNCHANGED <<status, profile>>
  BY <1>5 DEF Proceed, ScheduleExpireUpload, ReadCurrent, HeadObject, DeleteObject, AttachRead,
              EnqueueDelete, ServeImage, ServeNothing, RequestFails
<1>6. ASSUME NEW p \in Procs,
             ClearRead(p) \/ ReadImage(p) \/ \E f \in Files : FindFile(p, f)
      PROVE  UNCHANGED <<status, profile>>
  BY <1>6 DEF ClearRead, ReadImage, FindFile
<1>7. (\E f \in Files, content \in {"good", "bad"} : Upload(f, content)) \/ EraseUser
         \/ UNCHANGED vars => UNCHANGED <<status, profile>>
  BY DEF Upload, EraseUser, vars
<1> QED
  BY <1>1, <1>2, <1>3, <1>4, <1>5, <1>6, <1>7 DEF Next, Written

\* What an attachment reads and writes.
LEMMA AttachWrites ==
    ASSUME Inv, NEW p \in Procs, AttachWrite(p)
    PROVE  /\ req[p].file \in Files /\ profile' = req[p].file
           /\ req[p].previous \in Files \cup {None}
           /\ \A f \in Files : status[f] = "DELETED" => status'[f] = "DELETED"
           /\ \A f \in Files \ {req[p].file} :
                 status'[f] = "ACTIVE" => status[f] = "ACTIVE" /\ f # req[p].previous
<1>1. /\ req[p].file \in Files /\ req[p] \in Request
      /\ req[p].previous \in Files \cup {None}
  BY DEF AttachWrite, Inv, Types, RequestOK, Request
<1>2. /\ req[p].file \notin Replaced(p)
      /\ \A f \in Files \ {req[p].file} : f = req[p].previous => f \in Replaced(p)
  BY <1>1, NoneAssumption DEF Replaced
<1>3. \A f \in Files : MarkedDeleted(Replaced(p))[f] =
         IF f \in Replaced(p) /\ status[f] # "none" THEN "DELETED" ELSE status[f]
  BY DEF MarkedDeleted
<1>4. /\ \A f \in Files \ {req[p].file} : status'[f] = MarkedDeleted(Replaced(p))[f]
      /\ status'[req[p].file] = Activated(req[p].file)
  BY <1>1, <1>2 DEF AttachWrite, MarkedDeleted
<1>5. \A f \in Files : status[f] = "DELETED" => status'[f] = "DELETED"
  BY <1>1, <1>3, <1>4 DEF Activated
<1>6. ASSUME NEW f \in Files \ {req[p].file}, status'[f] = "ACTIVE"
      PROVE  status[f] = "ACTIVE" /\ f # req[p].previous
  BY <1>2, <1>3, <1>4, <1>6
<1> QED
  BY <1>1, <1>5, <1>6 DEF AttachWrite

\* A completion or a cleanup, however late, never brings a DELETED file back.
THEOREM DeletedFilesStay == Spec => DeletedIsFinal
<1>1. Inv /\ [Next]_vars =>
        [\A f \in Files : status[f] = "DELETED" => status'[f] = "DELETED"]_vars
  <2> SUFFICES ASSUME Inv, [Next]_vars, NEW f \in Files, status[f] = "DELETED"
               PROVE  status'[f] = "DELETED"
    OBVIOUS
  <2>1. Written
    BY StepsWrite
  <2> QED
    BY <2>1, AttachWrites DEF Written, ClearWrite, MarkedDeleted, Inv, Types
<1> QED
  BY <1>1, Always, PTL DEF Spec, DeletedIsFinal

\* As long as nothing has raced, an ACTIVE file is the profile's image.
LEMMA NothingForgotten ==
    ASSUME Inv, ActiveIsAttached, [Next]_vars, raced => raced' PROVE ActiveIsAttached'
<1> SUFFICES ASSUME NEW f \in Files, status'[f] = "ACTIVE", ~raced', ~raced
             PROVE  profile' = f
  BY DEF ActiveIsAttached
<1>1. Written
  BY StepsWrite
<1>2. status[f] = "ACTIVE" => profile = f
  BY DEF ActiveIsAttached
<1>3. ASSUME NEW p \in Procs, AttachWrite(p) PROVE profile' = f
  <2>1. profile = req[p].previous
    BY <1>3 DEF AttachWrite
  <2> QED
    BY <1>2, <1>3, <2>1, AttachWrites
<1>4. ASSUME NEW p \in Procs, ClearWrite(p) PROVE profile' = f
  <2>1. profile = req[p].previous
    BY <1>4 DEF ClearWrite
  <2>2. status[f] = "ACTIVE" /\ f # req[p].previous
    BY <1>4 DEF ClearWrite, MarkedDeleted, Inv, Types
  <2> QED
    BY <1>2, <2>1, <2>2
<1> QED
  BY <1>1, <1>2, <1>3, <1>4 DEF Written, MarkedDeleted, Inv, Types

\* What becomes of the flags.
FlagsRise ==
    /\ queueing' = queueing
    /\ gone' = gone \/ gone' = TRUE
    /\ raced' = raced \/ \E x \in BOOLEAN : raced' = (raced \/ x)

LEMMA Flags == ASSUME [Next]_vars PROVE FlagsRise
<1>1. ASSUME NEW p \in Procs, Proceed(p) PROVE FlagsRise
  <2>1. AttachWrite(p) \/ ClearWrite(p) => FlagsRise
    <3>1. (profile # req[p].previous) \in BOOLEAN
      OBVIOUS
    <3> QED
      BY <3>1, Zenon DEF AttachWrite, ClearWrite, FlagsRise
  <2>2. HeadObject(p) \/ DeleteObject(p) \/ MarkDeleted(p) => FlagsRise
    BY Zenon DEF HeadObject, DeleteObject, MarkDeleted, FlagsRise
  <2>3. \/ ScheduleExpireUpload(p) \/ ReadCurrent(p) \/ AttachRead(p) \/ EnqueueDelete(p)
        \/ ServeImage(p) \/ ServeNothing(p) \/ RequestFails(p)
        => FlagsRise
    BY Zenon DEF ScheduleExpireUpload, ReadCurrent, AttachRead, EnqueueDelete, ServeImage,
                 ServeNothing, RequestFails, FlagsRise
  <2> QED
    BY <1>1, <2>1, <2>2, <2>3, Zenon DEF Proceed
<1>2. ASSUME NEW kind \in Kinds, NEW f \in Files, Work(kind, f) PROVE FlagsRise
  BY <1>2, Zenon DEF Work, StartJob, JobReads, JobDeletesObject, JobMarksDeleted, JobFails,
                     FlagsRise
<1>3. ASSUME NEW p \in Procs, NEW f \in Files,
             CreateUploadPlan(p, f) \/ FindFile(p, f)
      PROVE  FlagsRise
  BY <1>3, Zenon DEF CreateUploadPlan, FindFile, FlagsRise
<1>4. ASSUME NEW p \in Procs, ClearRead(p) \/ ReadImage(p) PROVE FlagsRise
  BY <1>4, Zenon DEF ClearRead, ReadImage, FlagsRise
<1>5. ASSUME NEW f \in Files, NEW content \in {"good", "bad"}, Upload(f, content)
      PROVE  FlagsRise
  BY <1>5, Zenon DEF Upload, FlagsRise
<1>6. CASE EraseUser \/ UNCHANGED vars
  BY <1>6, Zenon DEF EraseUser, vars, FlagsRise
<1> QED
  BY <1>1, <1>2, <1>3, <1>4, <1>5, <1>6, Zenon DEF Next

\* Every variable has its type, which for the flags and the rest are two matters.
LEMMA ImagesTyped == Spec => []TypeOK
<1> DEFINE Typed == queueing \in BOOLEAN /\ gone \in BOOLEAN /\ raced \in BOOLEAN
<1>1. Init => Typed
  BY DEF Init
<1>2. Typed /\ FlagsRise => Typed'
  BY DEF FlagsRise
<1>3. Typed /\ [Next]_vars => Typed'
  BY <1>2, Flags
<1>4. Spec => []Typed
  BY <1>1, <1>3, PTL DEF Spec
<1>5. Inv /\ Typed => TypeOK
  BY DEF Inv, Types, TypeOK
<1> QED
  BY <1>4, <1>5, Always, PTL

\* No ACTIVE file is forgotten, unless two requests replaced the same image.
THEOREM NoFileIsForgotten == Spec => []ActiveIsAttached
<1>1. Init => ActiveIsAttached
  BY DEF Init, ActiveIsAttached
<1>2. Inv /\ ActiveIsAttached /\ [Next]_vars => ActiveIsAttached'
  <2>1. [Next]_vars /\ raced => raced'
    BY Flags DEF FlagsRise
  <2> QED
    BY <2>1, NothingForgotten
<1> QED
  BY <1>1, <1>2, Always, PTL DEF Spec

-----------------------------------------------------------------------------
(* The order of the rows. *)

SortSpec == [field : lists!Columns, direction : {"asc", "desc"}]

\* A sort that tells any two rows apart.
Decisive(sort) ==
    /\ sort \in Seq(SortSpec)
    /\ \E i \in 1 .. Len(sort) : sort[i].field = "id"

\* What can be compared by a sort: a row, or what a cursor keeps of one.
Comparable(sort, a) == \A i \in 1 .. Len(sort) : a[sort[i].field] \in Nat

\* What the parts of a sort are.
LEMMA SortItems ==
    ASSUME NEW sort, Decisive(sort)
    PROVE  /\ Len(sort) \in Nat
           /\ \A i \in 1 .. Len(sort) :
                 sort[i].field \in lists!Columns /\ sort[i].direction \in {"asc", "desc"}
<1>1. sort \in Seq(SortSpec)
  BY DEF Decisive
<1>2. Len(sort) \in Nat /\ \A i \in 1 .. Len(sort) : sort[i] \in SortSpec
  BY <1>1
<1> QED
  BY <1>2 DEF SortSpec

\* Rows have numbers in the columns that sort them.
LEMMA RowsAreComparable ==
    ASSUME NEW sort, Decisive(sort), NEW r \in lists!Row PROVE Comparable(sort, r)
<1>1. r.id \in Nat /\ r.createdAt \in Nat /\ r.email \in Nat
  BY RowsAreNumbered DEF lists!Row
<1>2. \A i \in 1 .. Len(sort) : sort[i].field \in lists!Columns
  BY SortItems
<1> QED
  BY <1>1, <1>2 DEF Comparable, lists!Columns

\* A set of numbers has a least one.
LEMMA LeastNumber ==
    ASSUME NEW S \in SUBSET Nat, S # {} PROVE \E m \in S : \A k \in S : m <= k
<1>1. PICK m \in S : \A k \in S : ~(<<k, m>> \in OpToRel(<, Nat))
  BY NatLessThanWellFounded, WFMin, Zenon
<1>2. \A k \in S : ~(k < m)
  BY <1>1 DEF OpToRel
<1>3. \A k \in S : m <= k
  BY <1>2
<1> QED
  BY <1>3

\* No row comes after itself, ...
LEMMA NoneIsAfterItself ==
    ASSUME NEW sort, Decisive(sort), NEW a, Comparable(sort, a)
    PROVE  ~lists!AfterCursor(sort, a, a)
BY DEF lists!AfterCursor, lists!Compares, Comparable

\* ...what comes after a later row comes after an earlier one, ...
LEMMA AfterIsTransitive ==
    ASSUME NEW sort, Decisive(sort), NEW a, NEW b, NEW c,
           Comparable(sort, a), Comparable(sort, b), Comparable(sort, c),
           lists!AfterCursor(sort, a, b), lists!AfterCursor(sort, b, c)
    PROVE  lists!AfterCursor(sort, a, c)
<1>1. PICK i \in 1 .. Len(sort) :
          /\ \A j \in 1 .. i - 1 : b[sort[j].field] = a[sort[j].field]
          /\ lists!Compares(sort[i], b, a)
  BY DEF lists!AfterCursor
<1>2. PICK k \in 1 .. Len(sort) :
          /\ \A j \in 1 .. k - 1 : c[sort[j].field] = b[sort[j].field]
          /\ lists!Compares(sort[k], c, b)
  BY DEF lists!AfterCursor
<1>3. \A x \in 1 .. Len(sort) :
          a[sort[x].field] \in Nat /\ b[sort[x].field] \in Nat /\ c[sort[x].field] \in Nat
  BY DEF Comparable
<1>4. Len(sort) \in Nat
  BY DEF Decisive
<1>5. CASE i < k
  <2>1. lists!Compares(sort[i], c, a)
    BY <1>1, <1>2, <1>3, <1>4, <1>5 DEF lists!Compares
  <2>2. \A j \in 1 .. i - 1 : c[sort[j].field] = a[sort[j].field]
    BY <1>1, <1>2, <1>4, <1>5
  <2> QED
    BY <2>1, <2>2 DEF lists!AfterCursor
<1>6. CASE k <= i
  <2>1. lists!Compares(sort[k], c, a)
    BY <1>1, <1>2, <1>3, <1>4, <1>6 DEF lists!Compares
  <2>2. \A j \in 1 .. k - 1 : c[sort[j].field] = a[sort[j].field]
    BY <1>1, <1>2, <1>4, <1>6
  <2> QED
    BY <2>1, <2>2 DEF lists!AfterCursor
<1> QED
  BY <1>4, <1>5, <1>6

\* ...and of two rows with different ids, one comes after the other.
LEMMA AfterIsTotal ==
    ASSUME NEW sort, Decisive(sort), NEW a \in lists!Row, NEW b \in lists!Row, a.id # b.id
    PROVE  /\ lists!AfterCursor(sort, a, b) \/ lists!AfterCursor(sort, b, a)
           /\ lists!Precedes(sort, a, b) <=> lists!AfterCursor(sort, a, b)
<1> DEFINE differ == {i \in 1 .. Len(sort) : a[sort[i].field] # b[sort[i].field]}
<1>0. Len(sort) \in Nat /\ \A i \in 1 .. Len(sort) : sort[i].direction \in {"asc", "desc"}
  BY SortItems
<1>1. differ # {}
  BY DEF Decisive
<1>2. PICK i \in differ : \A k \in differ : i <= k
  <2>1. differ \in SUBSET Nat
    BY <1>0
  <2> HIDE DEF differ
  <2> QED
    BY <1>1, <2>1, LeastNumber
<1>3. \A x \in 1 .. Len(sort) : a[sort[x].field] \in Nat /\ b[sort[x].field] \in Nat
  BY RowsAreComparable DEF Comparable
<1>4. \A j \in 1 .. i - 1 : b[sort[j].field] = a[sort[j].field]
  BY <1>0, <1>2
<1>5. lists!Compares(sort[i], a, b) \/ lists!Compares(sort[i], b, a)
  BY <1>2, <1>3 DEF lists!Compares
<1>6. lists!AfterCursor(sort, a, b) \/ lists!AfterCursor(sort, b, a)
  BY <1>2, <1>4, <1>5 DEF lists!AfterCursor
<1>7. lists!Precedes(sort, a, b) <=>
          \E x \in differ : (\A j \in differ : x <= j) /\ lists!Compares(sort[x], b, a)
  BY <1>1 DEF lists!Precedes
<1>8. ASSUME lists!Precedes(sort, a, b) PROVE lists!AfterCursor(sort, a, b)
  <2>1. lists!Compares(sort[i], b, a)
    BY <1>0, <1>2, <1>7, <1>8
  <2> QED
    BY <1>2, <1>4, <2>1 DEF lists!AfterCursor
<1>9. ASSUME lists!AfterCursor(sort, a, b) PROVE lists!Precedes(sort, a, b)
  <2>1. PICK x \in 1 .. Len(sort) :
            /\ \A j \in 1 .. x - 1 : b[sort[j].field] = a[sort[j].field]
            /\ lists!Compares(sort[x], b, a)
    BY <1>9 DEF lists!AfterCursor
  <2>2. x \in differ
    BY <1>3, <2>1 DEF lists!Compares
  <2>3. \A j \in differ : x <= j
    BY <1>0, <2>1
  <2> QED
    BY <1>7, <2>1, <2>2, <2>3
<1> QED
  BY <1>6, <1>8, <1>9

-----------------------------------------------------------------------------
(* Pages. *)

\* Some rows, each with an id of its own.
Table(F) == F \subseteq lists!Row /\ \A a, b \in F : a.id = b.id => a = b

LEMMA TablesAreFinite ==
    ASSUME NEW F, Table(F) PROVE IsFiniteSet(F)
<1> DEFINE ids == [r \in F |-> r.id]
<1>1. ids \in [F -> Ids]
  BY DEF Table, lists!Row
<1>2. ids \in Injection(F, Ids)
  BY <1>1 DEF Table, Injection, IsInjective
<1> HIDE DEF ids
<1> QED
  BY <1>2, RowsAreNumbered, FS_Injection

\* The rows before a row, of which the page counts how many there are.
Before(sort, F, r) == {q \in F : lists!Precedes(sort, q, r)}

LEMMA SameCardinality == \A S : lists!Cardinality(S) = Cardinality(S)
BY DEF lists!Cardinality, Cardinality

LEMMA PageIs ==
    ASSUME NEW sort, NEW limit, NEW F
    PROVE  lists!Page(sort, limit, F) = {r \in F : Cardinality(Before(sort, F, r)) < limit}
BY SameCardinality DEF lists!Page, Before

LEMMA HasMoreIs ==
    ASSUME NEW limit, NEW F PROVE lists!HasMore(F, limit) <=> Cardinality(F) > limit
BY SameCardinality DEF lists!HasMore

LEMMA BeforeIsNumber ==
    ASSUME NEW sort, NEW F, Table(F), NEW r \in F
    PROVE  Cardinality(Before(sort, F, r)) \in Nat
<1>1. IsFiniteSet(Before(sort, F, r))
  BY TablesAreFinite, FS_Subset, Before(sort, F, r) \subseteq F DEF Before
<1> QED
  BY <1>1, FS_CardinalityType

\* On a table, the query's order is the one the cursor knows.
LEMMA Orders ==
    ASSUME NEW sort, Decisive(sort), NEW F, Table(F), NEW q \in F, NEW r \in F
    PROVE  /\ lists!Precedes(sort, q, r) <=> lists!AfterCursor(sort, q, r)
           /\ q = r \/ lists!AfterCursor(sort, q, r) \/ lists!AfterCursor(sort, r, q)
           /\ ~(lists!AfterCursor(sort, q, r) /\ lists!AfterCursor(sort, r, q))
<1>1. q \in lists!Row /\ r \in lists!Row /\ (q.id = r.id => q = r)
  BY DEF Table
<1>2. Comparable(sort, q) /\ Comparable(sort, r)
  BY <1>1, RowsAreComparable
<1>3. /\ ~lists!AfterCursor(sort, q, q)
      /\ ~(lists!AfterCursor(sort, q, r) /\ lists!AfterCursor(sort, r, q))
  BY <1>2, NoneIsAfterItself, AfterIsTransitive
<1>4. CASE q.id # r.id
  BY <1>1, <1>3, <1>4, AfterIsTotal
<1>5. CASE q = r
  <2>1. q.id \in Nat
    BY <1>1, RowsAreNumbered DEF lists!Row
  <2>2. ~lists!Precedes(sort, q, q)
    BY <2>1 DEF lists!Precedes
  <2> QED
    BY <1>3, <1>5, <2>2
<1> QED
  BY <1>1, <1>4, <1>5

\* The earlier of two rows has fewer rows before it.
LEMMA EarlierHasFewerBefore ==
    ASSUME NEW sort, Decisive(sort), NEW F, Table(F), NEW q \in F, NEW r \in F,
           lists!Precedes(sort, q, r)
    PROVE  Cardinality(Before(sort, F, q)) < Cardinality(Before(sort, F, r))
<1> DEFINE Q == Before(sort, F, q)
           R == Before(sort, F, r)
<1>1. q \in R /\ q \notin Q
  BY Orders DEF Before
<1>2. ASSUME NEW x \in Q PROVE x \in R
  <2>1. x \in F /\ lists!AfterCursor(sort, x, q) /\ lists!AfterCursor(sort, q, r)
    BY Orders DEF Before
  <2>2. Comparable(sort, x) /\ Comparable(sort, q) /\ Comparable(sort, r)
    BY <2>1, RowsAreComparable DEF Table
  <2>3. lists!AfterCursor(sort, x, r)
    BY <2>1, <2>2, AfterIsTransitive
  <2> QED
    BY <2>1, <2>3, Orders DEF Before
<1>3. IsFiniteSet(R) /\ R \subseteq F
  BY TablesAreFinite, FS_Subset, R \subseteq F DEF Before
<1>4. Q \subseteq R \ {q}
  BY <1>1, <1>2
<1>5. IsFiniteSet(R \ {q}) /\ Cardinality(R \ {q}) = Cardinality(R) - 1
  BY <1>1, <1>3, FS_RemoveElement
<1>6. Cardinality(Q) <= Cardinality(R \ {q})
  BY <1>4, <1>5, FS_Subset
<1>7. Cardinality(Q) \in Nat /\ Cardinality(R) \in Nat
  BY BeforeIsNumber
<1> QED
  BY <1>5, <1>6, <1>7

\* A page has the rows before any of its rows.
LEMMA PagesAreClosed ==
    ASSUME NEW sort, Decisive(sort), NEW F, Table(F), NEW limit \in Nat,
           NEW r \in lists!Page(sort, limit, F), NEW q \in F, lists!Precedes(sort, q, r)
    PROVE  q \in lists!Page(sort, limit, F)
<1>1. r \in F /\ Cardinality(Before(sort, F, r)) < limit
  BY PageIs
<1>2. Cardinality(Before(sort, F, q)) < Cardinality(Before(sort, F, r))
  BY <1>1, EarlierHasFewerBefore
<1>3. Cardinality(Before(sort, F, q)) \in Nat /\ Cardinality(Before(sort, F, r)) \in Nat
  BY <1>1, BeforeIsNumber
<1>4. Cardinality(Before(sort, F, q)) < limit
  BY <1>1, <1>2, <1>3
<1> QED
  BY <1>4, PageIs

\* If there is no more, the page has everything...
LEMMA LastPageIsRest ==
    ASSUME NEW sort, Decisive(sort), NEW F, Table(F), NEW limit \in Nat,
           ~lists!HasMore(F, limit)
    PROVE  lists!Page(sort, limit, F) = F
<1>1. IsFiniteSet(F) /\ Cardinality(F) \in Nat /\ Cardinality(F) <= limit
  BY TablesAreFinite, FS_CardinalityType, HasMoreIs
<1>2. ASSUME NEW r \in F PROVE Cardinality(Before(sort, F, r)) < limit
  <2>1. Before(sort, F, r) \subseteq F \ {r}
    BY Orders DEF Before
  <2>2. IsFiniteSet(F \ {r}) /\ Cardinality(F \ {r}) = Cardinality(F) - 1
    BY <1>1, FS_RemoveElement
  <2>3. Cardinality(Before(sort, F, r)) <= Cardinality(F \ {r})
    BY <2>1, <2>2, FS_Subset
  <2> QED
    BY <1>1, <2>2, <2>3, BeforeIsNumber
<1> QED
  BY <1>2, PageIs

\* ...and if there is, what follows the page is what comes after its last row.
LEMMA LastIsLast ==
    ASSUME NEW sort, Decisive(sort), NEW F, Table(F), NEW limit \in Nat \ {0},
           lists!HasMore(F, limit)
    PROVE  /\ lists!LastOf(sort, lists!Page(sort, limit, F)) \in lists!Page(sort, limit, F)
           /\ \A r \in F :
                 r \in lists!Page(sort, limit, F)
                 <=> ~lists!AfterCursor(sort, lists!LastOf(sort, lists!Page(sort, limit, F)), r)
<1> DEFINE page == lists!Page(sort, limit, F)
           N(r) == Cardinality(Before(sort, F, r))
<1>1. page \subseteq F
  BY PageIs
<1>2. \A r \in F : N(r) \in Nat
  BY BeforeIsNumber
<1>3. page # {}
  <2>1. F # {}
    BY FS_EmptySet, HasMoreIs
  <2> DEFINE S == {N(r) : r \in F}
  <2>2. S \in SUBSET Nat /\ S # {}
    BY <1>2, <2>1
  <2>3. \E m \in S : \A k \in S : m <= k
    <3> HIDE DEF S
    <3> QED
      BY <2>2, LeastNumber
  <2>4. PICK r \in F : \A q \in F : N(r) <= N(q)
    BY <2>3
  <2>5. Before(sort, F, r) = {}
    <3> SUFFICES ASSUME NEW q \in Before(sort, F, r) PROVE FALSE
      OBVIOUS
    <3>1. q \in F /\ N(q) < N(r)
      BY EarlierHasFewerBefore DEF Before
    <3> QED
      BY <1>2, <2>4, <3>1
  <2>6. N(r) = 0
    BY <2>5, FS_EmptySet
  <2> QED
    BY <2>6, PageIs
<1>4. \E r \in page : \A q \in page \ {r} : lists!Precedes(sort, q, r)
  <2> DEFINE S == {limit - N(r) : r \in page}
  <2>1. \A r \in page : N(r) < limit
    BY PageIs
  <2>2. S \in SUBSET Nat /\ S # {}
    BY <1>1, <1>2, <1>3, <2>1
  <2>3. \E m \in S : \A k \in S : m <= k
    <3> HIDE DEF S
    <3> QED
      BY <2>2, LeastNumber
  <2>4. PICK r \in page : \A q \in page : limit - N(r) <= limit - N(q)
    BY <2>3
  <2>5. ASSUME NEW q \in page \ {r} PROVE lists!Precedes(sort, q, r)
    <3>1. q \in F /\ r \in F /\ limit - N(r) <= limit - N(q) /\ N(q) \in Nat /\ N(r) \in Nat
      BY <1>1, <1>2, <2>4
    <3>2. ~(N(r) < N(q))
      BY <3>1
    <3>3. ~lists!Precedes(sort, r, q)
      BY <3>1, <3>2, EarlierHasFewerBefore
    <3> QED
      BY <3>1, <3>3, Orders
  <2> QED
    BY <2>5
<1> DEFINE last == lists!LastOf(sort, page)
<1>5. last \in page /\ \A q \in page \ {last} : lists!Precedes(sort, q, last)
  BY <1>4 DEF lists!LastOf
<1>6. ASSUME NEW r \in F PROVE r \in page <=> ~lists!AfterCursor(sort, last, r)
  <2>1. last \in F
    BY <1>1, <1>5
  <2>2. CASE r \in page
    BY <1>5, <2>1, <2>2, Orders
  <2>3. CASE r \notin page
    <3>1. ~lists!Precedes(sort, r, last)
      BY <1>5, <2>1, <2>3, PagesAreClosed
    <3>2. r # last
      BY <1>5, <2>3
    <3> QED
      BY <2>1, <2>3, <3>1, <3>2, Orders
  <2> QED
    BY <2>2, <2>3
<1> QED
  BY <1>5, <1>6

-----------------------------------------------------------------------------
(* The invariant. *)

\* A row that is as it was when the client asked for the first page, and meets the filter.
Expected(r) == r.id \notin touched /\ lists!Where(query.filter, r)

\* While there is more, the client has got what is expected up to the cursor, and nothing
\* of what comes after it.
PagingOK ==
    /\ Decisive(cursor.sort) /\ Comparable(cursor.sort, cursor.after)
    /\ \A r \in rows : Expected(r) =>
          (r.id \in seen <=> ~lists!AfterCursor(cursor.sort, cursor.after, r))

ListsInv ==
    /\ lists!TypeOK /\ Table(rows) /\ again \subseteq touched
    /\ state = "start" => seen = {} /\ again = {}
    /\ state # "start" => lists!FiltersAccepted(query.list, query.filter)
    /\ state = "more" => PagingOK
    /\ state = "end" => \A r \in rows : Expected(r) => r.id \in seen
    /\ \A r \in rows : r.id \in seen \ touched => lists!Where(query.filter, r)

\* Every accepted filter has a case in the mapping of its list.
LEMMA AcceptedIsMapped ==
    ASSUME lists!TypeOK, lists!FiltersAccepted(query.list, query.filter), NEW r
    PROVE  lists!Where(query.filter, r) <=> \A f \in query.filter : lists!Meets(f, r)
<1>1. query.list \in {"users", "roleChanges", "deletions", "sessions"}
  BY QueriesAreParsed DEF lists!TypeOK, lists!FilterOps
<1>2. ASSUME NEW f \in query.filter PROVE lists!IsMapped(f)
  <2>1. /\ f.field \in DOMAIN lists!FilterOps[query.list]
        /\ f.op \in lists!FilterOps[query.list][f.field]
    BY DEF lists!FiltersAccepted
  <2>2. CASE query.list = "users"
    BY <2>1, <2>2 DEF lists!FilterOps, lists!IsMapped
  <2>3. CASE query.list = "roleChanges"
    BY <2>1, <2>3 DEF lists!FilterOps, lists!IsMapped
  <2>4. CASE query.list = "deletions"
    BY <2>1, <2>4 DEF lists!FilterOps, lists!IsMapped
  <2>5. CASE query.list = "sessions"
    <3>1. lists!FilterOps["sessions"] = <<>>
      BY DEF lists!FilterOps
    <3>2. DOMAIN lists!FilterOps[query.list] = {}
      BY <2>5, <3>1
    <3> QED
      BY <2>1, <3>2
  <2> QED
    BY <1>1, <2>2, <2>3, <2>4, <2>5
<1> QED
  BY <1>2 DEF lists!Where

\* A sort that is accepted tells any two rows apart once the tie breaker is added.
LEMMA ParsedIsDecisive ==
    ASSUME NEW list \in DOMAIN lists!FilterOps,
           NEW raw \in Seq([field : STRING, direction : {"asc", "desc"}]),
           lists!SortAccepted(list, raw)
    PROVE  Decisive(lists!ParsedSort(list, raw))
<1> DEFINE base == IF raw = <<>> THEN lists!DefaultSort ELSE raw
<1>1. lists!TieBreaker(list) \in SortSpec /\ lists!TieBreaker(list).field = "id"
  BY DEF lists!TieBreaker, lists!Asc, lists!Desc, SortSpec, lists!Columns
<1>2. lists!DefaultSort \in Seq(SortSpec)
  BY DEF lists!DefaultSort, lists!Desc, SortSpec, lists!Columns
<1>3. raw \in Seq(SortSpec)
  <2>1. Len(raw) \in Nat /\ raw = [i \in 1 .. Len(raw) |-> raw[i]]
    OBVIOUS
  <2> DEFINE Raw == [field : STRING, direction : {"asc", "desc"}]
  <2>2. \A i \in 1 .. Len(raw) : raw[i] \in Raw
    <3>1. raw \in Seq(Raw)
      OBVIOUS
    <3> HIDE DEF Raw
    <3> QED
      BY <3>1
  <2>3. \A i \in 1 .. Len(raw) : raw[i].field \in lists!Columns
    BY DEF lists!SortAccepted, lists!FieldsOf, lists!SortFields, lists!Columns
  <2>4. \A i \in 1 .. Len(raw) : raw[i] \in SortSpec
    BY <2>2, <2>3 DEF SortSpec
  <2> QED
    BY <2>1, <2>4
<1>4. base \in Seq(SortSpec)
  BY <1>2, <1>3
<1>5. CASE "id" \in lists!FieldsOf(base)
  <2>1. lists!ParsedSort(list, raw) = base
    BY <1>1, <1>5 DEF lists!ParsedSort
  <2> HIDE DEF base
  <2> QED
    BY <1>4, <1>5, <2>1 DEF Decisive, lists!FieldsOf
<1>6. CASE "id" \notin lists!FieldsOf(base)
  <2>1. lists!ParsedSort(list, raw) = Append(base, lists!TieBreaker(list))
    BY <1>1, <1>6 DEF lists!ParsedSort
  <2> HIDE DEF base
  <2>2. Append(base, lists!TieBreaker(list)) \in Seq(SortSpec)
    BY <1>1, <1>4
  <2>3. /\ Len(Append(base, lists!TieBreaker(list))) = Len(base) + 1
        /\ Append(base, lists!TieBreaker(list))[Len(base) + 1] = lists!TieBreaker(list)
        /\ Len(base) \in Nat
    BY <1>1, <1>4
  <2> QED
    BY <1>1, <2>1, <2>2, <2>3 DEF Decisive
<1> QED
  BY <1>5, <1>6

\* What a cursor keeps of a row compares as the row does.
LEMMA CursorsStandForRows ==
    ASSUME NEW sort, Decisive(sort), NEW last, Comparable(sort, last),
           NEW after, after = [f \in lists!FieldsOf(sort) |-> last[f]]
    PROVE  /\ Comparable(sort, after)
           /\ \A r : lists!AfterCursor(sort, after, r) <=> lists!AfterCursor(sort, last, r)
<1>1. \A i \in 1 .. Len(sort) : after[sort[i].field] = last[sort[i].field]
  BY DEF lists!FieldsOf
<1>2. Comparable(sort, after)
  BY <1>1 DEF Comparable
<1>3. ASSUME NEW r, NEW i \in 1 .. Len(sort)
      PROVE  /\ lists!Compares(sort[i], r, after) <=> lists!Compares(sort[i], r, last)
             /\ (\A j \in 1 .. i - 1 : r[sort[j].field] = after[sort[j].field])
                <=> \A j \in 1 .. i - 1 : r[sort[j].field] = last[sort[j].field]
  <2>1. lists!Compares(sort[i], r, after) <=> lists!Compares(sort[i], r, last)
    BY <1>1 DEF lists!Compares
  <2>2. \A j \in 1 .. i - 1 : j \in 1 .. Len(sort)
    BY SortItems
  <2> QED
    BY <1>1, <2>1, <2>2
<1>4. ASSUME NEW r PROVE lists!AfterCursor(sort, after, r) <=> lists!AfterCursor(sort, last, r)
  BY <1>3 DEF lists!AfterCursor
<1> QED
  BY <1>2, <1>4

\* A page of the rows that the client has not seen, which are the ones the query found.
LEMMA PageSteps ==
    ASSUME ListsInv, NEW raw, NEW limit \in Nat \ {0}, NEW found \in SUBSET rows,
           Decisive(lists!ParsedSort(query.list, raw)),
           lists!FiltersAccepted(query.list, query.filter),
           \A r \in found : lists!Where(query.filter, r),
           \A r \in rows : Expected(r) => (r.id \in seen <=> r \notin found),
           \A r \in rows, l \in found :
               /\ lists!Where(query.filter, r)
               /\ lists!AfterCursor(lists!ParsedSort(query.list, raw), l, r)
               => r \in found,
           lists!List(raw, limit, found)
    PROVE  ListsInv'
<1> DEFINE sort == lists!ParsedSort(query.list, raw)
           page == lists!Page(sort, limit, found)
           last == lists!LastOf(sort, page)
           ids == {r.id : r \in page}
<1>0. /\ seen' = seen \cup ids /\ again' = again \cup (seen \cap ids)
      /\ UNCHANGED <<rows, query, touched>>
  BY DEF lists!List
<1>1. Decisive(sort) /\ Table(found) /\ page \subseteq found
  BY PageIs DEF ListsInv, Table
<1>2. rows \subseteq lists!Row /\ \A a, b \in rows : a.id = b.id => a = b
  BY DEF ListsInv, Table
<1>3. \A r \in rows : r.id \in ids <=> r \in page
  BY <1>1, <1>2
<1>4. \A r \in page : r.id \in touched \/ r.id \notin seen
  BY <1>1 DEF Expected
<1>5. seen \cap ids \subseteq touched
  BY <1>4
<1>6. again' \subseteq touched'
  BY <1>0, <1>5 DEF ListsInv
<1>7. ASSUME NEW r \in rows, r.id \in seen' \ touched' PROVE lists!Where(query.filter, r)
  <2>1. CASE r.id \in seen
    BY <1>0, <1>7, <2>1 DEF ListsInv
  <2>2. CASE r.id \in ids
    BY <1>1, <1>3, <2>2
  <2> QED
    BY <1>0, <1>7, <2>1, <2>2
<1>8. ids \subseteq Ids
  BY <1>1, <1>2 DEF lists!Row
<1>9. seen' \subseteq Ids /\ again' \subseteq Ids /\ touched' \subseteq Ids
  BY <1>0, <1>8 DEF ListsInv, lists!TypeOK
<1>10. sort \in Seq(SortSpec)
  BY <1>1 DEF Decisive
<1>11. \A r : Expected(r)' <=> Expected(r)
  BY <1>0 DEF Expected
<1>12. CASE lists!HasMore(found, limit)
  <2> DEFINE after == [f \in lists!FieldsOf(sort) |-> last[f]]
  <2>1. cursor' = [sort |-> sort, after |-> after] /\ state' = "more"
    BY <1>12 DEF lists!List
  <2>2. last \in page /\ \A r \in found : r \in page <=> ~lists!AfterCursor(sort, last, r)
    BY <1>1, <1>12, LastIsLast
  <2>3. last \in lists!Row /\ last \in found /\ Comparable(sort, last)
    BY <1>1, <1>2, <2>2, RowsAreComparable
  <2>4. /\ Comparable(sort, after)
        /\ \A r : lists!AfterCursor(sort, after, r) <=> lists!AfterCursor(sort, last, r)
    <3> HIDE DEF sort, last
    <3> QED
      BY <1>1, <2>3, CursorsStandForRows
  <2>5. ASSUME NEW r \in rows, Expected(r)
        PROVE  r.id \in seen' <=> ~lists!AfterCursor(sort, after, r)
    <3>1. CASE r \in found
      BY <1>0, <1>3, <2>2, <2>4, <2>5, <3>1
    <3>2. CASE r \notin found
      BY <1>0, <2>3, <2>4, <2>5, <3>2 DEF Expected
    <3> QED
      BY <3>1, <3>2
  <2>6. cursor'.sort = sort /\ cursor'.after = after
    BY <2>1
  <2>7. PagingOK'
    <3> HIDE DEF sort, after
    <3> QED
      BY <1>0, <1>1, <1>11, <2>4, <2>5, <2>6 DEF PagingOK
  <2>8. DOMAIN cursor'.after \subseteq lists!Columns
    BY <1>1, <2>6, SortItems DEF lists!FieldsOf
  <2>9. lists!TypeOK'
    <3> HIDE DEF sort
    <3> QED
      BY <1>0, <1>9, <1>10, <2>1, <2>6, <2>8 DEF ListsInv, lists!TypeOK, SortSpec
  <2> QED
    BY <1>0, <1>6, <1>7, <2>1, <2>7, <2>9 DEF ListsInv
<1>13. CASE ~lists!HasMore(found, limit)
  <2>1. cursor' = [sort |-> sort, after |-> <<>>] /\ state' = "end"
    BY <1>13 DEF lists!List
  <2>2. page = found
    BY <1>1, <1>13, LastPageIsRest
  <2>3. \A r \in rows : Expected(r) => r.id \in seen'
    BY <1>0, <1>3, <2>2
  <2>4. cursor'.sort = sort /\ DOMAIN cursor'.after \subseteq lists!Columns
    BY <2>1
  <2>5. lists!TypeOK'
    <3> HIDE DEF sort
    <3> QED
      BY <1>0, <1>9, <1>10, <2>1, <2>4 DEF ListsInv, lists!TypeOK, SortSpec
  <2> QED
    BY <1>0, <1>6, <1>7, <1>11, <2>1, <2>3, <2>5 DEF ListsInv
<1> QED
  BY <1>12, <1>13

LEMMA FirstPageKeepsInv ==
    ASSUME ListsInv, NEW limit \in Nat \ {0}, lists!FirstPage(limit) PROVE ListsInv'
<1> DEFINE found == {r \in rows : lists!Where(query.filter, r)}
<1>1. query.list \in DOMAIN lists!FilterOps
      /\ query.sort \in Seq([field : STRING, direction : {"asc", "desc"}])
  BY QueriesAreParsed DEF ListsInv, lists!TypeOK
<1>2. Decisive(lists!ParsedSort(query.list, query.sort))
  BY <1>1, ParsedIsDecisive DEF lists!FirstPage
<1>3. \A r \in rows : Expected(r) => (r.id \in seen <=> r \notin found)
  BY DEF ListsInv, lists!FirstPage, Expected
<1>4. lists!List(query.sort, limit, found) /\ lists!FiltersAccepted(query.list, query.filter)
  BY DEF lists!FirstPage
<1>5. \A r \in found : lists!Where(query.filter, r)
  OBVIOUS
<1>6. \A r \in rows : lists!Where(query.filter, r) => r \in found
  OBVIOUS
<1>7. found \in SUBSET rows
  OBVIOUS
<1> HIDE DEF found
<1> QED
  BY <1>2, <1>3, <1>4, <1>5, <1>6, <1>7, PageSteps

LEMMA NextPageKeepsInv ==
    ASSUME ListsInv, NEW limit \in Nat \ {0}, NEW q \in Queries, lists!NextPage(q.sort, limit)
    PROVE  ListsInv'
<1> DEFINE sort == lists!ParsedSort(query.list, q.sort)
           found == {r \in rows : /\ lists!Where(query.filter, r)
                                  /\ lists!AfterCursor(sort, cursor.after, r)}
<1>1. query.list \in DOMAIN lists!FilterOps
      /\ q.sort \in Seq([field : STRING, direction : {"asc", "desc"}])
  BY QueriesAreParsed DEF ListsInv, lists!TypeOK
<1>2. Decisive(sort)
  BY <1>1, ParsedIsDecisive DEF lists!NextPage
<1>3. lists!List(q.sort, limit, found) /\ state = "more" /\ cursor.sort = sort
  BY DEF lists!NextPage, lists!CursorAccepted
<1>4. /\ PagingOK /\ lists!FiltersAccepted(query.list, query.filter)
      /\ rows \subseteq lists!Row
      /\ Comparable(sort, cursor.after)
  BY <1>3 DEF ListsInv, PagingOK, lists!TypeOK
<1>5. \A r \in rows : Expected(r) => (r.id \in seen <=> r \notin found)
  BY <1>3, <1>4 DEF PagingOK, Expected
<1>6. \A r \in found : lists!Where(query.filter, r)
  OBVIOUS
<1>7. ASSUME NEW r \in rows, NEW l \in found,
             lists!Where(query.filter, r), lists!AfterCursor(sort, l, r)
      PROVE  r \in found
  <2>1. Comparable(sort, l) /\ Comparable(sort, r)
    BY <1>2, <1>4, RowsAreComparable
  <2>2. lists!AfterCursor(sort, cursor.after, l)
    OBVIOUS
  <2>3. lists!AfterCursor(sort, cursor.after, r)
    <3> HIDE DEF sort, found
    <3> QED
      BY <1>2, <1>4, <1>7, <2>1, <2>2, AfterIsTransitive
  <2> QED
    BY <1>7, <2>3
<1>8. found \in SUBSET rows
  OBVIOUS
<1> HIDE DEF found
<1> QED
  BY <1>2, <1>3, <1>4, <1>5, <1>6, <1>7, <1>8, PageSteps

\* A change of one row, which counts as touched from then on.
LEMMA ChangesKeepInv ==
    ASSUME ListsInv, NEW i \in Ids, lists!Changes(i), Table(rows'),
           \A r \in rows' : r.id # i => r \in rows,
           UNCHANGED <<query, cursor, seen, again, state>>
    PROVE  ListsInv'
<1>1. state = "more" /\ touched' = touched \cup {i}
  BY DEF lists!Changes
<1>2. \A r \in rows' : Expected(r)' => Expected(r) /\ r \in rows
  BY <1>1 DEF Expected
<1>3. lists!TypeOK'
  BY <1>1 DEF ListsInv, lists!TypeOK, Table
<1>4. PagingOK'
  BY <1>1, <1>2 DEF ListsInv, PagingOK
<1>5. ASSUME NEW r \in rows', r.id \in seen' \ touched' PROVE lists!Where(query.filter, r)
  BY <1>1, <1>5 DEF ListsInv
<1> QED
  BY <1>1, <1>3, <1>4, <1>5 DEF ListsInv

LEMMA ListsSteps == ListsInv /\ [lists!Next]_lists!vars => ListsInv'
<1> SUFFICES ASSUME ListsInv, [lists!Next]_lists!vars PROVE ListsInv'
  OBVIOUS
<1>0. /\ rows \subseteq lists!Row /\ \A a, b \in rows : a.id = b.id => a = b
      /\ 1 .. MaxLimit \subseteq Nat \ {0}
  BY LimitIsNumber DEF ListsInv, Table
<1>1. ASSUME NEW limit \in 1 .. MaxLimit, lists!FirstPage(limit) PROVE ListsInv'
  BY <1>0, <1>1, FirstPageKeepsInv
<1>2. ASSUME NEW limit \in 1 .. MaxLimit, NEW q \in Queries, lists!NextPage(q.sort, limit)
      PROVE  ListsInv'
  BY <1>0, <1>2, NextPageKeepsInv
<1>3. ASSUME NEW r \in lists!Row, lists!Insert(r) PROVE ListsInv'
  <2>1. Table(rows') /\ r.id \in Ids /\ \A q \in rows' : q.id # r.id => q \in rows
    BY <1>0, <1>3 DEF lists!Insert, Table, lists!Row
  <2> QED
    BY <1>3, <2>1, ChangesKeepInv DEF lists!Insert
<1>4. ASSUME NEW q \in rows, lists!Delete(q) PROVE ListsInv'
  <2>1. Table(rows') /\ q.id \in Ids /\ \A r \in rows' : r.id # q.id => r \in rows
    BY <1>0, <1>4 DEF lists!Delete, Table, lists!Row
  <2> QED
    BY <1>4, <2>1, ChangesKeepInv DEF lists!Delete
<1>5. ASSUME NEW q \in rows, NEW r \in lists!Row, lists!Update(q, r) PROVE ListsInv'
  <2>1. Table(rows') /\ q.id \in Ids /\ \A x \in rows' : x.id # q.id => x \in rows
    BY <1>0, <1>5 DEF lists!Update, Table, lists!Row
  <2> QED
    BY <1>5, <2>1, ChangesKeepInv DEF lists!Update
<1>6. CASE UNCHANGED lists!vars
  BY <1>6 DEF lists!vars, ListsInv, lists!TypeOK, PagingOK, Expected
<1> QED
  BY <1>1, <1>2, <1>3, <1>4, <1>5, <1>6 DEF lists!Next

LEMMA ListsInit == lists!Init => ListsInv
<1> SUFFICES ASSUME lists!Init PROVE ListsInv
  OBVIOUS
<1>0. PICK D \in SUBSET Ids : \E t \in [D -> Values \X Values \X Values] :
          rows = {[id |-> i, createdAt |-> t[i][1], email |-> t[i][2],
                   other |-> t[i][3]] : i \in D}
  BY DEF lists!Init
<1>1. PICK t \in [D -> Values \X Values \X Values] :
          rows = {[id |-> i, createdAt |-> t[i][1], email |-> t[i][2],
                   other |-> t[i][3]] : i \in D}
  BY <1>0
<1>2. \A i \in D : t[i][1] \in Values /\ t[i][2] \in Values /\ t[i][3] \in Values /\ i \in Ids
  OBVIOUS
<1>3. Table(rows)
  BY <1>1, <1>2 DEF Table, lists!Row
<1>4. cursor.sort = <<>> /\ cursor.after = <<>>
  BY DEF lists!Init
<1>5. lists!TypeOK
  BY <1>3, <1>4 DEF lists!Init, lists!TypeOK, Table
<1> QED
  BY <1>3, <1>5 DEF lists!Init, ListsInv

LEMMA ListsAreSafe ==
    ListsInv => lists!TypeOK /\ lists!UnchangedRowsAreListedOnce /\ lists!AcceptedFiltersApply
<1> SUFFICES ASSUME ListsInv
             PROVE  lists!UnchangedRowsAreListedOnce /\ lists!AcceptedFiltersApply
  BY DEF ListsInv
<1>1. state # "start" =>
        \A r : lists!Where(query.filter, r) <=> \A f \in query.filter : lists!Meets(f, r)
  BY AcceptedIsMapped DEF ListsInv
<1>2. lists!UnchangedRowsAreListedOnce
  BY <1>1 DEF ListsInv, lists!UnchangedRowsAreListedOnce, Expected
<1>3. lists!AcceptedFiltersApply
  BY <1>1 DEF ListsInv, lists!AcceptedFiltersApply
<1> QED
  BY <1>2, <1>3

LEMMA ListsAlways == lists!Spec => []ListsInv
<1>1. lists!Init => ListsInv
  BY ListsInit
<1>2. ListsInv /\ [lists!Next]_lists!vars => ListsInv'
  BY ListsSteps
<1> QED
  BY <1>1, <1>2, PTL DEF lists!Spec

-----------------------------------------------------------------------------
(* AccessProofs has an instance of Access of its own; it is the same one. *)

LEMMA SameKeySteps ==
    /\ \A i \in Instances : access!Deploy(i) <=> accessed!Deploy(i)
    /\ \A k \in Kids : access!AddKey(k) <=> accessed!AddKey(k)
    /\ \A keep \in BOOLEAN : access!PromoteKey(keep) <=> accessed!PromoteKey(keep)
    /\ access!RemoveKey <=> accessed!RemoveKey
BY DEF access!Deploy, access!AddKey, access!PromoteKey, access!RemoveKey, access!Deployed,
       access!PublicKeys, access!IdleRequest, access!Doing,
       accessed!Deploy, accessed!AddKey, accessed!PromoteKey, accessed!RemoveKey,
       accessed!Deployed, accessed!PublicKeys, accessed!IdleRequest, accessed!Doing

LEMMA SameData ==
    /\ access!IdleRequest = accessed!IdleRequest /\ access!NoToken = accessed!NoToken
    /\ access!Row = accessed!Row /\ access!Routes = accessed!Routes
    /\ access!AdminRoutes = accessed!AdminRoutes /\ access!Permissions = accessed!Permissions
    /\ access!Key = accessed!Key /\ access!Token = accessed!Token
    /\ access!Request = accessed!Request
    /\ \A x, y : access!Doing(x, y) = accessed!Doing(x, y)
    /\ \A x : access!Standing(x) = accessed!Standing(x)
    /\ \A x : access!SigningKey(x) = accessed!SigningKey(x)
    /\ \A x : access!PublicKeys(x) = accessed!PublicKeys(x)
BY DEF access!IdleRequest, access!NoToken, access!Row, access!Routes, access!AdminRoutes,
       access!Permissions, access!Key, access!Token, access!Request, access!Doing,
       access!Standing, access!SigningKey, access!PublicKeys, access!Roles,
       accessed!IdleRequest, accessed!NoToken, accessed!Row, accessed!Routes,
       accessed!AdminRoutes, accessed!Permissions, accessed!Key, accessed!Token,
       accessed!Request, accessed!Doing, accessed!Standing, accessed!SigningKey,
       accessed!PublicKeys, accessed!Roles

LEMMA SameRequirements ==
    /\ \A r : access!Required(r) = accessed!Required(r)
    /\ \A g, r : access!HasAllPermissions(g, r) <=> accessed!HasAllPermissions(g, r)
    /\ \A p \in Clients : access!Granted(p) = accessed!Granted(p)
    /\ \A p \in Clients : access!Verifies(p) <=> accessed!Verifies(p)
<1>1. \A r : access!Required(r) = accessed!Required(r)
  BY SameData DEF access!Required, accessed!Required
<1>2. \A g, r : access!PermissionMatches(g, r) <=> accessed!PermissionMatches(g, r)
  BY DEF access!PermissionMatches, accessed!PermissionMatches
<1>3. \A g, r : access!HasAllPermissions(g, r) <=> accessed!HasAllPermissions(g, r)
  BY <1>2 DEF access!HasAllPermissions, accessed!HasAllPermissions
<1>4. \A p \in Clients : access!Granted(p) = accessed!Granted(p)
  BY SameData DEF access!Granted, accessed!Granted
<1>5. \A p \in Clients : access!Verifies(p) <=> accessed!Verifies(p)
  BY SameData DEF access!Verifies, accessed!Verifies
<1> QED
  BY <1>1, <1>3, <1>4, <1>5

LEMMA SameGuards ==
    ASSUME NEW p \in Clients
    PROVE  /\ access!Unauthorized(p) <=> accessed!Unauthorized(p)
           /\ access!Authenticate(p) <=> accessed!Authenticate(p)
           /\ access!Hydrate(p) <=> accessed!Hydrate(p)
           /\ access!RefuseUser(p) <=> accessed!RefuseUser(p)
           /\ access!HydrateFails(p) <=> accessed!HydrateFails(p)
           /\ access!Permit(p) <=> accessed!Permit(p)
           /\ access!Forbid(p) <=> accessed!Forbid(p)
<1>1. access!Ends(p) <=> accessed!Ends(p)
  BY SameData DEF access!Ends, accessed!Ends
<1>2. \A r : access!UsesDbRoles(r) <=> accessed!UsesDbRoles(r)
  BY DEF access!UsesDbRoles, accessed!UsesDbRoles
<1>3. access!Authenticate(p) <=> accessed!Authenticate(p)
  BY <1>2, SameRequirements, SameData DEF access!Authenticate, accessed!Authenticate
<1>4. /\ access!Unauthorized(p) <=> accessed!Unauthorized(p)
      /\ access!Hydrate(p) <=> accessed!Hydrate(p)
      /\ access!RefuseUser(p) <=> accessed!RefuseUser(p)
      /\ access!HydrateFails(p) <=> accessed!HydrateFails(p)
  BY <1>1, SameRequirements
     DEF access!Unauthorized, access!Hydrate, access!RefuseUser, access!HydrateFails,
         accessed!Unauthorized, accessed!Hydrate, accessed!RefuseUser, accessed!HydrateFails
<1>5. /\ access!Permit(p) <=> accessed!Permit(p)
      /\ access!Forbid(p) <=> accessed!Forbid(p)
  BY <1>1, SameRequirements DEF access!Permit, access!Forbid, accessed!Permit, accessed!Forbid
<1> QED
  BY <1>3, <1>4, <1>5

LEMMA SameTokenSteps ==
    ASSUME NEW p \in Clients
    PROVE  /\ \A i \in Instances : access!Issue(p, i) <=> accessed!Issue(p, i)
           /\ \A i \in Instances, t \in AccessTokens, route \in access!Routes :
                 access!Arrive(p, i, t, route) <=> accessed!Arrive(p, i, t, route)
           /\ \A t \in AccessTokens :
                 /\ access!SignAccessToken(p, t) <=> accessed!SignAccessToken(p, t)
                 /\ access!Expire(t) <=> accessed!Expire(t)
<1>1. access!Ends(p) <=> accessed!Ends(p)
  BY SameData DEF access!Ends, accessed!Ends
<1>2. \A t \in AccessTokens : access!SignAccessToken(p, t) <=> accessed!SignAccessToken(p, t)
  BY <1>1, SameData DEF access!SignAccessToken, accessed!SignAccessToken
<1> QED
  BY <1>2, SameData DEF access!Issue, access!Arrive, access!Expire,
                        accessed!Issue, accessed!Arrive, accessed!Expire

LEMMA SamePart ==
    /\ access!Init => accessed!Init
    /\ access!Next => accessed!Next
    /\ UNCHANGED access!vars <=> UNCHANGED accessed!vars
<1>1. access!Init => accessed!Init
  BY SameData DEF access!Init, accessed!Init
<1>2. \A t \in AccessTokens : access!Expire(t) <=> accessed!Expire(t)
  BY DEF access!Expire, accessed!Expire
<1>3. \A row : access!ChangeUser(row) <=> accessed!ChangeUser(row)
  BY SameData DEF access!ChangeUser, accessed!ChangeUser
<1>4. \A p \in Clients : access!Proceed(p) <=> accessed!Proceed(p)
  BY SameData, SameTokenSteps, SameGuards DEF access!Proceed, accessed!Proceed
<1>5. access!Next => accessed!Next
  BY <1>2, <1>3, <1>4, SameKeySteps, SameData DEF access!Next, accessed!Next
<1>6. UNCHANGED access!vars <=> UNCHANGED accessed!vars
  BY DEF access!vars, accessed!vars
<1> QED
  BY <1>1, <1>5, <1>6

\* What the proofs about access say, of the part of the sum.
LEMMA AccessAlways ==
    accessed!Spec => []access!TypeOK /\ ValidTokensPass /\ AdminRoutesFollowTheRow
<1>1. accessed!TypeOK => access!TypeOK
  BY SameData DEF accessed!TypeOK, access!TypeOK
<1>2. accessed!Spec => []accessed!TypeOK /\ accessed!ValidTokensPass
                       /\ accessed!AdminRoutesFollowTheRow
  BY accessed!TypeCorrect, accessed!TokensPass, accessed!GuardsFollowTheRow
<1>3. [accessed!RefusedHaveExpired]_accessed!vars => [access!RefusedHaveExpired]_access!vars
  BY SameGuards, SamePart DEF accessed!RefusedHaveExpired, access!RefusedHaveExpired
<1>4. [accessed!DecisionsAreTrue]_accessed!vars => [access!DecisionsAreTrue]_access!vars
  BY SameGuards, SamePart DEF accessed!DecisionsAreTrue, access!DecisionsAreTrue
<1> QED
  BY <1>1, <1>2, <1>3, <1>4, PTL
     DEF ValidTokensPass, access!ValidTokensPass, accessed!ValidTokensPass,
         AdminRoutesFollowTheRow, access!AdminRoutesFollowTheRow,
         accessed!AdminRoutesFollowTheRow

-----------------------------------------------------------------------------
(* The sum. *)

\* The state in which the lists start when another part is chosen is one of theirs.
LEMMA ListsStart == SumInit => lists!Init
<1> SUFFICES ASSUME SumInit, part # "lists" PROVE lists!Init
  BY DEF SumInit
<1> DEFINE Rows(D, t) ==
               {[id |-> i, createdAt |-> t[i][1], email |-> t[i][2], other |-> t[i][3]] : i \in D}
           none == [i \in {} |-> i]
<1>1. none \in [{} -> Values \X Values \X Values] /\ rows = Rows({}, none)
  BY DEF SumInit
<1>2. \E D \in SUBSET Ids : \E t \in [D -> Values \X Values \X Values] : rows = Rows(D, t)
  BY <1>1
<1>3. query \in Queries
  BY QueriesAreParsed DEF SumInit
<1> QED
  BY <1>2, <1>3 DEF SumInit, lists!Init

\* A behaviour of the sum is a behaviour of each part: the parts share no variable.
THEOREM SumOfParts == SumSpec => Spec /\ access!Spec /\ lists!Spec
<1>1. SumInit => Init /\ access!Init /\ lists!Init
  BY ListsStart DEF SumInit
<1>2. [SumNext]_sumVars => [Next]_vars
  BY DEF SumNext, sumVars, vars, ImagesStay
<1>3. [SumNext]_sumVars => [access!Next]_access!vars
  BY DEF SumNext, sumVars, access!vars, AccessStays
<1>4. [SumNext]_sumVars => [lists!Next]_lists!vars
  BY DEF SumNext, sumVars, lists!vars, ListsStay
<1> QED
  BY <1>1, <1>2, <1>3, <1>4, PTL DEF SumSpec, Spec, access!Spec, lists!Spec

LEMMA SumOfAccess == SumSpec => accessed!Spec
<1>1. access!Init => accessed!Init
  BY SamePart
<1>2. [access!Next]_access!vars => [accessed!Next]_accessed!vars
  BY SamePart
<1> QED
  BY <1>1, <1>2, SumOfParts, PTL DEF access!Spec, accessed!Spec

\* Every variable of every part has its type in every reachable state.
THEOREM TypesAreCorrect == SumSpec => []TypesOK
<1>1. ListsInv => lists!TypeOK
  BY DEF ListsInv
<1> QED
  BY <1>1, SumOfParts, SumOfAccess, ImagesTyped, AccessAlways, ListsAlways, PTL DEF TypesOK

\* Whatever comes and goes while a client pages, however rows tie on the sort fields and
\* whatever the page sizes are, a row that stays as it is is listed once if it meets the
\* filter, and not at all if it does not.
THEOREM ListsStayExact == SumSpec => []ListsAreExact
<1>1. ListsInv => ListsAreExact
  BY ListsAreSafe DEF ListsAreExact
<1> QED
  BY <1>1, SumOfParts, ListsAlways, PTL

\* While instances with the old and with the new keys serve side by side, each accepts
\* every token that has not expired.
THEOREM TokensPass == SumSpec => ValidTokensPass
BY SumOfAccess, AccessAlways, PTL

\* Who passes the guard of an admin route was an active admin at some moment since the
\* request came, and who is turned away was not.
THEOREM GuardsFollowTheRow == SumSpec => AdminRoutesFollowTheRow
BY SumOfAccess, AccessAlways, PTL
=============================================================================

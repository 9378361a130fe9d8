------------------------- MODULE AccountDeletionJobs -------------------------
(***************************************************************************)
(* The deletion of one account as its requests, the BullMQ jobs and the    *)
(* workers carry it out.  The schedule is a column of the user's row, the  *)
(* jobs live in Redis under ids made from the user's id, and no            *)
(* transaction spans the two.                                              *)
(*                                                                         *)
(* A database transaction of a request is one step here, and the finalizer *)
(* is its read and its write (UserLifecycle has the statements).  Time is  *)
(* counted down: a tick is the day between reminder and deletion, and      *)
(* schedules and delays are the ticks that are left.                       *)
(***************************************************************************)
EXTENDS Naturals

CONSTANTS
    Calls,        \* concurrent HTTP requests of the account's owner
    Grace,        \* ticks of ACCOUNT_DELETION_GRACE_PERIOD_DAYS
    MaxAttempts,  \* DEFAULT_JOB_OPTIONS.attempts
    MaxStalls,    \* DEFAULT_WORKER_OPTIONS.maxStalledCount
    None

ASSUME GraceAssumption == Grace \in Nat /\ Grace > 1
ASSUME AttemptsAssumption == MaxAttempts \in Nat \ {0} /\ MaxStalls \in Nat
ASSUME NoneAssumption == None \notin 0 .. Grace

VARIABLES
    mailing,  \* an email provider is configured
    due,      \* deletionScheduledFor: the ticks left, or None
    erased,   \* status is DELETED
    sole,     \* the user is the last active admin
    queue,    \* the job under each id
    run,      \* the worker's run of that job
    call,     \* the local state of each request
    stray     \* history: the reminder's job may be that of another schedule, because a
              \* cancellation did not remove it or the schedule changed under a request

vars == <<mailing, due, erased, sole, queue, run, call, stray>>

Jobs == {"finalize", "reminder"}

Ticks == 0 .. Grace

UnboundedLess(n) == IF n = None THEN n ELSE n - 1

\* A tick less, or a time that has passed.
Less(n) == IF n \in {None, 0} THEN n ELSE n - 1

\* A job that waits is delayed by no tick.
Job == [state : {"none", "delayed", "active", "completed", "failed"},
        delay : Ticks, attempts : 0 .. MaxAttempts, stalls : 0 .. MaxStalls]

NoJob == [state |-> "none", delay |-> 0, attempts |-> 0, stalls |-> 0]

\* seen: the schedule the run has read.  overdue: the schedule had passed when the run
\* took the time.  met (history): a call went on while the job was active.
Run == [pc : {"idle", "read", "write", "move", "send", "end"},
        seen : Ticks \cup {None}, overdue : BOOLEAN, met : BOOLEAN]

IdleRun == [pc |-> "idle", seen |-> None, overdue |-> FALSE, met |-> FALSE]

\* alone (history): no other call and no run of the finalizer went on while the call did.
Call == [pc : {"idle", "commit", "remove", "add", "unmail", "mail", "done"},
         kind : {"request", "cancel"}, delay : Ticks, alone : BOOLEAN]

IdleCall == [pc |-> "idle", kind |-> "request", delay |-> 0, alone |-> FALSE]

IsPending == due # None

IsOpen(c) == call[c].pc \notin {"idle", "done"}

IsActive(j) == queue[j].state = "active"

IsCancel(c) == call[c].kind = "cancel"

(***************************************************************************)
(* QueueProducer: removeJob and enqueue                                    *)
(***************************************************************************)

RemovalSkipped(j) == queue

\* The job of an id that is locked by a worker is not removed.
Removed(j) == IF IsActive(j) THEN queue ELSE [queue EXCEPT ![j] = NoJob]

\* A job is not added under an id that exists, in whatever state.
Added(j, delay) ==
    IF queue[j].state # "none" THEN queue
    ELSE [queue EXCEPT ![j] = [NoJob EXCEPT !.state = "delayed", !.delay = delay]]

(***************************************************************************)
(* UserAccountDeletionController, UsersService and the job schedulers      *)
(***************************************************************************)

\* Everything that goes on beside a call or a run is noted in it.
Noting(c, record) ==
    [d \in Calls |-> IF d = c THEN record
                     ELSE [call[d] EXCEPT !.alone = FALSE]]

Meeting == [j \in Jobs |-> IF IsActive(j) THEN [run[j] EXCEPT !.met = TRUE] ELSE run[j]]

Arrive(c, kind) ==
    /\ ~IsOpen(c)
    /\ ~erased
    /\ call' = Noting(c, [IdleCall EXCEPT
                 !.pc = "commit", !.kind = kind,
                 !.alone = (\A d \in Calls \ {c} : ~IsOpen(d)) /\ ~IsActive("finalize")])
    /\ run' = Meeting
    /\ UNCHANGED <<mailing, due, erased, sole, queue, stray>>

\* Where a call goes on to, or stops.
Steps(c, pc) ==
    /\ call' = Noting(c, IF pc \in {"idle", "done"} THEN [IdleCall EXCEPT !.pc = pc]
                         ELSE [call[c] EXCEPT !.pc = pc])
    /\ run' = Meeting

\* requestAccountDeletion: the transaction, and the delay of the job for its schedule.
CommitRequest(c) ==
    /\ call[c].pc = "commit" /\ call[c].kind = "request"
    /\ ~erased
    /\ \/ /\ ~IsPending /\ ~sole
          /\ due' = Grace
          /\ call' = Noting(c, [call[c] EXCEPT !.pc = "remove", !.delay = Grace])
       \/ /\ IsPending
          /\ call' = Noting(c, [call[c] EXCEPT !.pc = "remove", !.delay = due])
          /\ UNCHANGED due
    /\ run' = Meeting
    /\ UNCHANGED <<mailing, erased, sole, queue, stray>>

\* cancelAccountDeletion.
CommitCancel(c) ==
    /\ call[c].pc = "commit" /\ call[c].kind = "cancel"
    /\ ~erased
    /\ due' = None
    /\ call' = Noting(c, [call[c] EXCEPT !.pc = "remove"])
    /\ run' = [Meeting EXCEPT !["finalize"].overdue = FALSE]
    /\ UNCHANGED <<mailing, erased, sole, queue, stray>>

\* not_found, last_admin, or an error of the database.
CommitRefused(c) ==
    /\ call[c].pc = "commit"
    /\ Steps(c, "idle")
    /\ UNCHANGED <<mailing, due, erased, sole, queue, stray>>

\* scheduleDeletionReminderEmail enqueues only while the reminder is still to come.
WantsReminder(c) == call[c].kind = "request" /\ mailing /\ call[c].delay > 1

\* scheduleFinalize and cancelFinalize: removeJob.
RemoveJob(c) ==
    /\ call[c].pc = "remove"
    /\ queue' = Removed("finalize")
    /\ Steps(c, IF call[c].kind = "request" THEN "add" ELSE "unmail")
    /\ UNCHANGED <<mailing, due, erased, sole, stray>>

\* scheduleFinalize: enqueue.
AddJob(c) ==
    /\ call[c].pc = "add"
    /\ queue' = Added("finalize", call[c].delay)
    /\ Steps(c, IF WantsReminder(c) THEN "unmail" ELSE "done")
    /\ UNCHANGED <<mailing, due, erased, sole, stray>>

\* scheduleDeletionReminderEmail and cancelDeletionReminderEmail: removeJob.
RemoveMail(c) ==
    /\ call[c].pc = "unmail"
    /\ queue' = Removed("reminder")
    /\ stray' = (IsActive("reminder") /\ (stray \/ IsCancel(c)))
    /\ Steps(c, IF call[c].kind = "request" THEN "mail" ELSE "done")
    /\ UNCHANGED <<mailing, due, erased, sole>>

\* ...and enqueue.
AddMail(c) ==
    /\ call[c].pc = "mail"
    /\ queue' = Added("reminder", Less(call[c].delay))
    /\ stray' = (stray \/ call[c].delay # due)
    /\ Steps(c, "done")
    /\ UNCHANGED <<mailing, due, erased, sole>>

\* runBestEffort: the call succeeds when a command on the reminder's job fails.
MailFails(c) ==
    /\ call[c].pc \in {"unmail", "mail"}
    /\ stray' = (stray \/ IsCancel(c))
    /\ Steps(c, "done")
    /\ UNCHANGED <<mailing, due, erased, sole, queue>>

\* A command on the finalizer's job fails, or the process dies: what was committed stays.
CallFails(c) ==
    /\ IsOpen(c) /\ call[c].pc # "commit"
    /\ stray' = (stray \/ IsCancel(c))
    /\ Steps(c, "idle")
    /\ UNCHANGED <<mailing, due, erased, sole, queue>>

(***************************************************************************)
(* UsersAccountDeletionWorker and EmailsWorker                             *)
(***************************************************************************)

\* A worker takes a job that is due, and its lock; the finalizer notes the time.
Start(j) ==
    /\ queue[j].state = "delayed" /\ queue[j].delay = 0
    /\ queue' = [queue EXCEPT ![j].state = "active"]
    /\ run' = [run EXCEPT ![j] = [IdleRun EXCEPT
                 !.pc = "read", !.overdue = IsPending /\ due = 0,
                 !.met = \E c \in Calls : IsOpen(c)]]
    /\ call' = IF j = "finalize" THEN [c \in Calls |-> [call[c] EXCEPT !.alone = FALSE]] ELSE call
    /\ UNCHANGED <<mailing, due, erased, sole, stray>>

\* The run goes on to pc, or ends and leaves the job as given.
Runs(j, pc) == run' = [run EXCEPT ![j].pc = pc]

Ends(j, job) ==
    /\ run' = [run EXCEPT ![j] = IdleRun]
    /\ queue' = [queue EXCEPT ![j] = job]

Gone(state) == [NoJob EXCEPT !.state = state]

SkipsEarly == erased \/ due # 0

\* What both workers skip: an erased account, and one without a schedule.
IsSkipped == erased \/ ~IsPending

\* The schedule lies after the time the run has taken.
NeverEarly == FALSE

EarlyWhenOverdue == run["finalize"].overdue

IsNotDue == ~run["finalize"].overdue

\* runFinalizeAccountDeletionTx reads the user.
ReadUser ==
    /\ run["finalize"].pc = "read"
    /\ \/ /\ IsSkipped
          /\ Runs("finalize", "end")
       \/ /\ ~IsSkipped /\ IsNotDue
          /\ run' = [run EXCEPT !["finalize"].pc = "move", !["finalize"].seen = due]
       \/ /\ ~IsSkipped /\ ~IsNotDue /\ sole
          /\ run' = [run EXCEPT !["finalize"].pc = "move", !["finalize"].seen = 1]
       \/ /\ ~IsSkipped /\ ~IsNotDue /\ ~sole
          /\ run' = [run EXCEPT !["finalize"].pc = "write", !["finalize"].seen = due]
    /\ UNCHANGED <<mailing, due, erased, sole, queue, call, stray>>

\* moveToDelayed, to the schedule that was read or by another day.
MoveToDelayed ==
    /\ run["finalize"].pc = "move"
    /\ Ends("finalize", [queue["finalize"] EXCEPT !.state = "delayed",
                                                 !.delay = run["finalize"].seen])
    /\ UNCHANGED <<mailing, due, erased, sole, call, stray>>

\* The update names the user's id only: it does not look at the schedule again.
Erase ==
    /\ run["finalize"].pc = "write"
    /\ erased' = TRUE
    /\ due' = None
    /\ Runs("finalize", "end")
    /\ UNCHANGED <<mailing, sole, queue, call, stray>>

\* runAccountDeletionReminderEmailJob: the read.
IsTooLate == due = 0

ReadForEmail ==
    /\ run["reminder"].pc = "read"
    /\ Runs("reminder", IF IsSkipped \/ IsTooLate THEN "end" ELSE "send")
    /\ UNCHANGED <<mailing, due, erased, sole, queue, call, stray>>

\* The mail is out.  A run that fails or dies from here on, or whose provider's answer
\* is lost, is tried again from its read: nothing records that the mail was sent.
SendEmail ==
    /\ run["reminder"].pc = "send"
    /\ Runs("reminder", "end")
    /\ UNCHANGED <<mailing, due, erased, sole, queue, call, stray>>

Complete(j) ==
    /\ run[j].pc = "end"
    /\ Ends(j, Gone("completed"))
    /\ UNCHANGED <<mailing, due, erased, sole, call, stray>>

\* The processor throws: the job is tried again, attempts times in all.
RunFails(j) ==
    /\ run[j].pc \in {"read", "write", "move", "send"}
    /\ Ends(j, IF queue[j].attempts + 1 < MaxAttempts
               THEN [queue[j] EXCEPT !.state = "delayed", !.attempts = @ + 1]
               ELSE Gone("failed"))
    /\ UNCHANGED <<mailing, due, erased, sole, call, stray>>

\* The worker dies: its lock runs out and the job is stalled.
WorkerDies(j) ==
    /\ run[j].pc # "idle"
    /\ Ends(j, IF queue[j].stalls < MaxStalls
               THEN [queue[j] EXCEPT !.state = "delayed", !.stalls = @ + 1]
               ELSE Gone("failed"))
    /\ UNCHANGED <<mailing, due, erased, sole, call, stray>>

(***************************************************************************)
(* Time and the other admins                                               *)
(***************************************************************************)

Tick ==
    /\ \/ IsPending /\ due > 0
       \/ \E j \in Jobs : queue[j].state = "delayed" /\ queue[j].delay > 0
    /\ due' = Less(due)
    /\ queue' = [j \in Jobs |-> [queue[j] EXCEPT !.delay = Less(@)]]
    /\ run' = [j \in Jobs |-> [run[j] EXCEPT !.seen = Less(@)]]
    /\ call' = [c \in Calls |-> [call[c] EXCEPT !.delay = Less(@)]]
    /\ UNCHANGED <<mailing, erased, sole, stray>>

\* Another user becomes, or ceases to be, an active admin.
AdminsChange ==
    /\ ~erased
    /\ sole' = ~sole
    /\ UNCHANGED <<mailing, due, erased, queue, run, call, stray>>

Proceed(c) ==
    \/ CommitRequest(c) \/ CommitCancel(c) \/ CommitRefused(c)
    \/ RemoveJob(c) \/ AddJob(c)
    \/ RemoveMail(c) \/ AddMail(c) \/ MailFails(c) \/ CallFails(c)

Work(j) ==
    \/ Start(j) \/ Complete(j) \/ RunFails(j) \/ WorkerDies(j)

Finalize == ReadUser \/ MoveToDelayed \/ Erase

Remind == ReadForEmail \/ SendEmail

Next ==
    \/ \E c \in Calls : \/ \E kind \in {"request", "cancel"} : Arrive(c, kind)
                        \/ Proceed(c)
    \/ \E j \in Jobs : Work(j)
    \/ Finalize
    \/ Remind
    \/ Tick
    \/ AdminsChange

Init ==
    /\ mailing \in BOOLEAN
    /\ due = None
    /\ erased = FALSE
    /\ sole = FALSE
    /\ queue = [j \in Jobs |-> NoJob]
    /\ run = [j \in Jobs |-> IdleRun]
    /\ call = [c \in Calls |-> IdleCall]
    /\ stray = FALSE

Spec == Init /\ [][Next]_vars

\* Time passes and the workers run.
Fairness ==
    /\ WF_vars(Tick)
    /\ WF_vars(Finalize)
    /\ \A c \in Calls : WF_vars(Proceed(c))
    /\ \A j \in Jobs : WF_vars(Start(j)) /\ WF_vars(Complete(j))

FairSpec == Spec /\ Fairness

-----------------------------------------------------------------------------
(***************************************************************************)
(* Properties.                                                             *)
(***************************************************************************)

\* Every variable has its type.
TypeOK ==
    /\ mailing \in BOOLEAN
    /\ due \in Ticks \cup {None}
    /\ erased \in BOOLEAN /\ sole \in BOOLEAN
    /\ queue \in [Jobs -> Job]
    /\ run \in [Jobs -> Run]
    /\ call \in [Calls -> Call]
    /\ stray \in BOOLEAN

\* A request that is answered with success, and met neither another call nor a run
\* of the finalizer, leaves a job that wakes when the deletion is due, whatever
\* failed or died before it.
RequestLeavesJob ==
    [][\A c \in Calls :
         call[c].kind = "request" /\ call[c].alone /\ call'[c].pc = "done" =>
             /\ queue'["finalize"].state = "delayed"
             /\ queue'["finalize"].delay = due']_vars

\* The finalizer's job does not end while the deletion is pending, unless a call
\* changed the schedule under the run or every attempt failed.
RunsKeepTheDeletion ==
    [][queue["finalize"].state = "active" /\ queue'["finalize"].state = "completed"
         /\ ~run["finalize"].met => due' = None]_vars

\* Whichever job woke the finalizer, perhaps that of a schedule long canceled, the
\* account is erased only when its schedule has passed; a call that meets the run
\* may change the schedule between its read and its write.
ErasedWhenDue ==
    [][~erased /\ erased' /\ ~run["finalize"].met => due = 0]_vars

\* The reminder goes out on the last day of the schedule that stands, however often
\* requests are repeated, canceled and made again, and runs fail or die.  The ways out
\* are a run that a call met, a cancellation that failed before the reminder's job was
\* removed or found it active, and a schedule that changed under the request that added
\* the job; how often a reminder is sent is not bounded.
RemindersAreOnTime ==
    [][run["reminder"].pc = "read" /\ run'["reminder"].pc = "send"
         /\ ~run["reminder"].met /\ ~stray => due = 1]_vars

IsCarried == queue["finalize"].state \in {"delayed", "active"}

\* A deletion that has a job is carried out, is canceled or waits for another
\* admin, unless the job is removed or gives up.
DeletionEnds ==
    (IsPending /\ IsCarried) ~> (~IsPending \/ sole \/ ~IsCarried)
=============================================================================

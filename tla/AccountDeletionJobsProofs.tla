---------------------- MODULE AccountDeletionJobsProofs ----------------------
(***************************************************************************)
(* What AccountDeletionJobs guarantees for any number of calls, attempts   *)
(* and stalls, and any grace period.                                       *)
(*                                                                         *)
(* No transaction spans the database and Redis, so each side is right only *)
(* as long as nobody else came in between.  A run that no call has met     *)
(* knows the schedule as it is (FinalizerIsRight); a call that has met     *)
(* neither another one nor the finalizer knows both the schedule and the   *)
(* job as they are (AloneIsRight); and a reminder's job that is not stray  *)
(* does not wake before the last day of the schedule that stands, or a     *)
(* cancellation is on its way to remove it (ReminderIsKnown).  Schedules   *)
(* and delays shrink together with every tick, so what agrees goes on to   *)
(* agree.                                                                  *)
(***************************************************************************)
EXTENDS AccountDeletionJobs, TLAPS

\* A job is locked as long as a worker runs it.
RunsHoldJobs == \A j \in Jobs : IsActive(j) <=> run[j].pc # "idle"

\* A run that has met no call goes on beside none.
UnmetRunsAreAlone ==
    \A j \in Jobs : IsActive(j) /\ ~run[j].met => \A c \in Calls : ~IsOpen(c)

\* The finalizer puts its job back for a time that it has read.
MovesKnowTheSchedule == run["finalize"].pc = "move" => run["finalize"].seen \in Ticks

ErasedIsUnscheduled == erased => due = None

\* What the finalizer has concluded holds until it acts on it, if no call comes.
FinalizerIsRight ==
    ~run["finalize"].met =>
        /\ run["finalize"].pc = "read" /\ run["finalize"].overdue => due = 0
        /\ run["finalize"].pc = "write" => due = 0
        /\ run["finalize"].pc = "end" => due = None

\* A cancellation that is committed and goes on to the reminder's job.
Clears(c) == IsCancel(c) /\ call[c].pc \in {"remove", "unmail"}

\* What the reminder's job waits for, unless it is stray.
ReminderIsKnown ==
    /\ IsActive("reminder") => queue["reminder"].delay = 0
    /\ ~stray /\ queue["reminder"].state \in {"delayed", "active"} =>
          \/ erased
          \/ \E c \in Calls : Clears(c)
          \/ due # None /\ due <= queue["reminder"].delay + 1

\* A call that is alone has the finalizer's job as far as it has come.
AloneIsRight ==
    \A c \in Calls : call[c].alone =>
        /\ IsOpen(c) /\ ~IsActive("finalize")
        /\ \A d \in Calls \ {c} : ~IsOpen(d)
        /\ call[c].kind = "request" =>
              /\ call[c].pc \in {"remove", "add"} => call[c].delay = due
              /\ call[c].pc = "add" => queue["finalize"].state = "none"
              /\ call[c].pc \in {"unmail", "mail"}
                    => queue["finalize"].state = "delayed" /\ queue["finalize"].delay = due

Inv ==
    /\ TypeOK
    /\ RunsHoldJobs
    /\ UnmetRunsAreAlone
    /\ MovesKnowTheSchedule
    /\ ErasedIsUnscheduled
    /\ FinalizerIsRight
    /\ ReminderIsKnown
    /\ AloneIsRight

-----------------------------------------------------------------------------
(* Times and records. *)

LEMMA LessTypes ==
    /\ \A n \in Ticks : Less(n) \in Ticks
    /\ \A n \in Ticks \cup {None} : Less(n) \in Ticks \cup {None}
    /\ \A n \in Ticks \cup {None} : (Less(n) = None) <=> (n = None)
    /\ Less(0) = 0
  BY GraceAssumption, NoneAssumption DEF Less, Ticks

LEMMA RecordTypes ==
    /\ NoJob \in Job /\ IdleRun \in Run /\ IdleCall \in Call
    /\ \A state \in {"none", "delayed", "active", "completed", "failed"} : Gone(state) \in Job
  BY GraceAssumption, AttemptsAssumption
  DEF NoJob, Job, IdleRun, Run, IdleCall, Call, Gone, Ticks

\* What Noting writes.
LEMMA NotingWrites ==
  ASSUME call \in [Calls -> Call], NEW c \in Calls, NEW record \in Call,
         call' = Noting(c, record)
  PROVE  /\ call' \in [Calls -> Call]
         /\ call'[c] = record
         /\ \A d \in Calls \ {c} :
               /\ call'[d].pc = call[d].pc /\ call'[d].kind = call[d].kind
               /\ call'[d].delay = call[d].delay /\ ~call'[d].alone
<1>1. ASSUME NEW d \in Calls \ {c}
      PROVE  /\ call'[d] \in Call
             /\ call'[d].pc = call[d].pc /\ call'[d].kind = call[d].kind
             /\ call'[d].delay = call[d].delay /\ ~call'[d].alone
  <2>1. call[d] \in Call /\ call'[d] = [call[d] EXCEPT !.alone = FALSE]
    BY DEF Noting
  <2> QED
    BY <2>1 DEF Call
<1>2. call'[c] = record
  BY DEF Noting
<1>3. call' = [d \in Calls |-> call'[d]]
  BY DEF Noting
<1> QED
  BY <1>1, <1>2, <1>3

\* What Meeting writes.
LEMMA MeetingWrites ==
  ASSUME run \in [Jobs -> Run]
  PROVE  /\ Meeting \in [Jobs -> Run]
         /\ \A j \in Jobs :
               /\ Meeting[j].pc = run[j].pc /\ Meeting[j].seen = run[j].seen
               /\ Meeting[j].overdue = run[j].overdue
               /\ Meeting[j].met <=> run[j].met \/ IsActive(j)
<1>1. ASSUME NEW j \in Jobs
      PROVE  /\ Meeting[j] \in Run
             /\ Meeting[j].pc = run[j].pc /\ Meeting[j].seen = run[j].seen
             /\ Meeting[j].overdue = run[j].overdue
             /\ Meeting[j].met <=> run[j].met \/ IsActive(j)
  <2>1. /\ run[j] \in Run
        /\ Meeting[j] = IF IsActive(j) THEN [run[j] EXCEPT !.met = TRUE] ELSE run[j]
    BY DEF Meeting
  <2> QED
    BY <2>1 DEF Run
<1>2. Meeting = [j \in Jobs |-> Meeting[j]]
  BY DEF Meeting
<1> QED
  BY <1>1, <1>2

\* What removeJob and enqueue write.
LEMMA RemovedWrites ==
  ASSUME queue \in [Jobs -> Job], NEW j \in Jobs, queue' = Removed(j)
  PROVE  /\ queue' \in [Jobs -> Job]
         /\ \A i \in Jobs \ {j} : queue'[i] = queue[i]
         /\ queue'[j] = IF IsActive(j) THEN queue[j] ELSE NoJob
  BY RecordTypes DEF Removed

LEMMA AddedWrites ==
  ASSUME queue \in [Jobs -> Job], NEW j \in Jobs, NEW delay \in Ticks, queue' = Added(j, delay)
  PROVE  /\ queue' \in [Jobs -> Job]
         /\ \A i \in Jobs \ {j} : queue'[i] = queue[i]
         /\ queue[j].state # "none" => queue'[j] = queue[j]
         /\ queue[j].state = "none" => queue'[j].state = "delayed" /\ queue'[j].delay = delay
<1> DEFINE new == [NoJob EXCEPT !.state = "delayed", !.delay = delay]
<1>1. new \in Job /\ new.state = "delayed" /\ new.delay = delay
  BY RecordTypes, AttemptsAssumption DEF NoJob, Job
<1> HIDE DEF new
<1>2. queue' = IF queue[j].state # "none" THEN queue ELSE [queue EXCEPT ![j] = new]
  BY DEF Added, new
<1> QED
  BY <1>1, <1>2

\* Where a call goes on to.
LEMMA StepsWrites ==
  ASSUME TypeOK, NEW c \in Calls,
         NEW pc \in {"idle", "commit", "remove", "add", "unmail", "mail", "done"}, Steps(c, pc)
  PROVE  /\ call' \in [Calls -> Call]
         /\ call'[c].pc = pc
         /\ pc \in {"idle", "done"} => ~call'[c].alone
         /\ pc \notin {"idle", "done"} => /\ call'[c].kind = call[c].kind
                                          /\ call'[c].delay = call[c].delay
                                          /\ call'[c].alone = call[c].alone
         /\ \A d \in Calls \ {c} :
               /\ call'[d].pc = call[d].pc /\ call'[d].kind = call[d].kind
               /\ call'[d].delay = call[d].delay /\ ~call'[d].alone
         /\ run' = Meeting
<1> DEFINE record == IF pc \in {"idle", "done"} THEN [IdleCall EXCEPT !.pc = pc]
                     ELSE [call[c] EXCEPT !.pc = pc]
<1>1. call[c] \in Call /\ call \in [Calls -> Call]
  BY DEF TypeOK
<1>2. /\ record \in Call /\ record.pc = pc
      /\ pc \in {"idle", "done"} => ~record.alone
      /\ pc \notin {"idle", "done"} => /\ record.kind = call[c].kind
                                       /\ record.delay = call[c].delay
                                       /\ record.alone = call[c].alone
  BY <1>1, RecordTypes DEF Call, IdleCall
<1>3. call' = Noting(c, record) /\ run' = Meeting
  BY DEF Steps
<1> HIDE DEF record
<1> QED
  BY <1>1, <1>2, <1>3, NotingWrites

-----------------------------------------------------------------------------
(* The calls. *)

\* What a call's step never touches, and what it notes in the others and in the runs.
Frame(c) ==
    /\ UNCHANGED <<mailing, erased, sole>>
    /\ erased => due' = due
    /\ \A j \in Jobs : /\ run'[j].pc = run[j].pc /\ run'[j].seen = run[j].seen
                       /\ run'[j].met <=> run[j].met \/ IsActive(j)
                       /\ IsActive(j)' <=> IsActive(j)
    /\ \A d \in Calls \ {c} :
          /\ call'[d].pc = call[d].pc /\ call'[d].kind = call[d].kind
          /\ call'[d].delay = call[d].delay /\ ~call'[d].alone

LEMMA ArriveEffects ==
  ASSUME TypeOK, NEW c \in Calls, NEW kind \in {"request", "cancel"}, Arrive(c, kind)
  PROVE  /\ TypeOK' /\ Frame(c)
         /\ call'[c].pc = "commit" /\ call'[c].kind = kind
         /\ UNCHANGED <<due, queue, stray>>
         /\ call'[c].alone => /\ \A d \in Calls \ {c} : ~IsOpen(d)
                              /\ ~IsActive("finalize")
<1> DEFINE record == [IdleCall EXCEPT
                 !.pc = "commit", !.kind = kind,
                 !.alone = (\A d \in Calls \ {c} : ~IsOpen(d)) /\ ~IsActive("finalize")]
<1>1. /\ record \in Call /\ record.pc = "commit" /\ record.kind = kind
      /\ record.alone => /\ \A d \in Calls \ {c} : ~IsOpen(d)
                         /\ ~IsActive("finalize")
  BY RecordTypes DEF Call, IdleCall
<1>2. call' = Noting(c, record) /\ run' = Meeting
      /\ UNCHANGED <<mailing, due, erased, sole, queue, stray>>
  BY DEF Arrive
<1> HIDE DEF record
<1> QED
  BY <1>1, <1>2, NotingWrites, MeetingWrites DEF TypeOK, Frame, IsActive

\* The database commits a request or a cancellation.
LEMMA CommitEffects ==
  ASSUME TypeOK, NEW c \in Calls, CommitRequest(c) \/ CommitCancel(c)
  PROVE  /\ TypeOK' /\ Frame(c)
         /\ IsOpen(c) /\ call'[c].pc = "remove"
         /\ call'[c].kind = call[c].kind /\ call'[c].alone = call[c].alone
         /\ call[c].pc = "commit" /\ UNCHANGED <<queue, stray>>
         /\ call[c].kind = "request" => call'[c].delay = due' /\ (due # None => due' = due)
         /\ call[c].kind = "cancel" => due' = None
<1>1. call[c] \in Call /\ call \in [Calls -> Call] /\ run \in [Jobs -> Run]
  BY DEF TypeOK
<1>2. CASE CommitRequest(c)
  <2> DEFINE n == IF IsPending THEN due ELSE Grace
  <2>1. /\ n \in Ticks /\ due' = n
        /\ call' = Noting(c, [call[c] EXCEPT !.pc = "remove", !.delay = n])
        /\ due # None => due' = due
    <3>1. Grace \in Ticks /\ (due # None => due \in Ticks)
      BY GraceAssumption DEF Ticks, TypeOK
    <3>2. CASE IsPending
      BY <1>2, <3>1, <3>2 DEF CommitRequest, IsPending
    <3>3. CASE ~IsPending
      BY <1>2, <3>1, <3>3 DEF CommitRequest, IsPending
    <3> QED
      BY <3>2, <3>3
  <2> HIDE DEF n
  <2> DEFINE record == [call[c] EXCEPT !.pc = "remove", !.delay = n]
  <2>2. /\ record \in Call /\ record.pc = "remove" /\ record.kind = call[c].kind
        /\ record.alone = call[c].alone /\ record.delay = n
    BY <1>1, <2>1 DEF Call
  <2>3. /\ run' = Meeting /\ call[c].pc = "commit" /\ call[c].kind = "request" /\ ~erased
        /\ UNCHANGED <<mailing, erased, sole, queue, stray>>
    BY <1>2 DEF CommitRequest
  <2> HIDE DEF record
  <2>4. call' = Noting(c, record)
    BY <2>1 DEF record
  <2>5. call' \in [Calls -> Call] /\ call'[c] = record
        /\ \A d \in Calls \ {c} :
              /\ call'[d].pc = call[d].pc /\ call'[d].kind = call[d].kind
              /\ call'[d].delay = call[d].delay /\ ~call'[d].alone
    BY <1>1, <2>2, <2>4, NotingWrites
  <2>6. IsOpen(c)
    BY <2>3 DEF IsOpen
  <2>7. Frame(c)
    BY <1>1, <2>1, <2>3, <2>5, MeetingWrites DEF Frame, IsActive
  <2>8. TypeOK'
    BY <1>1, <2>1, <2>3, <2>5, MeetingWrites DEF TypeOK
  <2> QED
    BY <2>1, <2>2, <2>3, <2>5, <2>6, <2>7, <2>8
<1>3. CASE CommitCancel(c)
  <2> DEFINE record == [call[c] EXCEPT !.pc = "remove"]
  <2>1. /\ record \in Call /\ record.pc = "remove" /\ record.kind = call[c].kind
        /\ record.alone = call[c].alone
    BY <1>1 DEF Call
  <2>2. /\ call[c].pc = "commit" /\ call[c].kind = "cancel" /\ ~erased /\ due' = None
        /\ call' = Noting(c, record)
        /\ run' = [Meeting EXCEPT !["finalize"].overdue = FALSE]
        /\ UNCHANGED <<mailing, erased, sole, queue, stray>>
    BY <1>3 DEF CommitCancel
  <2> HIDE DEF record
  <2>3. /\ run' \in [Jobs -> Run]
        /\ \A j \in Jobs : /\ run'[j].pc = Meeting[j].pc /\ run'[j].seen = Meeting[j].seen
                           /\ run'[j].met = Meeting[j].met
    <3>1. Meeting \in [Jobs -> Run]
      BY <1>1, MeetingWrites
    <3> QED
      BY <2>2, <3>1 DEF Run, Jobs
  <2>4. call' \in [Calls -> Call] /\ call'[c] = record
        /\ \A d \in Calls \ {c} :
              /\ call'[d].pc = call[d].pc /\ call'[d].kind = call[d].kind
              /\ call'[d].delay = call[d].delay /\ ~call'[d].alone
    BY <1>1, <2>1, <2>2, NotingWrites
  <2>5. IsOpen(c)
    BY <2>2 DEF IsOpen
  <2>6. Frame(c)
    BY <1>1, <2>2, <2>3, <2>4, MeetingWrites DEF Frame, IsActive
  <2>7. TypeOK'
    BY <2>2, <2>3, <2>4 DEF TypeOK
  <2> QED
    BY <2>1, <2>2, <2>4, <2>5, <2>6, <2>7
<1> QED
  BY <1>2, <1>3

\* The commands behind the commit, and the ways a call ends.
LEMMA RestEffects ==
  ASSUME TypeOK, NEW c \in Calls,
         \/ CommitRefused(c) \/ RemoveJob(c) \/ AddJob(c)
         \/ RemoveMail(c) \/ AddMail(c) \/ MailFails(c) \/ CallFails(c)
  PROVE  TypeOK' /\ Frame(c) /\ IsOpen(c) /\ due' = due
<1>1. PICK pc \in {"idle", "commit", "remove", "add", "unmail", "mail", "done"} : Steps(c, pc)
  BY DEF CommitRefused, RemoveJob, AddJob, RemoveMail, AddMail, MailFails, CallFails
<1>2. /\ call' \in [Calls -> Call]
      /\ \A d \in Calls \ {c} :
            /\ call'[d].pc = call[d].pc /\ call'[d].kind = call[d].kind
            /\ call'[d].delay = call[d].delay /\ ~call'[d].alone
      /\ run' = Meeting
  BY <1>1, StepsWrites
<1>3. /\ UNCHANGED <<mailing, due, erased, sole>>
      /\ stray' \in BOOLEAN
      /\ \/ queue' = queue
         \/ \E j \in Jobs : queue' = Removed(j)
         \/ \E j \in Jobs, n \in Ticks : queue' = Added(j, n)
  <2>1. call[c].delay \in Ticks
    BY DEF TypeOK, Call
  <2> QED
    BY <2>1, LessTypes
    DEF CommitRefused, RemoveJob, AddJob, RemoveMail, AddMail, MailFails, CallFails, Jobs,
        TypeOK
<1>4. queue' \in [Jobs -> Job] /\ \A j \in Jobs : IsActive(j)' <=> IsActive(j)
  <2>1. queue \in [Jobs -> Job]
    BY DEF TypeOK
  <2>2. CASE queue' = queue
    BY <2>1, <2>2 DEF IsActive
  <2>3. ASSUME NEW j \in Jobs, queue' = Removed(j)
        PROVE  queue' \in [Jobs -> Job] /\ \A i \in Jobs : IsActive(i)' <=> IsActive(i)
    BY <2>1, <2>3, RemovedWrites DEF IsActive, NoJob
  <2>4. ASSUME NEW j \in Jobs, NEW n \in Ticks, queue' = Added(j, n)
        PROVE  queue' \in [Jobs -> Job] /\ \A i \in Jobs : IsActive(i)' <=> IsActive(i)
    BY <2>1, <2>4, AddedWrites DEF IsActive
  <2> QED
    BY <1>3, <2>2, <2>3, <2>4
<1>5. IsOpen(c)
  BY DEF IsOpen, CommitRefused, RemoveJob, AddJob, RemoveMail, AddMail, MailFails, CallFails
<1>6. run' \in [Jobs -> Run]
      /\ \A j \in Jobs : /\ run'[j].pc = run[j].pc /\ run'[j].seen = run[j].seen
                         /\ run'[j].met <=> run[j].met \/ IsActive(j)
  BY <1>2, MeetingWrites DEF TypeOK
<1>7. TypeOK'
  BY <1>2, <1>3, <1>4, <1>6 DEF TypeOK
<1>8. Frame(c)
  BY <1>2, <1>3, <1>4, <1>6 DEF Frame
<1> QED
  BY <1>3, <1>5, <1>7, <1>8

\* Every step of a call.
LEMMA CallEffects ==
  ASSUME TypeOK, NEW c \in Calls,
         (\E kind \in {"request", "cancel"} : Arrive(c, kind)) \/ Proceed(c)
  PROVE  TypeOK' /\ Frame(c)
<1>1. CASE \E kind \in {"request", "cancel"} : Arrive(c, kind)
  BY <1>1, ArriveEffects
<1>2. CASE CommitRequest(c) \/ CommitCancel(c)
  BY <1>2, CommitEffects
<1>3. CASE CommitRefused(c) \/ RemoveJob(c) \/ AddJob(c)
           \/ RemoveMail(c) \/ AddMail(c) \/ MailFails(c) \/ CallFails(c)
  BY <1>3, RestEffects
<1> QED
  BY <1>1, <1>2, <1>3 DEF Proceed

\* A cancellation removes the reminder's job or leaves it stray, and a request adds one
\* for the schedule that stands or leaves it stray.
LEMMA CallsKeepReminderIsKnown ==
  ASSUME TypeOK, ReminderIsKnown, NEW c \in Calls,
         (\E kind \in {"request", "cancel"} : Arrive(c, kind)) \/ Proceed(c)
  PROVE  ReminderIsKnown'
<1>1. /\ TypeOK' /\ Frame(c) /\ {"finalize", "reminder"} = Jobs
      /\ queue \in [Jobs -> Job] /\ call[c].delay \in Ticks
  BY CallEffects DEF Jobs, TypeOK, Call
<1>2. /\ \A d \in Calls \ {c} : Clears(d)' <=> Clears(d)
      /\ erased' = erased /\ (IsActive("reminder")' <=> IsActive("reminder"))
  BY <1>1 DEF Frame, Clears, IsCancel
<1>3. ASSUME queue'["reminder"] = queue["reminder"], due # None => due' = due,
             stray => stray', ~stray' /\ Clears(c) => Clears(c)'
      PROVE  ReminderIsKnown'
  BY <1>2, <1>3 DEF ReminderIsKnown
<1>4. CASE \E kind \in {"request", "cancel"} : Arrive(c, kind)
  <2>1. ~Clears(c)
    BY <1>4 DEF Arrive, IsOpen, Clears
  <2> QED
    BY <1>3, <1>4, <2>1, ArriveEffects
<1>5. CASE CommitRequest(c) \/ CommitCancel(c)
  <2>1. /\ call[c].pc = "commit" /\ call'[c].pc = "remove" /\ call'[c].kind = call[c].kind
        /\ UNCHANGED <<queue, stray>>
        /\ call[c].kind = "request" => (due # None => due' = due)
    BY <1>5, CommitEffects
  <2>2. CASE call[c].kind = "request"
    BY <1>3, <2>1, <2>2 DEF Clears
  <2>3. CASE call[c].kind = "cancel"
    <3>1. Clears(c)'
      BY <2>1, <2>3 DEF Clears, IsCancel
    <3> QED
      BY <1>2, <2>1, <3>1 DEF ReminderIsKnown
  <2> QED
    BY <2>2, <2>3 DEF TypeOK, Call
<1>6. CASE CommitRefused(c) \/ MailFails(c) \/ CallFails(c)
  <2>1. UNCHANGED <<queue, due>>
    BY <1>6 DEF CommitRefused, MailFails, CallFails
  <2>2. (stray => stray') /\ (~stray' => ~Clears(c))
    <3>1. CASE CommitRefused(c)
      BY <3>1 DEF CommitRefused, Clears
    <3>2. CASE MailFails(c) \/ CallFails(c)
      <4>1. stray' = (stray \/ IsCancel(c))
        BY <3>2 DEF MailFails, CallFails
      <4> QED
        BY <4>1, Zenon DEF Clears
    <3> QED
      BY <1>6, <3>1, <3>2
  <2> QED
    BY <1>3, <2>1, <2>2
<1>7. CASE RemoveJob(c)
  <2>1. /\ UNCHANGED <<due, stray>> /\ queue'["reminder"] = queue["reminder"]
    BY <1>1, <1>7, RemovedWrites DEF RemoveJob
  <2>2. /\ call[c].pc = "remove" /\ call'[c].kind = call[c].kind
        /\ call'[c].pc = IF call[c].kind = "request" THEN "add" ELSE "unmail"
    BY <1>7, StepsWrites DEF RemoveJob
  <2>3. Clears(c) => Clears(c)'
    BY <2>2 DEF Clears, IsCancel
  <2> QED
    BY <1>3, <2>1, <2>3
<1>8. CASE AddJob(c)
  <2>1. /\ UNCHANGED <<due, stray>> /\ queue'["reminder"] = queue["reminder"]
    BY <1>1, <1>8, AddedWrites DEF AddJob
  <2>2. ~Clears(c)
    BY <1>8 DEF AddJob, Clears
  <2> QED
    BY <1>3, <2>1, <2>2
<1>9. CASE RemoveMail(c)
  <2>1. /\ due' = due /\ (stray' <=> IsActive("reminder") /\ (stray \/ IsCancel(c)))
        /\ queue'["reminder"] = IF IsActive("reminder") THEN queue["reminder"] ELSE NoJob
    BY <1>1, <1>9, RemovedWrites DEF RemoveMail
  <2>2. CASE IsActive("reminder")
    BY <1>3, <2>1, <2>2 DEF Clears
  <2>3. CASE ~IsActive("reminder")
    BY <1>2, <2>1, <2>3 DEF ReminderIsKnown, NoJob
  <2> QED
    BY <2>2, <2>3
<1>10. CASE AddMail(c)
  <2>1. /\ due' = due /\ (stray' <=> stray \/ call[c].delay # due) /\ ~Clears(c)
        /\ queue' = Added("reminder", Less(call[c].delay)) /\ Less(call[c].delay) \in Ticks
    BY <1>1, <1>10, LessTypes DEF AddMail, Clears
  <2>2. CASE queue["reminder"].state # "none"
    <3>1. queue'["reminder"] = queue["reminder"]
      BY <1>1, <2>1, <2>2, AddedWrites
    <3> QED
      BY <1>3, <2>1, <3>1
  <2>3. CASE queue["reminder"].state = "none"
    <3>1. queue'["reminder"].state = "delayed" /\ queue'["reminder"].delay = Less(call[c].delay)
      BY <1>1, <2>1, <2>3, AddedWrites
    <3>2. call[c].delay # None /\ call[c].delay <= Less(call[c].delay) + 1
      BY <1>1, NoneAssumption, GraceAssumption DEF Ticks, Less
    <3> QED
      BY <2>1, <3>1, <3>2 DEF ReminderIsKnown, IsActive
  <2> QED
    BY <2>2, <2>3
<1> QED
  BY <1>4, <1>5, <1>6, <1>7, <1>8, <1>9, <1>10 DEF Proceed

LEMMA CallsKeepAloneIsRight ==
  ASSUME TypeOK, AloneIsRight, NEW c \in Calls,
         (\E kind \in {"request", "cancel"} : Arrive(c, kind)) \/ Proceed(c)
  PROVE  AloneIsRight'
<1> DEFINE Knows(d) ==
             /\ call[d].pc \in {"remove", "add"} => call[d].delay = due
             /\ call[d].pc = "add" => queue["finalize"].state = "none"
             /\ call[d].pc \in {"unmail", "mail"}
                   => queue["finalize"].state = "delayed" /\ queue["finalize"].delay = due
<1>1. Frame(c) /\ TypeOK' /\ "finalize" \in Jobs
  BY CallEffects DEF Jobs
<1>2. ASSUME call'[c].alone => /\ IsOpen(c)' /\ ~IsActive("finalize")
                               /\ \A d \in Calls \ {c} : ~IsOpen(d)
                               /\ call'[c].kind = "request" => Knows(c)'
      PROVE  AloneIsRight'
  <2>1. \A d \in Calls \ {c} : ~call'[d].alone /\ (IsOpen(d)' <=> IsOpen(d))
    BY <1>1 DEF Frame, IsOpen
  <2>2. ~IsActive("finalize") => ~IsActive("finalize")'
    BY <1>1 DEF Frame
  <2> QED
    BY <1>2, <2>1, <2>2 DEF AloneIsRight
<1>3. CASE \E kind \in {"request", "cancel"} : Arrive(c, kind)
  <2>1. /\ call'[c].pc = "commit"
        /\ call'[c].alone => /\ \A d \in Calls \ {c} : ~IsOpen(d)
                             /\ ~IsActive("finalize")
    BY <1>3, ArriveEffects
  <2>2. IsOpen(c)' /\ Knows(c)'
    BY <2>1 DEF IsOpen
  <2> QED
    BY <1>2, <2>1, <2>2
<1>4. call[c].alone => /\ ~IsActive("finalize")
                       /\ \A d \in Calls \ {c} : ~IsOpen(d)
                       /\ call[c].kind = "request" => Knows(c)
  BY DEF AloneIsRight
<1> HIDE DEF Knows
<1>5. CASE CommitRequest(c) \/ CommitCancel(c)
  <2>1. /\ call'[c].pc = "remove" /\ call'[c].kind = call[c].kind
        /\ call'[c].alone = call[c].alone
        /\ call[c].kind = "request" => call'[c].delay = due'
    BY <1>5, CommitEffects
  <2>2. IsOpen(c)' /\ (call'[c].kind = "request" => Knows(c)')
    BY <2>1 DEF IsOpen, Knows
  <2> QED
    BY <1>2, <1>4, <2>1, <2>2
<1>6. CASE CommitRefused(c) \/ MailFails(c) \/ CallFails(c)
  <2>1. ~call'[c].alone
    BY <1>6, StepsWrites DEF CommitRefused, MailFails, CallFails
  <2> QED
    BY <1>2, <2>1
<1>7. CASE RemoveJob(c) \/ AddJob(c) \/ RemoveMail(c) \/ AddMail(c)
  <2> SUFFICES ASSUME call'[c].alone, call'[c].pc \notin {"idle", "done"}
               PROVE  /\ call[c].alone
                      /\ call'[c].kind = "request" => Knows(c)'
    <3>1. call'[c].pc \in {"idle", "done"} => ~call'[c].alone
      BY <1>7, StepsWrites DEF RemoveJob, AddJob, RemoveMail, AddMail
    <3> QED
      BY <1>2, <1>4, <3>1 DEF IsOpen
  <2>1. queue \in [Jobs -> Job] /\ call[c].delay \in Ticks /\ "reminder" \in Jobs
    BY DEF TypeOK, Jobs, Call
  <2>2. due' = due
    BY <1>7, RestEffects
  <2>3. /\ call'[c].kind = call[c].kind /\ call'[c].alone = call[c].alone
        /\ call'[c].delay = call[c].delay
    BY <1>7, StepsWrites DEF RemoveJob, AddJob, RemoveMail, AddMail
  <2>4. call[c].alone /\ ~IsActive("finalize") /\ (call[c].kind = "request" => Knows(c))
    BY <1>4, <2>3
  <2>5. CASE RemoveJob(c)
    <3>1. /\ call[c].pc = "remove"
          /\ call'[c].pc = IF call[c].kind = "request" THEN "add" ELSE "unmail"
      BY <2>5, StepsWrites DEF RemoveJob
    <3>2. queue'["finalize"].state = "none"
      BY <1>1, <2>1, <2>4, <2>5, RemovedWrites DEF RemoveJob, NoJob
    <3> QED
      BY <2>2, <2>3, <2>4, <3>1, <3>2 DEF Knows
  <2>6. CASE AddJob(c)
    <3>1. /\ call[c].pc = "add"
          /\ call'[c].pc = IF WantsReminder(c) THEN "unmail" ELSE "done"
      BY <2>6, StepsWrites DEF AddJob
    <3>2. call[c].kind = "request" => /\ queue'["finalize"].state = "delayed"
                                      /\ queue'["finalize"].delay = due
      BY <1>1, <2>1, <2>4, <2>6, <3>1, AddedWrites DEF AddJob, Knows
    <3> QED
      BY <2>2, <2>3, <2>4, <3>1, <3>2 DEF Knows
  <2>7. CASE RemoveMail(c)
    <3>1. /\ call[c].pc = "unmail"
          /\ call'[c].pc = IF call[c].kind = "request" THEN "mail" ELSE "done"
      BY <2>7, StepsWrites DEF RemoveMail
    <3>2. queue'["finalize"] = queue["finalize"]
      BY <1>1, <2>1, <2>7, RemovedWrites DEF RemoveMail
    <3> QED
      BY <2>2, <2>3, <2>4, <3>1, <3>2 DEF Knows
  <2>8. CASE AddMail(c)
    BY <2>8, StepsWrites DEF AddMail
  <2> QED
    BY <1>7, <2>5, <2>6, <2>7, <2>8
<1> QED
  BY <1>3, <1>5, <1>6, <1>7 DEF Proceed

\* A call's step keeps the invariant.
LEMMA CallsKeepInv ==
  ASSUME Inv, NEW c \in Calls,
         (\E kind \in {"request", "cancel"} : Arrive(c, kind)) \/ Proceed(c)
  PROVE  Inv'
<1>1. TypeOK' /\ Frame(c) /\ {"finalize", "reminder"} = Jobs
  BY CallEffects DEF Inv, Jobs
<1>2. RunsHoldJobs'
  BY <1>1 DEF Inv, RunsHoldJobs, Frame
<1>3. UnmetRunsAreAlone'
  BY <1>1 DEF UnmetRunsAreAlone, Frame
<1>4. MovesKnowTheSchedule'
  BY <1>1 DEF Inv, MovesKnowTheSchedule, Frame
<1>5. ErasedIsUnscheduled'
  BY <1>1 DEF Inv, ErasedIsUnscheduled, Frame
<1>6. FinalizerIsRight'
  BY <1>1 DEF Inv, RunsHoldJobs, FinalizerIsRight, Frame
<1> QED
  BY <1>1, <1>2, <1>3, <1>4, <1>5, <1>6, CallsKeepReminderIsKnown,
     CallsKeepAloneIsRight DEF Inv

-----------------------------------------------------------------------------
(* The workers, time, and the other admins. *)

\* A worker takes a job.
LEMMA StartKeepsInv == ASSUME Inv, NEW j \in Jobs, Start(j) PROVE Inv'
<1> DEFINE job == [queue[j] EXCEPT !.state = "active"]
           record == [IdleRun EXCEPT
                        !.pc = "read", !.overdue = IsPending /\ due = 0,
                        !.met = \E c \in Calls : IsOpen(c)]
<1>1. /\ TypeOK /\ queue[j] \in Job /\ queue \in [Jobs -> Job] /\ run \in [Jobs -> Run]
      /\ queue[j].state = "delayed" /\ run[j].pc = "idle"
  BY DEF Inv, TypeOK, Start, RunsHoldJobs, IsActive
<1>2. job \in Job /\ job.state = "active" /\ job.delay = queue[j].delay
  BY <1>1 DEF Job
<1>3. /\ record \in Run /\ record.pc = "read"
      /\ record.overdue <=> IsPending /\ due = 0
      /\ record.met <=> \E c \in Calls : IsOpen(c)
  BY RecordTypes DEF Run, IdleRun
<1>4. /\ queue' = [queue EXCEPT ![j] = job] /\ run' = [run EXCEPT ![j] = record]
      /\ queue[j].delay = 0
      /\ UNCHANGED <<mailing, due, erased, sole, stray>>
  BY DEF Start
<1> HIDE DEF job, record
<1>5. /\ queue' \in [Jobs -> Job] /\ queue'[j] = job
      /\ \A i \in Jobs \ {j} : queue'[i] = queue[i]
      /\ run' \in [Jobs -> Run] /\ run'[j] = record
      /\ \A i \in Jobs \ {j} : run'[i] = run[i]
  BY <1>1, <1>2, <1>3, <1>4
<1>6. /\ call' \in [Calls -> Call]
      /\ \A c \in Calls : /\ call'[c].pc = call[c].pc /\ call'[c].kind = call[c].kind
                          /\ call'[c].delay = call[c].delay
                          /\ call'[c].alone => call[c].alone /\ j # "finalize"
  <2>1. CASE j = "finalize"
    <3>1. ASSUME NEW c \in Calls
          PROVE  /\ call'[c] \in Call /\ ~call'[c].alone
                 /\ call'[c].pc = call[c].pc /\ call'[c].kind = call[c].kind
                 /\ call'[c].delay = call[c].delay
      <4>1. call[c] \in Call /\ call'[c] = [call[c] EXCEPT !.alone = FALSE]
        BY <1>1, <2>1 DEF Start, TypeOK
      <4> QED
        BY <4>1 DEF Call
    <3>2. call' = [c \in Calls |-> call'[c]]
      BY <2>1 DEF Start
    <3> QED
      BY <3>1, <3>2
  <2>2. CASE j # "finalize"
    <3>1. call' = call
      BY <2>2 DEF Start
    <3> QED
      BY <1>1, <2>2, <3>1 DEF TypeOK
  <2> QED
    BY <2>1, <2>2
<1>7. \A c \in Calls : IsOpen(c)' <=> IsOpen(c)
  BY <1>6 DEF IsOpen
<1>8. TypeOK'
  BY <1>1, <1>4, <1>5, <1>6 DEF TypeOK
<1>9. RunsHoldJobs'
  BY <1>2, <1>3, <1>5 DEF Inv, RunsHoldJobs, IsActive
<1>10. UnmetRunsAreAlone'
  BY <1>3, <1>5, <1>7 DEF Inv, UnmetRunsAreAlone, IsActive
<1>11. MovesKnowTheSchedule' /\ ErasedIsUnscheduled' /\ FinalizerIsRight'
  BY <1>3, <1>4, <1>5
  DEF Inv, MovesKnowTheSchedule, ErasedIsUnscheduled, FinalizerIsRight, Jobs
<1>12. ReminderIsKnown'
  <2>1. \A c \in Calls : Clears(c)' <=> Clears(c)
    BY <1>6 DEF Clears, IsCancel
  <2>2. CASE j = "reminder"
    BY <1>1, <1>2, <1>4, <1>5, <2>1, <2>2 DEF Inv, ReminderIsKnown, IsActive
  <2>3. CASE j = "finalize"
    BY <1>4, <1>5, <2>1, <2>3 DEF Inv, ReminderIsKnown, IsActive, Jobs
  <2> QED
    BY <2>2, <2>3 DEF Jobs
<1>13. AloneIsRight'
  BY <1>4, <1>5, <1>6, <1>7 DEF Inv, AloneIsRight, IsActive, Jobs
<1> QED
  BY <1>8, <1>9, <1>10, <1>11, <1>12, <1>13 DEF Inv

\* A run goes on: what its next step is to find must be right already.
LEMMA RunsKeepInv ==
  ASSUME Inv, NEW j \in Jobs, run[j].pc # "idle",
         run' \in [Jobs -> Run], \A i \in Jobs \ {j} : run'[i] = run[i],
         run'[j].pc # "idle", run'[j].met = run[j].met,
         UNCHANGED <<mailing, sole, queue, call>>,
         due' \in Ticks \cup {None}, erased' \in BOOLEAN, stray' = stray,
         j # "finalize" => due' = due, erased' => due' = None,
         erased' \/ (~erased /\ due' = due), MovesKnowTheSchedule', FinalizerIsRight'
  PROVE  Inv'
<1>1. TypeOK'
  BY DEF Inv, TypeOK
<1>2. RunsHoldJobs'
  BY DEF Inv, RunsHoldJobs, IsActive
<1>3. UnmetRunsAreAlone'
  BY DEF Inv, UnmetRunsAreAlone, IsActive, IsOpen
<1>4. ErasedIsUnscheduled'
  BY DEF ErasedIsUnscheduled
<1>5. AloneIsRight'
  <2>1. CASE j = "finalize"
    BY <2>1 DEF Inv, AloneIsRight, RunsHoldJobs
  <2>2. CASE j # "finalize"
    BY <2>2 DEF Inv, AloneIsRight, IsActive, IsOpen
  <2> QED
    BY <2>1, <2>2
<1>6. ReminderIsKnown'
  BY DEF Inv, ReminderIsKnown, IsActive, Clears, IsCancel
<1> QED
  BY <1>1, <1>2, <1>3, <1>4, <1>5, <1>6 DEF Inv

\* The finalizer reads the user.
LEMMA ReadUserKeepsInv == ASSUME Inv, ReadUser PROVE Inv'
<1> DEFINE r == run["finalize"]
<1>1. /\ TypeOK /\ run \in [Jobs -> Run] /\ r \in Run /\ r.pc = "read"
      /\ {"finalize", "reminder"} = Jobs /\ 1 \in Ticks
      /\ UNCHANGED <<mailing, due, erased, sole, queue, call, stray>>
  BY GraceAssumption DEF Inv, TypeOK, ReadUser, Jobs, Ticks
<1>2. ~r.met /\ r.overdue => due = 0
  BY <1>1 DEF Inv, FinalizerIsRight
<1>3. PICK pc \in {"end", "move", "write"}, seen \in Ticks \cup {None} :
        /\ run' = [run EXCEPT !["finalize"].pc = pc, !["finalize"].seen = seen]
        /\ pc = "end" => due = None
        /\ pc = "move" => seen # None
        /\ pc = "write" => r.overdue
  <2>1. CASE IsSkipped
    <3>1. due = None
      BY <2>1 DEF Inv, ErasedIsUnscheduled, IsSkipped, IsPending
    <3>2. run' = [run EXCEPT !["finalize"].pc = "end"]
      BY <2>1 DEF ReadUser, Runs
    <3>3. run' = [run EXCEPT !["finalize"].pc = "end", !["finalize"].seen = r.seen]
      BY <1>1, <3>2 DEF Run
    <3> QED
      BY <1>1, <3>1, <3>3 DEF Run
  <2>2. CASE ~IsSkipped /\ IsNotDue
    <3>1. run' = [run EXCEPT !["finalize"].pc = "move", !["finalize"].seen = due]
      BY <2>2 DEF ReadUser
    <3> QED
      BY <1>1, <2>2, <3>1 DEF TypeOK, IsSkipped, IsPending
  <2>3. CASE ~IsSkipped /\ ~IsNotDue /\ sole
    <3>1. run' = [run EXCEPT !["finalize"].pc = "move", !["finalize"].seen = 1]
      BY <2>3 DEF ReadUser
    <3> QED
      BY <1>1, <3>1, NoneAssumption DEF Ticks
  <2>4. CASE ~IsSkipped /\ ~IsNotDue /\ ~sole
    <3>1. run' = [run EXCEPT !["finalize"].pc = "write", !["finalize"].seen = due]
      BY <2>4 DEF ReadUser
    <3> QED
      BY <1>1, <2>4, <3>1 DEF TypeOK, IsNotDue
  <2> QED
    BY <1>1, <2>1, <2>2, <2>3, <2>4 DEF ReadUser, TypeOK
<1>4. /\ run' \in [Jobs -> Run] /\ run'["reminder"] = run["reminder"]
      /\ run'["finalize"].pc = pc /\ run'["finalize"].seen = seen
      /\ run'["finalize"].met = r.met /\ run'["finalize"].overdue = r.overdue
  <2> DEFINE record == [r EXCEPT !.pc = pc, !.seen = seen]
  <2>1. /\ record \in Run /\ record.pc = pc /\ record.seen = seen
        /\ record.met = r.met /\ record.overdue = r.overdue
    BY <1>1 DEF Run
  <2>2. run' = [run EXCEPT !["finalize"] = record]
    BY <1>1, <1>3
  <2> HIDE DEF record
  <2> QED
    BY <1>1, <2>1, <2>2
<1> HIDE DEF r
<1>5. MovesKnowTheSchedule' /\ FinalizerIsRight'
  BY <1>1, <1>2, <1>3, <1>4 DEF MovesKnowTheSchedule, FinalizerIsRight
<1> QED
  BY <1>1, <1>3, <1>4, <1>5, RunsKeepInv DEF Inv, TypeOK, ErasedIsUnscheduled, r

\* What Runs writes.
LEMMA RunsWrites ==
  ASSUME TypeOK, NEW j \in Jobs,
         NEW pc \in {"idle", "read", "write", "move", "send", "end"}, Runs(j, pc)
  PROVE  /\ run' \in [Jobs -> Run] /\ run'[j].pc = pc
         /\ run'[j].seen = run[j].seen /\ run'[j].overdue = run[j].overdue
         /\ run'[j].met = run[j].met
         /\ \A i \in Jobs \ {j} : run'[i] = run[i]
<1>1. run \in [Jobs -> Run] /\ run[j] \in Run /\ run' = [run EXCEPT ![j].pc = pc]
  BY DEF TypeOK, Runs
<1> QED
  BY <1>1 DEF Run

LEMMA EraseKeepsInv == ASSUME Inv, Erase PROVE Inv'
<1>1. /\ TypeOK /\ run["finalize"].pc = "write" /\ {"finalize", "reminder"} = Jobs
      /\ Runs("finalize", "end") /\ erased' = TRUE /\ due' = None
      /\ UNCHANGED <<mailing, sole, queue, call, stray>>
  BY DEF Inv, Erase, Jobs
<1>2. /\ run' \in [Jobs -> Run] /\ run'["finalize"].pc = "end"
      /\ run'["finalize"].met = run["finalize"].met
      /\ run'["reminder"] = run["reminder"]
  BY <1>1, RunsWrites
<1>3. MovesKnowTheSchedule' /\ FinalizerIsRight'
  BY <1>1, <1>2 DEF MovesKnowTheSchedule, FinalizerIsRight
<1> QED
  BY <1>1, <1>2, <1>3, RunsKeepInv DEF TypeOK

\* The reminder's run.
LEMMA RemindKeepsInv == ASSUME Inv, Remind PROVE Inv'
<1>1. /\ TypeOK /\ {"finalize", "reminder"} = Jobs
      /\ UNCHANGED <<mailing, due, erased, sole, queue, call, stray>>
  BY DEF Inv, Remind, ReadForEmail, SendEmail, Jobs
<1>2. PICK pc \in {"send", "end"} : Runs("reminder", pc)
  BY DEF Remind, ReadForEmail, SendEmail
<1>3. /\ run' \in [Jobs -> Run] /\ run'["reminder"].pc = pc
      /\ run'["reminder"].met = run["reminder"].met
      /\ run'["finalize"] = run["finalize"]
  BY <1>1, <1>2, RunsWrites
<1>4. run["reminder"].pc \in {"read", "send"}
  BY DEF Remind, ReadForEmail, SendEmail
<1>5. MovesKnowTheSchedule' /\ FinalizerIsRight'
  BY <1>1, <1>3 DEF Inv, MovesKnowTheSchedule, FinalizerIsRight
<1> QED
  BY <1>1, <1>3, <1>4, <1>5, RunsKeepInv DEF Inv, TypeOK, ErasedIsUnscheduled

\* A run ends, and leaves its job as the queue has it next.
LEMMA EndsKeepsInv ==
  ASSUME Inv, NEW j \in Jobs, NEW job \in Job, Ends(j, job), run[j].pc # "idle",
         job.state # "active", UNCHANGED <<mailing, due, erased, sole, call, stray>>,
         j = "reminder" /\ job.state = "delayed" => job.delay = queue[j].delay
  PROVE  Inv'
<1>1. TypeOK /\ {"finalize", "reminder"} = Jobs
  BY DEF Inv, Jobs
<1>2. /\ run' \in [Jobs -> Run] /\ run'[j] = IdleRun
      /\ \A i \in Jobs \ {j} : run'[i] = run[i]
      /\ queue' \in [Jobs -> Job] /\ queue'[j] = job
      /\ \A i \in Jobs \ {j} : queue'[i] = queue[i]
  BY RecordTypes DEF Inv, TypeOK, Ends
<1>3. IdleRun.pc = "idle"
  BY DEF IdleRun
<1>4. TypeOK'
  BY <1>1, <1>2 DEF TypeOK
<1>5. RunsHoldJobs'
  BY <1>2, <1>3 DEF Inv, RunsHoldJobs, IsActive
<1>6. UnmetRunsAreAlone'
  BY <1>2 DEF Inv, UnmetRunsAreAlone, IsActive, IsOpen
<1>7. MovesKnowTheSchedule' /\ ErasedIsUnscheduled' /\ FinalizerIsRight'
  BY <1>1, <1>2, <1>3 DEF Inv, MovesKnowTheSchedule, ErasedIsUnscheduled, FinalizerIsRight
<1>8. ReminderIsKnown'
  <2>1. \A c \in Calls : Clears(c)' <=> Clears(c)
    BY DEF Clears, IsCancel
  <2>2. CASE j = "reminder"
    BY <1>1, <1>2, <2>1, <2>2 DEF Inv, ReminderIsKnown, RunsHoldJobs, IsActive
  <2>3. CASE j = "finalize"
    BY <1>1, <1>2, <2>1, <2>3 DEF Inv, ReminderIsKnown, IsActive
  <2> QED
    BY <1>1, <2>2, <2>3
<1>9. AloneIsRight'
  <2>1. CASE j = "finalize"
    BY <2>1 DEF Inv, AloneIsRight, RunsHoldJobs
  <2>2. CASE j = "reminder"
    BY <1>1, <1>2, <2>2 DEF Inv, AloneIsRight, IsActive, IsOpen
  <2> QED
    BY <1>1, <2>1, <2>2
<1> QED
  BY <1>4, <1>5, <1>6, <1>7, <1>8, <1>9 DEF Inv

LEMMA EndingsKeepInv ==
  ASSUME Inv, NEW j \in Jobs,
         Complete(j) \/ RunFails(j) \/ WorkerDies(j) \/ (j = "finalize" /\ MoveToDelayed)
  PROVE  Inv'
<1>1. queue[j] \in Job /\ \A state \in {"completed", "failed"} :
                            Gone(state) \in Job /\ Gone(state).state = state
  BY RecordTypes DEF Inv, TypeOK, Gone, NoJob
<1>2. CASE Complete(j)
  BY <1>1, <1>2, EndsKeepsInv DEF Complete
<1>3. CASE RunFails(j)
  <2> DEFINE job == IF queue[j].attempts + 1 < MaxAttempts
                    THEN [queue[j] EXCEPT !.state = "delayed", !.attempts = @ + 1]
                    ELSE Gone("failed")
  <2>1. /\ job \in Job /\ job.state # "active"
        /\ job.state = "delayed" => job.delay = queue[j].delay
    <3>1. CASE queue[j].attempts + 1 < MaxAttempts
      <4>1. queue[j].attempts + 1 \in 0 .. MaxAttempts
        BY <1>1, <3>1, AttemptsAssumption DEF Job
      <4>2. job = [queue[j] EXCEPT !.state = "delayed", !.attempts = @ + 1]
        BY <3>1
      <4> QED
        BY <1>1, <4>1, <4>2 DEF Job
    <3>2. CASE ~(queue[j].attempts + 1 < MaxAttempts)
      BY <1>1, <3>2
    <3> QED
      BY <3>1, <3>2
  <2>2. /\ Ends(j, job) /\ run[j].pc \in {"read", "write", "move", "send"}
        /\ UNCHANGED <<mailing, due, erased, sole, call, stray>>
    BY <1>3 DEF RunFails
  <2> HIDE DEF job
  <2> QED
    BY <2>1, <2>2, EndsKeepsInv
<1>4. CASE WorkerDies(j)
  <2> DEFINE job == IF queue[j].stalls < MaxStalls
                    THEN [queue[j] EXCEPT !.state = "delayed", !.stalls = @ + 1]
                    ELSE Gone("failed")
  <2>1. /\ job \in Job /\ job.state # "active"
        /\ job.state = "delayed" => job.delay = queue[j].delay
    <3>1. CASE queue[j].stalls < MaxStalls
      <4>1. queue[j].stalls + 1 \in 0 .. MaxStalls
        BY <1>1, <3>1, AttemptsAssumption DEF Job
      <4>2. job = [queue[j] EXCEPT !.state = "delayed", !.stalls = @ + 1]
        BY <3>1
      <4> QED
        BY <1>1, <4>1, <4>2 DEF Job
    <3>2. CASE ~(queue[j].stalls < MaxStalls)
      BY <1>1, <3>2
    <3> QED
      BY <3>1, <3>2
  <2>2. /\ Ends(j, job) /\ run[j].pc # "idle"
        /\ UNCHANGED <<mailing, due, erased, sole, call, stray>>
    BY <1>4 DEF WorkerDies
  <2> HIDE DEF job
  <2> QED
    BY <2>1, <2>2, EndsKeepsInv
<1>5. CASE j = "finalize" /\ MoveToDelayed
  <2> DEFINE job == [queue["finalize"] EXCEPT !.state = "delayed",
                                              !.delay = run["finalize"].seen]
  <2>1. run["finalize"].pc = "move" /\ run["finalize"].seen \in Ticks
    BY <1>5 DEF MoveToDelayed, Inv, MovesKnowTheSchedule
  <2>2. job \in Job /\ job.state # "active"
    BY <1>1, <1>5, <2>1 DEF Job
  <2>3. Ends("finalize", job) /\ UNCHANGED <<mailing, due, erased, sole, call, stray>>
    BY <1>5 DEF MoveToDelayed
  <2> HIDE DEF job
  <2> QED
    BY <1>5, <2>1, <2>2, <2>3, EndsKeepsInv
<1> QED
  BY <1>2, <1>3, <1>4, <1>5

\* A tick: what agrees goes on to agree.
LEMMA TickKeepsInv == ASSUME Inv, Tick PROVE Inv'
<1>1. /\ TypeOK /\ "finalize" \in Jobs /\ "reminder" \in Jobs
      /\ UNCHANGED <<mailing, erased, sole, stray>> /\ due' = Less(due)
  BY DEF Inv, Tick, Jobs
<1>2. /\ queue' \in [Jobs -> Job]
      /\ \A j \in Jobs : /\ queue'[j].state = queue[j].state
                         /\ queue'[j].delay = Less(queue[j].delay)
  <2>1. ASSUME NEW j \in Jobs
        PROVE  /\ queue'[j] \in Job /\ queue'[j].state = queue[j].state
               /\ queue'[j].delay = Less(queue[j].delay)
    <3>1. queue[j] \in Job /\ queue'[j] = [queue[j] EXCEPT !.delay = Less(@)]
      BY <1>1 DEF Tick, TypeOK
    <3> QED
      BY <3>1, LessTypes DEF Job
  <2>2. queue' = [j \in Jobs |-> queue'[j]]
    BY DEF Tick
  <2> QED
    BY <2>1, <2>2
<1>3. /\ run' \in [Jobs -> Run]
      /\ \A j \in Jobs : /\ run'[j].pc = run[j].pc /\ run'[j].met = run[j].met
                         /\ run'[j].overdue = run[j].overdue
                         /\ run'[j].seen = Less(run[j].seen)
  <2>1. ASSUME NEW j \in Jobs
        PROVE  /\ run'[j] \in Run
               /\ run'[j].pc = run[j].pc /\ run'[j].met = run[j].met
               /\ run'[j].overdue = run[j].overdue /\ run'[j].seen = Less(run[j].seen)
    <3>1. run[j] \in Run /\ run'[j] = [run[j] EXCEPT !.seen = Less(@)]
      BY <1>1 DEF Tick, TypeOK
    <3> QED
      BY <3>1, LessTypes DEF Run
  <2>2. run' = [j \in Jobs |-> run'[j]]
    BY DEF Tick
  <2> QED
    BY <2>1, <2>2
<1>4. /\ call' \in [Calls -> Call]
      /\ \A c \in Calls : /\ call'[c].pc = call[c].pc /\ call'[c].kind = call[c].kind
                          /\ call'[c].alone = call[c].alone
                          /\ call'[c].delay = Less(call[c].delay)
  <2>1. ASSUME NEW c \in Calls
        PROVE  /\ call'[c] \in Call
               /\ call'[c].pc = call[c].pc /\ call'[c].kind = call[c].kind
               /\ call'[c].alone = call[c].alone /\ call'[c].delay = Less(call[c].delay)
    <3>1. call[c] \in Call /\ call'[c] = [call[c] EXCEPT !.delay = Less(@)]
      BY <1>1 DEF Tick, TypeOK
    <3> QED
      BY <3>1, LessTypes DEF Call
  <2>2. call' = [c \in Calls |-> call'[c]]
    BY DEF Tick
  <2> QED
    BY <2>1, <2>2
<1>5. TypeOK'
  BY <1>1, <1>2, <1>3, <1>4, LessTypes DEF TypeOK
<1>6. /\ \A c \in Calls : IsOpen(c)' <=> IsOpen(c)
      /\ \A j \in Jobs : IsActive(j)' <=> IsActive(j)
  BY <1>2, <1>4 DEF IsOpen, IsActive
<1>7. RunsHoldJobs' /\ UnmetRunsAreAlone'
  BY <1>3, <1>6 DEF Inv, RunsHoldJobs, UnmetRunsAreAlone
<1>8. MovesKnowTheSchedule' /\ ErasedIsUnscheduled'
  BY <1>1, <1>3, LessTypes DEF Inv, MovesKnowTheSchedule, ErasedIsUnscheduled, TypeOK
<1>9. FinalizerIsRight'
  <2>1. (due = 0 => due' = 0) /\ (due = None => due' = None)
    BY <1>1 DEF Less
  <2> QED
    BY <1>1, <1>3, <2>1 DEF Inv, FinalizerIsRight
<1>10. ReminderIsKnown'
  <2>1. \A c \in Calls : Clears(c)' <=> Clears(c)
    BY <1>4 DEF Clears, IsCancel
  <2>2. \A n, m \in Ticks : n <= m + 1 => Less(n) <= Less(m) + 1
    BY NoneAssumption, GraceAssumption DEF Less, Ticks
  <2> QED
    BY <1>1, <1>2, <1>6, <2>1, <2>2, LessTypes DEF Inv, ReminderIsKnown, TypeOK, Job, Ticks
<1>11. AloneIsRight'
  BY <1>1, <1>2, <1>4, <1>6 DEF Inv, AloneIsRight
<1> QED
  BY <1>5, <1>7, <1>8, <1>9, <1>10, <1>11 DEF Inv

-----------------------------------------------------------------------------
LEMMA InvInitially == Init => Inv
<1> SUFFICES ASSUME Init PROVE Inv
  OBVIOUS
<1>1. /\ \A j \in Jobs : queue[j] = NoJob /\ run[j] = IdleRun
      /\ \A c \in Calls : call[c] = IdleCall
      /\ "finalize" \in Jobs
  BY DEF Init, Jobs
<1>2. TypeOK
  <2>1. /\ queue \in [Jobs -> Job] /\ run \in [Jobs -> Run] /\ call \in [Calls -> Call]
    BY RecordTypes DEF Init
  <2>2. due \in Ticks \cup {None} /\ stray \in BOOLEAN
    BY DEF Init
  <2>3. mailing \in BOOLEAN /\ erased \in BOOLEAN /\ sole \in BOOLEAN
    BY DEF Init
  <2> QED
    BY <2>1, <2>2, <2>3 DEF TypeOK
<1>3. NoJob.state = "none" /\ IdleRun.pc = "idle" /\ IdleCall.pc = "idle" /\ ~IdleCall.alone
  BY DEF NoJob, IdleRun, IdleCall
<1>4. RunsHoldJobs /\ UnmetRunsAreAlone /\ MovesKnowTheSchedule /\ FinalizerIsRight
  BY <1>1, <1>3 DEF RunsHoldJobs, UnmetRunsAreAlone, IsActive, MovesKnowTheSchedule,
                    FinalizerIsRight
<1>5. ErasedIsUnscheduled /\ ReminderIsKnown /\ AloneIsRight
  BY <1>1, <1>3 DEF Init, ErasedIsUnscheduled, ReminderIsKnown, IsActive, AloneIsRight, Jobs
<1> QED
  BY <1>2, <1>4, <1>5 DEF Inv

\* Every step keeps the invariant.
LEMMA InvStep == Inv /\ [Next]_vars => Inv'
<1> SUFFICES ASSUME Inv, [Next]_vars PROVE Inv'
  OBVIOUS
<1>1. ASSUME NEW c \in Calls,
             (\E kind \in {"request", "cancel"} : Arrive(c, kind)) \/ Proceed(c)
      PROVE  Inv'
  BY <1>1, CallsKeepInv
<1>2. ASSUME NEW j \in Jobs, Work(j) PROVE Inv'
  BY <1>2, StartKeepsInv, EndingsKeepInv DEF Work
<1>3. CASE Finalize
  BY <1>3, ReadUserKeepsInv, EraseKeepsInv, EndingsKeepInv DEF Finalize, Jobs
<1>4. CASE Remind
  BY <1>4, RemindKeepsInv
<1>5. CASE Tick
  BY <1>5, TickKeepsInv
<1>6. CASE AdminsChange
  <2>1. UNCHANGED <<mailing, due, erased, queue, run, call, stray>> /\ sole' \in BOOLEAN
    BY <1>6 DEF AdminsChange, Inv, TypeOK
  <2> QED
    BY <2>1 DEF Inv, TypeOK, RunsHoldJobs, UnmetRunsAreAlone, IsActive, IsOpen,
                MovesKnowTheSchedule, ErasedIsUnscheduled, FinalizerIsRight,
                ReminderIsKnown, Clears, IsCancel, AloneIsRight
<1>7. CASE UNCHANGED vars
  BY <1>7 DEF vars, Inv, TypeOK, RunsHoldJobs, UnmetRunsAreAlone, IsActive, IsOpen,
              MovesKnowTheSchedule, ErasedIsUnscheduled, FinalizerIsRight,
              ReminderIsKnown, Clears, IsCancel, AloneIsRight
<1> QED
  BY <1>1, <1>2, <1>3, <1>4, <1>5, <1>6, <1>7 DEF Next

\* What a step does to a call that goes on alone: only its own steps end it.
LEMMA RequestEnds ==
  ASSUME Inv, [Next]_vars, NEW c \in Calls,
         call[c].kind = "request", call[c].alone, call'[c].pc = "done"
  PROVE  queue'["finalize"].state = "delayed" /\ queue'["finalize"].delay = due'
<1>1. /\ TypeOK /\ IsOpen(c) /\ ~IsActive("finalize") /\ {"finalize", "reminder"} = Jobs
      /\ call[c].pc = "add" => call[c].delay = due /\ queue["finalize"].state = "none"
      /\ call[c].pc \in {"unmail", "mail"}
            => queue["finalize"].state = "delayed" /\ queue["finalize"].delay = due
  BY DEF Inv, AloneIsRight, Jobs
<1>2. call'[c].pc # call[c].pc
  BY <1>1 DEF IsOpen
<1>3. Proceed(c)
  <2>1. ~UNCHANGED call
    BY <1>2
  <2>2. \A d \in Calls \ {c} :
           ~((\E kind \in {"request", "cancel"} : Arrive(d, kind)) \/ Proceed(d))
    BY <1>1, <1>2, CallEffects DEF Frame
  <2>3. \A kind \in {"request", "cancel"} : ~Arrive(c, kind)
    BY <1>1, ArriveEffects
  <2>4. ASSUME NEW j \in Jobs PROVE ~Work(j)
    <3>1. ASSUME Start(j) PROVE call'[c].pc = call[c].pc
      <4>1. call'[c] = IF j = "finalize" THEN [call[c] EXCEPT !.alone = FALSE] ELSE call[c]
        BY <3>1 DEF Start
      <4>2. call[c] \in Call
        BY <1>1 DEF TypeOK
      <4> QED
        BY <4>1, <4>2 DEF Call
    <3> QED
      BY <1>2, <2>1, <3>1 DEF Work, Complete, RunFails, WorkerDies
  <2>5. ~Tick
    <3>1. ASSUME Tick PROVE call'[c].pc = call[c].pc
      <4>1. call[c] \in Call /\ call'[c] = [call[c] EXCEPT !.delay = Less(@)]
        BY <1>1, <3>1 DEF Tick, TypeOK
      <4> QED
        BY <4>1 DEF Call
    <3> QED
      BY <1>2, <3>1
  <2> QED
    BY <2>1, <2>2, <2>3, <2>4, <2>5
    DEF Next, Finalize, ReadUser, MoveToDelayed, Erase, Remind, ReadForEmail, SendEmail,
        AdminsChange, vars
<1>4. CASE CommitRequest(c) \/ CommitCancel(c)
  BY <1>1, <1>4, CommitEffects
<1>5. CASE CommitRefused(c) \/ RemoveJob(c) \/ AddJob(c)
           \/ RemoveMail(c) \/ AddMail(c) \/ MailFails(c) \/ CallFails(c)
  <2>1. due' = due /\ queue \in [Jobs -> Job] /\ call[c].delay \in Ticks
    BY <1>1, <1>5, RestEffects DEF TypeOK, Call
  <2>2. CASE CommitRefused(c) \/ CallFails(c)
    BY <1>1, <2>2, StepsWrites DEF CommitRefused, CallFails
  <2>3. CASE RemoveJob(c)
    BY <1>1, <2>3, StepsWrites DEF RemoveJob
  <2>4. CASE AddJob(c)
    BY <1>1, <2>1, <2>4, AddedWrites DEF AddJob
  <2>5. CASE RemoveMail(c)
    BY <1>1, <2>5, StepsWrites DEF RemoveMail
  <2>6. CASE AddMail(c)
    <3>1. Less(call[c].delay) \in Ticks
      BY <2>1, LessTypes
    <3>2. queue'["finalize"] = queue["finalize"]
      BY <1>1, <2>1, <2>6, <3>1, AddedWrites DEF AddMail
    <3> QED
      BY <1>1, <2>1, <2>6, <3>2 DEF AddMail
  <2>7. CASE MailFails(c)
    BY <1>1, <2>1, <2>7 DEF MailFails
  <2> QED
    BY <1>5, <2>2, <2>3, <2>4, <2>5, <2>6, <2>7
<1> QED
  BY <1>3, <1>4, <1>5 DEF Proceed

\* A job is completed only by its run, and that has found no schedule or carried it out.
LEMMA RunCompletes ==
  ASSUME Inv, [Next]_vars, queue["finalize"].state = "active",
         queue'["finalize"].state = "completed", ~run["finalize"].met
  PROVE  due' = None
<1>1. TypeOK /\ {"finalize", "reminder"} = Jobs
  BY DEF Inv, Jobs
<1>2. Complete("finalize")
  <2>1. \A c \in Calls :
           ~((\E kind \in {"request", "cancel"} : Arrive(c, kind)) \/ Proceed(c))
    BY <1>1, CallEffects DEF Frame, IsActive
  <2>2. ~Tick
    <3>1. ASSUME Tick PROVE queue'["finalize"].state = queue["finalize"].state
      <4>1. /\ queue["finalize"] \in Job
            /\ queue'["finalize"] = [queue["finalize"] EXCEPT !.delay = Less(@)]
        BY <1>1, <3>1 DEF Tick, TypeOK
      <4> QED
        BY <4>1 DEF Job
    <3> QED
      BY <3>1
  <2>3. queue \in [Jobs -> Job] /\ queue["finalize"] \in Job
    BY <1>1 DEF TypeOK
  <2>4. \A j \in Jobs : ~Start(j)
    BY <2>3 DEF Start, Jobs
  <2>5. ~MoveToDelayed
    BY <2>3 DEF MoveToDelayed, Ends, Job
  <2>6. ~(RunFails("finalize") \/ WorkerDies("finalize"))
    <3>1. \A job \in Job : Ends("finalize", job) => queue'["finalize"] = job
      BY <2>3 DEF Ends
    <3>2. Gone("failed").state = "failed" /\ Gone("failed") \in Job
      BY RecordTypes DEF Gone, NoJob
    <3>3. ASSUME RunFails("finalize") PROVE FALSE
      BY <2>3, <3>2, <3>3 DEF RunFails, Ends, Job
    <3>4. ASSUME WorkerDies("finalize") PROVE FALSE
      BY <2>3, <3>2, <3>4 DEF WorkerDies, Ends, Job
    <3> QED
      BY <3>3, <3>4
  <2>7. ~(Complete("reminder") \/ RunFails("reminder") \/ WorkerDies("reminder"))
    <3>1. \A job : Ends("reminder", job) => queue'["finalize"] = queue["finalize"]
      BY <1>1, <2>3 DEF Ends
    <3> QED
      BY <3>1 DEF Complete, RunFails, WorkerDies
  <2>8. ~UNCHANGED queue
    OBVIOUS
  <2> QED
    BY <1>1, <2>1, <2>2, <2>4, <2>5, <2>6, <2>7, <2>8
    DEF Next, Work, Finalize, ReadUser, Erase, Remind, ReadForEmail, SendEmail,
        AdminsChange, vars
<1> QED
  BY <1>2 DEF Complete, Inv, FinalizerIsRight

\* Only the finalizer erases, and a run that no call has met still has its schedule right.
LEMMA ErasureIsDue ==
  ASSUME Inv, [Next]_vars, ~erased, erased', ~run["finalize"].met
  PROVE  due = 0
<1>1. \A c \in Calls :
         ~((\E kind \in {"request", "cancel"} : Arrive(c, kind)) \/ Proceed(c))
  BY CallEffects DEF Inv, Frame
<1>2. Erase
  BY <1>1 DEF Next, Work, Start, Complete, RunFails, WorkerDies, Finalize, ReadUser,
              MoveToDelayed, Remind, ReadForEmail, SendEmail, Tick, AdminsChange, vars
<1> QED
  BY <1>2 DEF Erase, Inv, FinalizerIsRight

\* Only ReadForEmail decides to send: a run that no call has met finds its own schedule.
LEMMA ReminderIsRead ==
  ASSUME Inv, [Next]_vars, run["reminder"].pc = "read", run'["reminder"].pc = "send",
         ~run["reminder"].met, ~stray
  PROVE  due = 1
<1>1. TypeOK /\ {"finalize", "reminder"} = Jobs
  BY DEF Inv, Jobs
<1>2. ReadForEmail
  <2>1. run \in [Jobs -> Run] /\ run["reminder"] \in Run /\ run["finalize"] \in Run
    BY <1>1 DEF TypeOK
  <2>2. \A c \in Calls :
           ~((\E kind \in {"request", "cancel"} : Arrive(c, kind)) \/ Proceed(c))
    BY <1>1, CallEffects DEF Frame
  <2>3. \A j \in Jobs : \A job : ~Ends(j, job)
    BY <1>1, <2>1 DEF Ends, IdleRun
  <2>4. \A j \in Jobs : ~Work(j)
    <3>1. \A j \in Jobs : ~Start(j)
      <4>1. IsActive("reminder")
        BY <1>1 DEF Inv, RunsHoldJobs
      <4>2. ASSUME Start("finalize") PROVE run'["reminder"] = run["reminder"]
        BY <2>1, <4>2 DEF Start
      <4> QED
        BY <1>1, <4>1, <4>2 DEF Start, IsActive
    <3> QED
      BY <2>3, <3>1 DEF Work, Complete, RunFails, WorkerDies
  <2>5. ~Finalize
    <3>1. \A pc : ~Runs("finalize", pc)
      BY <1>1, <2>1 DEF Runs
    <3>2. ~ReadUser
      BY <1>1, <2>1, <3>1 DEF ReadUser
    <3> QED
      BY <1>1, <2>3, <3>1, <3>2 DEF Finalize, MoveToDelayed, Erase
  <2>6. ~Tick
    <3>1. ASSUME Tick PROVE run'["reminder"].pc = run["reminder"].pc
      <4>1. run'["reminder"] = [run["reminder"] EXCEPT !.seen = Less(@)]
        BY <1>1, <3>1 DEF Tick
      <4> QED
        BY <2>1, <4>1 DEF Run
    <3> QED
      BY <3>1
  <2> QED
    BY <2>2, <2>4, <2>5, <2>6 DEF Next, Remind, SendEmail, AdminsChange, vars
<1>3. ~IsSkipped /\ ~IsTooLate
  <2>1. run'["reminder"].pc = IF IsSkipped \/ IsTooLate THEN "end" ELSE "send"
    BY <1>1, <1>2, RunsWrites DEF ReadForEmail
  <2> QED
    BY <2>1
<1>4. IsActive("reminder") /\ \A c \in Calls : ~Clears(c)
  BY <1>1 DEF Inv, RunsHoldJobs, UnmetRunsAreAlone, Clears, IsOpen
<1>5. due # None /\ due <= queue["reminder"].delay + 1 /\ queue["reminder"].delay = 0
  BY <1>3, <1>4 DEF Inv, ReminderIsKnown, IsActive, IsSkipped
<1> QED
  BY <1>1, <1>3, <1>5, GraceAssumption DEF TypeOK, Ticks, IsTooLate

-----------------------------------------------------------------------------
(* The theorems. *)

LEMMA InvAlways == Spec => []Inv
<1> QED
  BY InvInitially, InvStep, PTL DEF Spec

\* Every variable keeps its type.
THEOREM TypeCorrect == Spec => []TypeOK
<1>1. Inv => TypeOK
  BY DEF Inv
<1> QED
  BY <1>1, InvAlways, PTL

\* The reminder goes out on the last day of the schedule that stands, unless a call met
\* its run, a cancellation did not remove its job, or the schedule changed under the
\* request that added it.
THEOREM RemindersGoOutOnTime == Spec => RemindersAreOnTime
<1>1. Inv /\ [Next]_vars =>
        [run["reminder"].pc = "read" /\ run'["reminder"].pc = "send"
           /\ ~run["reminder"].met /\ ~stray => due = 1]_vars
  BY ReminderIsRead
<1> QED
  BY <1>1, InvAlways, PTL DEF Spec, RemindersAreOnTime

\* A request that succeeds, and met neither another call nor the finalizer, leaves a job
\* that wakes when the deletion is due.
THEOREM RequestsLeaveJobs == Spec => RequestLeavesJob
<1>1. Inv /\ [Next]_vars =>
        [\A c \in Calls :
           call[c].kind = "request" /\ call[c].alone /\ call'[c].pc = "done" =>
             /\ queue'["finalize"].state = "delayed"
             /\ queue'["finalize"].delay = due']_vars
  BY RequestEnds
<1> QED
  BY <1>1, InvAlways, PTL DEF Spec, RequestLeavesJob

\* The finalizer's job does not end before the deletion does, unless a call came between
\* or every attempt failed.
THEOREM JobsOutlastTheDeletion == Spec => RunsKeepTheDeletion
<1>1. Inv /\ [Next]_vars =>
        [queue["finalize"].state = "active" /\ queue'["finalize"].state = "completed"
           /\ ~run["finalize"].met => due' = None]_vars
  BY RunCompletes
<1> QED
  BY <1>1, InvAlways, PTL DEF Spec, RunsKeepTheDeletion

\* The account is erased only when the schedule that stands then has passed, whichever
\* job woke the finalizer.
THEOREM ErasedOnlyWhenDue == Spec => ErasedWhenDue
<1>1. Inv /\ [Next]_vars => [~erased /\ erased' /\ ~run["finalize"].met => due = 0]_vars
  BY ErasureIsDue
<1> QED
  BY <1>1, InvAlways, PTL DEF Spec, ErasedWhenDue
=============================================================================

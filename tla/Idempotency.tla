----------------------------- MODULE Idempotency -----------------------------
(***************************************************************************)
(* The calls that carry one Idempotency-Key (one Redis key): the           *)
(* interceptor's begin, the handler, complete and release, each Redis      *)
(* command a step of its own.  Every call is one HTTP request; a client's  *)
(* retry is another call.  The window is ttlSeconds long: a stored         *)
(* response does not expire.                                               *)
(***************************************************************************)
CONSTANTS
    Calls,     \* HTTP requests with this key
    Payloads,  \* request hashes
    Faults,    \* what may go wrong, see below
    None

\* "slow":  a handler may outlive lockTtlSeconds.
\* "late":  a handler may throw after its mutation was committed.
\* "large": a response may exceed MAX_REPLAY_RECORD_CHARS.
\* "redis": a Redis command of complete or release may fail.
\* "crash": the process may die between the mutation and complete.
\* What is never excluded: a handler that fails without an effect, a crash
\* before the mutation or after complete, a lost answer.
AllFaults == {"slow", "late", "large", "redis", "crash"}

ASSUME FaultsAssumption == Faults \subseteq AllFaults
\* by (history): the call that wrote the record.
Record == [state : {"in_progress", "completed"}, hash : Payloads, by : Calls]

ASSUME NoneAssumption == None \notin Calls \cup Payloads \cup Record

VARIABLES
    rec,      \* the value at the Redis key, or None
    call,     \* the local state of each call
    applied   \* history: the calls whose mutation was committed

vars == <<rec, call, applied>>

\* replayOf (history): the call whose response was replayed.
Call == [pc : {"idle", "begin", "get", "again", "wait", "run", "complete",
               "release", "delete", "reply", "done", "dead"},
         hash : Payloads \cup {None},
         answer : {"none", "ok", "replay", "busy", "conflict", "error"},
         replayOf : Calls \cup {None}]

IdleCall == [pc |-> "idle", hash |-> None, answer |-> "none", replayOf |-> None]

Going(c, pc) == call' = [call EXCEPT ![c].pc = pc]

\* The call goes on to pc, and its response is decided.
Deciding(c, pc, answer) == call' = [call EXCEPT ![c].pc = pc, ![c].answer = answer]

Replaying(c) ==
    call' = [call EXCEPT ![c].pc = "reply", ![c].answer = "replay", ![c].replayOf = rec.by]

UnhashedRecord(c) == [state |-> "in_progress", hash |-> None, by |-> c]

InProgress(c) == [state |-> "in_progress", hash |-> call[c].hash, by |-> c]

\* Between the handler's start and the end of complete or release.
IsHolding(c) == call[c].pc \in {"run", "complete", "release", "delete"}

(***************************************************************************)
(* begin                                                                   *)
(***************************************************************************)

Arrive(c, h) ==
    /\ call[c].pc = "idle"
    /\ call' = [call EXCEPT ![c].pc = "begin", ![c].hash = h]
    /\ UNCHANGED <<rec, applied>>

\* SET key NX.
AnyKey == TRUE

KeyIsUnset == rec = None

Acquire(c) ==
    /\ call[c].pc \in {"begin", "again"}
    /\ KeyIsUnset
    /\ rec' = InProgress(c)
    /\ Going(c, "run")
    /\ UNCHANGED applied

\* ...is refused: the first time the call reads the key, the second time it gives up.
AcquireFails(c) ==
    /\ call[c].pc \in {"begin", "again"}
    /\ ~KeyIsUnset
    /\ IF call[c].pc = "begin" THEN Going(c, "get") ELSE Deciding(c, "reply", "busy")
    /\ UNCHANGED <<rec, applied>>

\* GET, right after a refused SET.
ReadExisting(c) ==
    /\ call[c].pc = "get"
    /\ IF rec = None THEN Going(c, "again")
       ELSE IF rec.hash # call[c].hash THEN Deciding(c, "reply", "conflict")
       ELSE IF rec.state = "completed" THEN Replaying(c)
       ELSE Going(c, "wait")
    /\ UNCHANGED <<rec, applied>>

\* The SET or GET of begin fails; the SET may have been carried out.
BeginFails(c) ==
    /\ call[c].pc \in {"begin", "get", "again"}
    /\ \/ rec' = rec
       \/ call[c].pc # "get" /\ KeyIsUnset /\ rec' = InProgress(c)
    /\ Deciding(c, "reply", "error")
    /\ UNCHANGED applied

(***************************************************************************)
(* waitForCompletion                                                       *)
(***************************************************************************)

PayloadIgnored(c) == FALSE

IsOtherPayload(c) == rec.hash # call[c].hash

\* A poll that ends the wait.
Poll(c) ==
    /\ call[c].pc = "wait"
    /\ IF rec = None THEN Deciding(c, "reply", "busy")
       ELSE IF IsOtherPayload(c) THEN Deciding(c, "reply", "conflict")
       ELSE rec.state = "completed" /\ Replaying(c)
    /\ UNCHANGED <<rec, applied>>

\* waitMs is over (or a poll failed: the client sees an error either way).
WaitEnds(c) ==
    /\ call[c].pc = "wait"
    /\ Deciding(c, "reply", "busy")
    /\ UNCHANGED <<rec, applied>>

(***************************************************************************)
(* The handler, complete and release                                       *)
(***************************************************************************)

\* The handler commits its mutation and returns, or throws all the same.
HandlerApplies(c) ==
    /\ call[c].pc = "run"
    /\ applied' = applied \cup {c}
    /\ \/ Deciding(c, "complete", "ok")
       \/ "late" \in Faults /\ Deciding(c, "release", "error")
    /\ UNCHANGED rec

\* The handler throws.  (Every handler with a key answers errors by throwing: none
\* returns a status of 400 or more.)
HandlerFails(c) ==
    /\ call[c].pc = "run"
    /\ Deciding(c, "release", "error")
    /\ UNCHANGED <<rec, applied>>

\* SET key EX ttlSeconds, whatever the key holds now.
Complete(c) ==
    /\ call[c].pc = "complete"
    /\ rec' = [state |-> "completed", hash |-> call[c].hash, by |-> c]
    /\ Going(c, "reply")
    /\ UNCHANGED applied

TooLargeToStore(c) ==
    /\ "large" \in Faults
    /\ call[c].pc = "complete"
    /\ Going(c, "release")
    /\ UNCHANGED <<rec, applied>>

\* release, the GET: whose lock it is cannot be told but by the payload.
IsReleasable(c) ==
    rec # None /\ rec.hash = call[c].hash /\ rec.state = "in_progress"

ReleaseRead(c) ==
    /\ call[c].pc = "release"
    /\ Going(c, IF IsReleasable(c) THEN "delete" ELSE "reply")
    /\ UNCHANGED <<rec, applied>>

\* release, the DEL.
ReleaseDelete(c) ==
    /\ call[c].pc = "delete"
    /\ rec' = None
    /\ Going(c, "reply")
    /\ UNCHANGED applied

\* An error of complete is caught and followed by a release; an error of that
\* release is the answer.  The failing SET or DEL may have been carried out.
RedisFails(c) ==
    /\ "redis" \in Faults
    /\ call[c].pc \in {"complete", "release", "delete"}
    /\ \/ rec' = rec
       \/ call[c].pc = "delete" /\ rec' = None
       \/ /\ call[c].pc = "complete"
          /\ rec' = [state |-> "completed", hash |-> call[c].hash, by |-> c]
    /\ Deciding(c, IF call[c].answer = "ok" THEN "release" ELSE "reply", "error")
    /\ UNCHANGED applied

Reply(c) ==
    /\ call[c].pc = "reply"
    /\ Going(c, "done")
    /\ UNCHANGED <<rec, applied>>

(***************************************************************************)
(* Crashes and time                                                        *)
(***************************************************************************)

IsUnstored(c) == IsHolding(c) /\ c \in applied

\* The process dies, or the connection is lost with the answer.
Crash(c) ==
    /\ call[c].pc \notin {"idle", "done", "dead"}
    /\ IsUnstored(c) => "crash" \in Faults
    /\ Going(c, "dead")
    /\ UNCHANGED <<rec, applied>>

LockKept == rec # None /\ UNCHANGED vars

\* lockTtlSeconds is over.
LockExpires ==
    /\ rec # None
    /\ rec.state = "in_progress"
    /\ "slow" \in Faults \/ ~IsHolding(rec.by)
    /\ rec' = None
    /\ UNCHANGED <<call, applied>>

\* begin and the interceptor run on: everything but the arrival of calls.
Proceed(c) ==
    \/ Acquire(c) \/ AcquireFails(c) \/ ReadExisting(c) \/ BeginFails(c)
    \/ Poll(c) \/ WaitEnds(c)
    \/ HandlerApplies(c) \/ HandlerFails(c)
    \/ Complete(c) \/ TooLargeToStore(c)
    \/ ReleaseRead(c) \/ ReleaseDelete(c) \/ RedisFails(c)
    \/ Reply(c)

Next ==
    \/ \E c \in Calls : \/ \E h \in Payloads : Arrive(c, h)
                        \/ Proceed(c)
                        \/ Crash(c)
    \/ LockExpires

Init ==
    /\ rec = None
    /\ call = [c \in Calls |-> IdleCall]
    /\ applied = {}

Spec == Init /\ [][Next]_vars

\* Timers fire, Redis expires keys, and a call that is not dead goes on.
Fairness ==
    /\ \A c \in Calls : WF_vars(Proceed(c))
    /\ WF_vars(LockExpires)

FairSpec == Spec /\ Fairness

-----------------------------------------------------------------------------
(***************************************************************************)
(* Properties.                                                             *)
(***************************************************************************)

\* Every variable has its type.
TypeOK ==
    /\ rec \in Record \cup {None}
    /\ call \in [Calls -> Call]
    /\ applied \subseteq Calls

\* The mutation is carried out once, however many calls carry the key.
AtMostOnce == \A a, b \in applied : a = b

\* A lock that outlives its handler keeps every other handler of the key out.
OneHandlerAtATime ==
    \A c, d \in Calls : call[c].pc = "run" /\ call[d].pc = "run" => c = d

\* Whatever goes wrong, a replayed response is the response of a call with the
\* same payload whose mutation was carried out.
ReplaysAreGenuine ==
    \A c \in Calls :
        call[c].answer = "replay" =>
            /\ call[c].replayOf \in applied
            /\ call[call[c].replayOf].hash = call[c].hash

\* A response that was stored stays stored: no call deletes or replaces it.
StoredResponseStays ==
    [][rec # None /\ rec.state = "completed" => rec' = rec]_vars

\* A key is never stuck: a lock always turns into a response or goes away.
LocksAreReleased ==
    (rec # None /\ rec.state = "in_progress")
        ~> (rec = None \/ rec.state = "completed")

ClientSees(c) ==
    IF call[c].pc # "done" THEN "none"
    ELSE IF call[c].answer \in {"ok", "replay"} THEN "success" ELSE "refused"

Writes == INSTANCE IdempotentWrite WITH
    payload <- [c \in Calls |-> call[c].hash],
    answer <- [c \in Calls |-> ClientSees(c)]

\* As long as every mutation's response gets stored, the key keeps its promise.
RefinesIdempotentWrite == Writes!Spec
=============================================================================

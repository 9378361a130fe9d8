-------------------------- MODULE IdempotencyProofs --------------------------
(* Proofs about Idempotency, for any number of calls and payloads. *)
EXTENDS Idempotency, TLAPS

-----------------------------------------------------------------------------
(* Whatever goes wrong. *)

\* A call that has arrived has a payload; nothing is decided before.
Arrivals ==
    \A c \in Calls :
        IF call[c].pc = "idle"
        THEN call[c].hash = None /\ call[c].answer = "none" /\ c \notin applied
        ELSE call[c].hash \in Payloads

\* A record is written by a call with that payload, and a response is stored only
\* for a call that was applied.
Records ==
    rec # None => /\ rec.hash = call[rec.by].hash
                  /\ rec.state = "completed" => rec.by \in applied

\* A call that succeeded, or is about to store its response, was applied.
Successes ==
    \A c \in Calls :
        call[c].answer = "ok" \/ call[c].pc = "complete" => c \in applied

GInv == TypeOK /\ Arrivals /\ Records /\ Successes /\ ReplaysAreGenuine

\* The initial state satisfies the invariant.
LEMMA GInvInit == Init => GInv
BY NoneAssumption
   DEF Init, GInv, TypeOK, Record, Call, IdleCall, Arrivals, Records, Successes,
       ReplaysAreGenuine

\* A step of call c leaves the other calls alone and never changes a payload.
LEMMA CallStep ==
    ASSUME TypeOK, NEW c \in Calls, Proceed(c) \/ Crash(c)
    PROVE  /\ \A d \in Calls \ {c} : call'[d] = call[d]
           /\ call'[c].hash = call[c].hash
           /\ call[c].pc # "idle" /\ call'[c].pc # "idle"
BY DEF TypeOK, Call, Proceed, Crash, Acquire, AcquireFails, ReadExisting, BeginFails, Poll,
       WaitEnds, HandlerApplies, HandlerFails, Complete, TooLargeToStore, ReleaseRead,
       ReleaseDelete, RedisFails, Reply, Going, Deciding, Replaying

\* Every step preserves the invariant.
LEMMA GInvNext == GInv /\ [Next]_vars => GInv'
<1> SUFFICES ASSUME GInv, [Next]_vars PROVE GInv'
  OBVIOUS
<1> USE NoneAssumption DEF GInv
<1>1. ASSUME NEW c \in Calls, NEW h \in Payloads, Arrive(c, h) PROVE GInv'
  BY <1>1 DEF Arrive, TypeOK, Record, Call, Arrivals, Records, Successes, ReplaysAreGenuine
<1>2. ASSUME NEW c \in Calls, Proceed(c) PROVE GInv'
  <2>1. TypeOK'
    BY <1>2 DEF Proceed, Acquire, AcquireFails, ReadExisting, BeginFails, Poll, WaitEnds,
                HandlerApplies, HandlerFails, Complete, TooLargeToStore, ReleaseRead,
                ReleaseDelete, RedisFails, Reply, Going, Deciding, Replaying, InProgress,
                TypeOK, Record, Call, Arrivals
  <2>2. Arrivals' /\ applied \subseteq applied' /\ applied' \subseteq applied \cup {c}
    BY <1>2, CallStep
       DEF Proceed, Acquire, AcquireFails, ReadExisting, BeginFails, Poll, WaitEnds,
           HandlerApplies, HandlerFails, Complete, TooLargeToStore, ReleaseRead,
           ReleaseDelete, RedisFails, Reply, TypeOK, Arrivals
  <2>3. Records'
    <3>1. CASE rec' = rec
      BY <3>1, <1>2, <2>2, CallStep DEF Records, TypeOK, Record
    <3>2. CASE rec' = None
      BY <3>2 DEF Records
    <3>3. CASE rec' = InProgress(c)
      BY <3>3, <1>2, CallStep DEF Records, InProgress
    <3>4. CASE call[c].pc = "complete" /\ rec' = [state |-> "completed", hash |-> call[c].hash, by |-> c]
      BY <3>4, <1>2, <2>2, CallStep DEF Records, Successes
    <3> QED
      BY <1>2, <3>1, <3>2, <3>3, <3>4
         DEF Proceed, Acquire, AcquireFails, ReadExisting, BeginFails, Poll, WaitEnds,
             HandlerApplies, HandlerFails, Complete, TooLargeToStore, ReleaseRead,
             ReleaseDelete, RedisFails, Reply
  <2>4. Successes'
    <3>1. call'[c].answer = "ok" \/ call'[c].pc = "complete" => c \in applied'
      BY <1>2
         DEF Proceed, Acquire, AcquireFails, ReadExisting, BeginFails, Poll, WaitEnds,
             HandlerApplies, HandlerFails, Complete, TooLargeToStore, ReleaseRead,
             ReleaseDelete, RedisFails, Reply, Going, Deciding, Replaying, TypeOK, Call, Successes
    <3> QED
      BY <3>1, <1>2, <2>2, CallStep DEF Successes
  <2>5. ReplaysAreGenuine'
    <3>1. call'[c].answer = "replay" => call'[c].replayOf \in applied /\ call[call'[c].replayOf].hash = call[c].hash
      <4>1. CASE call[c].answer = "replay" /\ call'[c].replayOf = call[c].replayOf
        BY <4>1 DEF ReplaysAreGenuine
      <4>2. CASE Replaying(c) /\ rec # None /\ rec.hash = call[c].hash /\ rec.state = "completed"
        BY <4>2 DEF Replaying, Records, TypeOK, Record, Call
      <4> QED
        BY <1>2, <4>1, <4>2
           DEF Proceed, Acquire, AcquireFails, ReadExisting, BeginFails, Poll, WaitEnds,
               HandlerApplies, HandlerFails, Complete, TooLargeToStore, ReleaseRead,
               ReleaseDelete, RedisFails, Reply, Going, Deciding, IsOtherPayload, TypeOK, Call
    <3>2. \A d \in Calls : call'[d].hash = call[d].hash
      BY <1>2, CallStep
    <3> QED
      BY <3>1, <3>2, <1>2, <2>2, CallStep DEF ReplaysAreGenuine, TypeOK
  <2> QED
    BY <2>1, <2>2, <2>3, <2>4, <2>5
<1>3. ASSUME NEW c \in Calls, Crash(c) PROVE GInv'
  BY <1>3 DEF Crash, Going, TypeOK, Record, Call, Arrivals, Records, Successes, ReplaysAreGenuine
<1>4. CASE LockExpires
  BY <1>4 DEF LockExpires, TypeOK, Record, Call, Arrivals, Records, Successes, ReplaysAreGenuine
<1>5. CASE UNCHANGED vars
  BY <1>5 DEF vars, TypeOK, Record, Call, Arrivals, Records, Successes, ReplaysAreGenuine
<1> QED
  BY <1>1, <1>2, <1>3, <1>4, <1>5 DEF Next

\* The invariant holds in every reachable state.
LEMMA GInvAlways == Spec => []GInv
BY GInvInit, GInvNext, PTL DEF Spec

\* Every variable has its type in every reachable state.
THEOREM TypeCorrect == Spec => []TypeOK
BY GInvAlways, PTL DEF GInv

\* A replayed response is that of a call with the same payload whose mutation was
\* carried out, under every fault there is.
THEOREM ReplaysAreCorrect == Spec => []ReplaysAreGenuine
BY GInvAlways, PTL DEF GInv

-----------------------------------------------------------------------------
(* When locks outlive their handlers. *)

\* A release that follows an undecided failure of a release would delete the lock
\* of another call: that takes both an unstorable response and a failing Redis.
LocksOutliveHandlers == "slow" \notin Faults /\ ~({"large", "redis"} \subseteq Faults)

\* A call owns the record from the start of its handler until it has completed or
\* released it.
Ownership ==
    \A c \in Calls :
        /\ IsHolding(c) => rec # None /\ rec.by = c
        /\ call[c].pc \in {"run", "complete", "delete"} => rec.state = "in_progress"
        /\ call[c].pc \in {"release", "delete"} /\ call[c].answer = "ok" => "large" \in Faults
        /\ call[c].pc \in {"release", "delete"} => call[c].answer \in {"ok", "error"}
        /\ call[c].pc = "complete" => call[c].answer = "ok"

XInv == GInv /\ Ownership

\* The initial state satisfies the invariant.
LEMMA XInvInit == Init => XInv
BY GInvInit DEF Init, XInv, Ownership, IdleCall, IsHolding

\* Every step preserves the invariant.
LEMMA XInvNext ==
    ASSUME LocksOutliveHandlers, XInv, [Next]_vars PROVE XInv'
<1>0. GInv'
  BY GInvNext DEF XInv
<1> SUFFICES Ownership'
  BY <1>0 DEF XInv
<1> USE NoneAssumption DEF XInv, GInv
<1>1. ASSUME NEW c \in Calls, NEW h \in Payloads, Arrive(c, h) PROVE Ownership'
  BY <1>1 DEF Arrive, Ownership, IsHolding, TypeOK, Call
<1>2. ASSUME NEW c \in Calls, Proceed(c) PROVE Ownership'
  <2>1. ASSUME NEW d \in Calls \ {c}, IsHolding(d)
        PROVE  rec' = rec
    \* The record is d's, and only c's steps on a record of its own change it.
    <3>1. rec # None /\ rec.by = d
      BY <2>1 DEF Ownership
    <3>2. ~IsHolding(c)
      BY <3>1 DEF Ownership
    <3> QED
      BY <1>2, <3>1, <3>2
         DEF IsHolding, Proceed, Acquire, KeyIsUnset, AcquireFails, ReadExisting, BeginFails,
             Poll, WaitEnds, HandlerApplies, HandlerFails, Complete, TooLargeToStore,
             ReleaseRead, ReleaseDelete, RedisFails, Reply
  <2>2. IsHolding(c)' => rec' # None /\ rec'.by = c
    <3>1. call[c].hash \in Payloads
      BY <1>2, CallStep DEF Arrivals
    <3>2. \A s \in {"in_progress", "completed"} :
             [state |-> s, hash |-> call[c].hash, by |-> c] # None
      BY <3>1 DEF Record
    <3> QED
      BY <1>2, <3>2
         DEF IsHolding, Proceed, Acquire, AcquireFails, ReadExisting, BeginFails,
           Poll, WaitEnds, HandlerApplies, HandlerFails, Complete, TooLargeToStore,
           ReleaseRead, ReleaseDelete, RedisFails, Reply, Going, Deciding, Replaying,
           Ownership, InProgress, TypeOK, Call, LocksOutliveHandlers
  <2>3. call'[c].pc \in {"run", "complete", "delete"} => rec'.state = "in_progress"
    BY <1>2
       DEF IsHolding, Proceed, Acquire, AcquireFails, ReadExisting, BeginFails,
           Poll, WaitEnds, HandlerApplies, HandlerFails, Complete, TooLargeToStore,
           ReleaseRead, IsReleasable, ReleaseDelete, RedisFails, Reply, Going, Deciding,
           Replaying, Ownership, InProgress, TypeOK, Call
  <2>4. /\ call'[c].pc \in {"release", "delete"} /\ call'[c].answer = "ok" => "large" \in Faults
        /\ call'[c].pc \in {"release", "delete"} => call'[c].answer \in {"ok", "error"}
        /\ call'[c].pc = "complete" => call'[c].answer = "ok"
    BY <1>2
       DEF Proceed, Acquire, AcquireFails, ReadExisting, BeginFails,
           Poll, WaitEnds, HandlerApplies, HandlerFails, Complete, TooLargeToStore,
           ReleaseRead, ReleaseDelete, RedisFails, Reply, Going, Deciding,
           Replaying, Ownership, TypeOK, Call
  <2> QED
    BY <1>2, <2>1, <2>2, <2>3, <2>4, CallStep DEF Ownership, IsHolding
<1>3. ASSUME NEW c \in Calls, Crash(c) PROVE Ownership'
  BY <1>3 DEF Crash, Going, Ownership, IsHolding, TypeOK, Call
<1>4. CASE LockExpires
  BY <1>4 DEF LockExpires, LocksOutliveHandlers, Ownership, IsHolding, TypeOK, Record
<1>5. CASE UNCHANGED vars
  BY <1>5 DEF vars, Ownership, IsHolding
<1> QED
  BY <1>1, <1>2, <1>3, <1>4, <1>5 DEF Next

\* The invariant holds in every reachable state.
LEMMA XInvAlways == ASSUME LocksOutliveHandlers PROVE Spec => []XInv
BY XInvInit, XInvNext, PTL DEF Spec

\* If no handler outlives its lock, two handlers of one key never run at once.
THEOREM LocksExclude == ASSUME LocksOutliveHandlers PROVE Spec => []OneHandlerAtATime
<1>1. XInv => OneHandlerAtATime
  BY DEF XInv, Ownership, IsHolding, OneHandlerAtATime
<1> QED
  BY <1>1, XInvAlways, PTL

\* If no handler outlives its lock, a stored response is never lost or replaced.
THEOREM StoredResponsesStay == ASSUME LocksOutliveHandlers PROVE Spec => StoredResponseStays
<1> DEFINE Stays == rec # None /\ rec.state = "completed" => rec' = rec
<1>1. ASSUME XInv, [Next]_vars PROVE Stays
  <2>1. ASSUME NEW c \in Calls, Proceed(c) PROVE Stays
    BY <1>1, <2>1
       DEF XInv, Ownership, IsHolding, Proceed, Acquire, KeyIsUnset, AcquireFails, ReadExisting,
           BeginFails, Poll, WaitEnds, HandlerApplies, HandlerFails, Complete, TooLargeToStore,
           ReleaseRead, ReleaseDelete, RedisFails, Reply
  <2> QED
    BY <1>1, <2>1 DEF Next, vars, Arrive, Crash, LockExpires
<1> QED
  BY <1>1, XInvAlways, PTL DEF Spec, StoredResponseStays

-----------------------------------------------------------------------------
(* When every response of an applied call gets stored. *)

\* The applied call either is about to store its response or has stored it.
AppliedOnce ==
    \A a \in applied :
        /\ rec # None /\ rec.by = a
        /\ rec.state = "completed" \/ call[a].pc = "complete"

OInv == XInv /\ AppliedOnce

\* A running handler owns a record that is not completed: nothing was applied before.
LEMMA NothingApplied ==
    ASSUME OInv, NEW c \in Calls, call[c].pc = "run" PROVE applied = {}
<1>1. rec # None /\ rec.by = c /\ rec.state = "in_progress"
  BY DEF OInv, XInv, Ownership, IsHolding
<1> QED
  BY <1>1 DEF OInv, XInv, GInv, TypeOK, AppliedOnce

\* Every step preserves the invariant.
LEMMA OInvNext == ASSUME Faults = {}, OInv, [Next]_vars PROVE OInv'
<1>0. LocksOutliveHandlers
  BY DEF LocksOutliveHandlers
<1>1. XInv'
  BY <1>0, XInvNext DEF OInv
<1> SUFFICES AppliedOnce'
  BY <1>1 DEF OInv
<1> USE NoneAssumption DEF OInv, XInv, GInv
<1>2. ASSUME NEW c \in Calls, NEW h \in Payloads, Arrive(c, h) PROVE AppliedOnce'
  BY <1>2 DEF Arrive, AppliedOnce, TypeOK, Call
<1>3. ASSUME NEW c \in Calls, HandlerApplies(c) PROVE AppliedOnce'
  <2>1. rec # None /\ rec.by = c /\ rec.state = "in_progress"
    BY <1>3 DEF HandlerApplies, Ownership, IsHolding
  <2>2. applied = {}
    BY <1>3, NothingApplied DEF HandlerApplies
  <2> QED
    BY <1>3, <2>1, <2>2 DEF HandlerApplies, Deciding, AppliedOnce, TypeOK, Call
<1>4. ASSUME NEW c \in Calls, Complete(c) PROVE AppliedOnce'
  <2>1. rec.by = c
    BY <1>4 DEF Complete, Ownership, IsHolding
  <2>2. rec' # None /\ rec'.by = c /\ rec'.state = "completed"
    BY <1>4 DEF Complete, Record, Arrivals
  <2> QED
    BY <1>4, <2>1, <2>2 DEF Complete, AppliedOnce
<1>5. ASSUME NEW c \in Calls, Proceed(c), ~HandlerApplies(c), ~Complete(c)
      PROVE  AppliedOnce'
  <2>1. applied' = applied
    BY <1>5 DEF Proceed, Acquire, AcquireFails, ReadExisting, BeginFails, Poll,
                WaitEnds, HandlerFails, TooLargeToStore, ReleaseRead, ReleaseDelete,
                RedisFails, Reply
  <2>2. CASE applied = {}
    BY <2>1, <2>2 DEF AppliedOnce
  <2>3. CASE applied # {}
    <3>1. PICK a \in applied : rec # None /\ rec.by = a
                               /\ (rec.state = "completed" \/ call[a].pc = "complete")
      BY <2>3 DEF AppliedOnce
    <3>2. rec' = rec
      BY <1>5, <3>1
         DEF Proceed, Acquire, KeyIsUnset, AcquireFails, ReadExisting, BeginFails, Poll,
             WaitEnds, HandlerFails, TooLargeToStore, ReleaseRead, ReleaseDelete,
             RedisFails, Reply, Ownership, IsHolding
    <3>3. call[c].pc # "complete"
      BY <1>5 DEF Proceed, Acquire, AcquireFails, ReadExisting, BeginFails, Poll,
                  WaitEnds, HandlerFails, TooLargeToStore, ReleaseRead, ReleaseDelete,
                  RedisFails, Reply
    <3> QED
      BY <1>5, <2>1, <3>2, <3>3, CallStep DEF AppliedOnce, TypeOK
  <2> QED
    BY <2>2, <2>3
<1>6. ASSUME NEW c \in Calls, Crash(c) PROVE AppliedOnce'
  BY <1>6 DEF Crash, IsUnstored, IsHolding, Going, AppliedOnce, TypeOK, Call
<1>7. CASE LockExpires
  BY <1>7 DEF LockExpires, IsHolding, AppliedOnce
<1>8. CASE UNCHANGED vars
  BY <1>8 DEF vars, AppliedOnce
<1> QED
  BY <1>2, <1>3, <1>4, <1>5, <1>6, <1>7, <1>8 DEF Next

\* The invariant holds in every reachable state.
LEMMA OInvAlways == ASSUME Faults = {} PROVE Spec => []OInv
<1>1. Init => OInv
  BY XInvInit DEF Init, OInv, AppliedOnce
<1> QED
  BY <1>1, OInvNext, PTL DEF Spec

\* If every applied call stores its response, the mutation happens at most once,
\* however many calls carry the key and whichever of them fail or die before it.
THEOREM AppliesAtMostOnce == ASSUME Faults = {} PROVE Spec => []AtMostOnce
<1>1. OInv => AtMostOnce
  BY DEF OInv, AppliedOnce, AtMostOnce
<1> QED
  BY <1>1, OInvAlways, PTL

\* Under the same condition the protocol implements IdempotentWrite.
THEOREM ImplementsIdempotentWrite ==
    ASSUME Faults = {} PROVE Spec => RefinesIdempotentWrite
<1> DEFINE payloads == [c \in Calls |-> call[c].hash]
           answers == [c \in Calls |-> ClientSees(c)]
<1>1. Init => Writes!Init
  BY DEF Init, IdleCall, ClientSees, Writes!Init
<1>2. ASSUME OInv, [Next]_vars PROVE [Writes!Next]_(Writes!vars)
  <2> USE DEF OInv, XInv, GInv
  <2>1. ASSUME NEW c \in Calls, NEW h \in Payloads, Arrive(c, h) PROVE Writes!Arrive(c, h)
    BY <1>2, <2>1 DEF Arrive, ClientSees, Writes!Arrive, TypeOK, Call, Arrivals
  <2>2. ASSUME NEW c \in Calls, Proceed(c) \/ Crash(c) PROVE payloads' = payloads
    BY <1>2, <2>2, CallStep
  <2>3. ASSUME NEW c \in Calls, Proceed(c) \/ Crash(c), ~Reply(c) PROVE answers' = answers
    <3>1. call[c].pc # "done" /\ call'[c].pc # "done"
      BY <1>2, <2>3
         DEF Proceed, Crash, Acquire, AcquireFails, ReadExisting, BeginFails, Poll,
             WaitEnds, HandlerApplies, HandlerFails, Complete, TooLargeToStore, ReleaseRead,
             ReleaseDelete, RedisFails, Going, Deciding, Replaying, TypeOK, Call
    <3> QED
      BY <1>2, <2>3, <3>1, CallStep DEF ClientSees
  <2>4. ASSUME NEW c \in Calls, HandlerApplies(c) PROVE Writes!Apply(c)
    <3>1. applied = {} /\ applied' = {c}
      BY <1>2, <2>4, NothingApplied DEF HandlerApplies
    <3>2. call[c].hash # None
      BY <1>2, <2>4, NoneAssumption DEF HandlerApplies, Arrivals
    <3>3. payloads' = payloads /\ answers' = answers
      BY <2>2, <2>3, <2>4 DEF Proceed, HandlerApplies, Reply
    <3> QED
      BY <3>1, <3>2, <3>3 DEF Writes!Apply
  <2>5. ASSUME NEW c \in Calls, Reply(c) PROVE Writes!Succeed(c) \/ Writes!Refuse(c)
    <3>1. payloads' = payloads /\ applied' = applied
      BY <2>2, <2>5 DEF Proceed, Reply
    <3>2. answers[c] = "none"
      BY <2>5 DEF Reply, ClientSees
    <3>3. /\ call' = [call EXCEPT ![c].pc = "done"]
          /\ call'[c].pc = "done" /\ call'[c].answer = call[c].answer
      BY <1>2, <2>5 DEF Reply, Going, TypeOK, Call
    <3>4. CASE call[c].answer \in {"ok", "replay"}
      <4>1. answers' = [answers EXCEPT ![c] = "success"]
        BY <1>2, <3>3, <3>4 DEF TypeOK, ClientSees
      <4>2. \E a \in applied : payloads[a] = payloads[c]
        BY <1>2, <3>4 DEF Successes, ReplaysAreGenuine, TypeOK
      <4> QED
        BY <3>1, <3>2, <4>1, <4>2 DEF Writes!Succeed
    <3>5. CASE call[c].answer \notin {"ok", "replay"}
      <4>1. answers' = [answers EXCEPT ![c] = "refused"]
        BY <1>2, <3>3, <3>5 DEF TypeOK, ClientSees
      <4> QED
        BY <3>1, <3>2, <4>1 DEF Writes!Refuse
    <3> QED
      BY <3>4, <3>5
  <2>6. ASSUME NEW c \in Calls, Proceed(c), ~Reply(c), ~HandlerApplies(c)
        PROVE  UNCHANGED Writes!vars
    <3>1. applied' = applied
      BY <2>6 DEF Proceed, Acquire, AcquireFails, ReadExisting, BeginFails, Poll,
                  WaitEnds, HandlerFails, Complete, TooLargeToStore, ReleaseRead,
                  ReleaseDelete, RedisFails
    <3> QED
      BY <2>2, <2>3, <2>6, <3>1 DEF Writes!vars
  <2>7. ASSUME NEW c \in Calls, Crash(c) PROVE UNCHANGED Writes!vars
    <3>1. answers' = answers
      BY <1>2, <2>7 DEF Crash, ClientSees, Going, TypeOK, Call
    <3> QED
      BY <2>2, <2>7, <3>1 DEF Crash, Writes!vars
  <2>8. ASSUME LockExpires \/ UNCHANGED vars PROVE UNCHANGED Writes!vars
    BY <2>8 DEF LockExpires, ClientSees, vars, Writes!vars
  <2> QED
    BY <1>2, <2>1, <2>4, <2>5, <2>6, <2>7, <2>8 DEF Next, Writes!Next
<1> QED
  BY <1>1, <1>2, OInvAlways, PTL DEF Spec, RefinesIdempotentWrite, Writes!Spec
=============================================================================

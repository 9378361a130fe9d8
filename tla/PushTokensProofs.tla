-------------------------- MODULE PushTokensProofs --------------------------
(* Proofs about PushTokens, for any number of sessions, tokens and requests. *)
EXTENDS PushTokens, TLAPS

\* A request has an attempt.
Sound == MaxAttempts \in Nat \ {0}

-----------------------------------------------------------------------------
(* The invariant. *)

\* A registration knows its session and its token.
Named ==
    \A p \in Requests : req[p].pc # "idle" =>
        req[p].session \in Sessions /\ req[p].token \in PushTokens

\* The session whose row a registration has locked is not revoked meanwhile, and the
\* snapshot is right about the other rows, unless a conflict was noted.
SnapshotHolds ==
    \A p \in Requests : req[p].pc = "commit" =>
        /\ session[req[p].session].status \in {"live", "expired"}
        /\ req[p].session \in req[p].rows
        /\ \/ req[p].conflict
           \/ \A y \in req[p].rows \ {req[p].session} : session[y].token = req[p].token

\* What the worker is to clear is a token the provider has dropped.
AnswersAreTrue ==
    /\ \A j \in Sends : send[j].pc # "idle" => send[j].session \in Sessions
    /\ \A j \in Sends : send[j].pc = "clear" => send[j].token \in dead

Inv == TypeOK /\ Named /\ SnapshotHolds /\ AnswersAreTrue /\ OneSessionPerToken /\ RevokedHasNoToken

\* Where a registration stands and what it writes.
Standing(r) == <<r.pc, r.session, r.token, r.rows>>

\* A step that leaves the sessions alone, and gives one registration another state.
LEMMA RequestStep ==
    ASSUME Inv, NEW p \in Requests, NEW r \in Request, req' = [req EXCEPT ![p] = r],
           r.pc # "idle" => r.session \in Sessions /\ r.token \in PushTokens,
           r.pc # "commit", UNCHANGED <<session, send, dead>>
    PROVE  Inv'
BY DEF Inv, TypeOK, Named, SnapshotHolds, AnswersAreTrue, OneSessionPerToken, RevokedHasNoToken

\* A row written by one statement: no registration holds it, and those that show it are
\* noted.
LEMMA RowWritten ==
    ASSUME Inv, NEW x \in Sessions, NEW row \in Session, ~Locked(x),
           session' = [session EXCEPT ![x] = row], Outdates(x),
           row.token \in {session[x].token, None},
           row.status \in {"none", "revoked", "deleted"} => row.token = None
    PROVE  /\ session' \in [Sessions -> Session] /\ req' \in [Requests -> Request]
           /\ Named' /\ SnapshotHolds' /\ OneSessionPerToken' /\ RevokedHasNoToken'
<1>1. session' \in [Sessions -> Session]
  BY DEF Inv, TypeOK
<1>2. /\ req' \in [Requests -> Request]
      /\ \A p \in Requests : Standing(req'[p]) = Standing(req[p])
      /\ \A p \in Requests : req[p].conflict => req'[p].conflict
      /\ \A p \in Requests : req[p].pc = "commit" /\ x \in req[p].rows => req'[p].conflict
  <2>1. \A p \in Requests : req[p] \in Request
    BY DEF Inv, TypeOK
  <2>2. /\ req' \in [Requests -> Request]
        /\ \A p \in Requests : req'[p] =
               [req[p] EXCEPT !.conflict = @ \/ (req[p].pc = "commit" /\ x \in req[p].rows)]
    BY <2>1 DEF Outdates, Request
  <2>3. ASSUME NEW p \in Requests
        PROVE  /\ Standing(req'[p]) = Standing(req[p])
               /\ req'[p].conflict =
                    (req[p].conflict \/ (req[p].pc = "commit" /\ x \in req[p].rows))
    BY <2>1, <2>2 DEF Request, Standing
  <2> QED
    BY <2>2, <2>3
<1>3. Named'
  BY <1>2 DEF Inv, Named, Standing
<1>4. SnapshotHolds'
  <2>1. ASSUME NEW p \in Requests, req'[p].pc = "commit"
        PROVE  /\ req[p].pc = "commit" /\ req'[p].session = req[p].session
               /\ req'[p].token = req[p].token /\ req'[p].rows = req[p].rows
               /\ req[p].session # x /\ req[p].session \in req[p].rows
               /\ req[p].session \in Sessions /\ req[p].rows \subseteq Sessions
    BY <1>2, <2>1 DEF Inv, SnapshotHolds, Named, Standing, Locked, TypeOK, Request
  <2>2. \A y \in Sessions \ {x} : session'[y] = session[y]
    BY DEF Inv, TypeOK
  <2> QED
    BY <1>2, <2>1, <2>2 DEF Inv, SnapshotHolds
<1>5. OneSessionPerToken' /\ RevokedHasNoToken'
  BY <1>1 DEF Inv, TypeOK, OneSessionPerToken, RevokedHasNoToken
<1> QED
  BY <1>1, <1>2, <1>3, <1>4, <1>5

\* A commit gives the token to the registration's session and takes it from the others it
\* has seen it with.
LEMMA CommitWrites ==
    ASSUME Inv, NEW p \in Requests, CommitUpsert(p), NEW x, x = req[p].session
    PROVE  /\ x \in Sessions /\ req[p].token \in PushTokens /\ x \in req[p].rows
           /\ session[x].status \in {"live", "expired"} /\ req[p].rows \subseteq Sessions
           /\ session' \in [Sessions -> Session]
           /\ \A y \in Sessions : session'[y].status = session[y].status
           /\ session'[x].token = req[p].token
           /\ \A y \in req[p].rows \ {x} : session'[y].token = None
           /\ \A y \in Sessions \ req[p].rows : session'[y] = session[y]
<1>1. /\ x \in Sessions /\ req[p].token \in PushTokens /\ x \in req[p].rows
      /\ session[x].status \in {"live", "expired"} /\ req[p].rows \subseteq Sessions
  BY DEF Inv, TypeOK, CommitUpsert, Named, SnapshotHolds, Request
<1>2. /\ session' \in [Sessions -> Session]
      /\ \A y \in Sessions : session'[y].status = session[y].status
      /\ session'[x].token = req[p].token
      /\ \A y \in req[p].rows \ {x} : session'[y].token = None
      /\ \A y \in Sessions \ req[p].rows : session'[y] = session[y]
  BY <1>1 DEF CommitUpsert, Registered, Inv, TypeOK, Session
<1> QED
  BY <1>1, <1>2

LEMMA Commits ==
    ASSUME Sound, Inv, NEW p \in Requests, CommitUpsert(p)
    PROVE  Inv'
<1> DEFINE x == req[p].session
<1>1. /\ x \in Sessions /\ req[p].token \in PushTokens /\ x \in req[p].rows
      /\ session[x].status \in {"live", "expired"} /\ req[p].rows \subseteq Sessions
  BY CommitWrites
<1>2. /\ session' \in [Sessions -> Session]
      /\ \A y \in Sessions : session'[y].status = session[y].status
      /\ session'[x].token = req[p].token
      /\ \A y \in req[p].rows \ {x} : session'[y].token = None
      /\ \A y \in Sessions \ req[p].rows : session'[y] = session[y]
  BY CommitWrites
<1>3. /\ req' \in [Requests -> Request] /\ req'[p] = IdleRequest
      /\ \A q \in Requests \ {p} : Standing(req'[q]) = Standing(req[q])
      /\ \A q \in Requests \ {p} : req[q].conflict => req'[q].conflict
      /\ \A q \in Requests \ {p} : req[q].pc = "commit" /\ req[q].rows \cap req[p].rows # {}
                                    => req'[q].conflict
  <2>1. IdleRequest \in Request
    BY DEF Sound, IdleRequest, Request
  <2>2. /\ req' \in [Requests -> Request] /\ req'[p] = IdleRequest
        /\ \A q \in Requests \ {p} : req'[q] = [req[q] EXCEPT !.conflict =
               @ \/ (req[q].pc = "commit" /\ req[q].rows \cap req[p].rows # {})]
    BY <2>1 DEF CommitUpsert, Inv, TypeOK, Request
  <2>3. \A q \in Requests : req[q] \in Request
    BY DEF Inv, TypeOK
  <2>4. ASSUME NEW r \in Request, NEW b
        PROVE  /\ Standing([r EXCEPT !.conflict = b]) = Standing(r)
               /\ [r EXCEPT !.conflict = b].conflict = b
    BY DEF Request, Standing
  <2>5. ASSUME NEW q \in Requests \ {p}
        PROVE  /\ Standing(req'[q]) = Standing(req[q])
               /\ req'[q].conflict =
                    \/ req[q].conflict
                    \/ req[q].pc = "commit" /\ req[q].rows \cap req[p].rows # {}
    <3> DEFINE raised == \/ req[q].conflict
                         \/ req[q].pc = "commit" /\ req[q].rows \cap req[p].rows # {}
    <3>1. req'[q] = [req[q] EXCEPT !.conflict = raised]
      BY <2>2
    <3> HIDE DEF raised
    <3>2. Standing(req'[q]) = Standing(req[q]) /\ req'[q].conflict = raised
      BY <2>3, <2>4, <3>1
    <3> QED
      BY <3>2 DEF raised
  <2> QED
    BY <2>2, <2>5
<1>4. Named'
  BY <1>3 DEF Inv, Named, Standing, IdleRequest
<1>5. SnapshotHolds'
  <2>1. ASSUME NEW q \in Requests \ {p}, req'[q].pc = "commit"
        PROVE  /\ req[q].pc = "commit" /\ req[q].session \in req[q].rows
               /\ req[q].rows \subseteq Sessions
               /\ req'[q].session = req[q].session /\ req'[q].token = req[q].token
               /\ req'[q].rows = req[q].rows
               /\ session[req[q].session].status \in {"live", "expired"}
               /\ \/ req[q].conflict
                  \/ \A y \in req[q].rows \ {req[q].session} : session[y].token = req[q].token
    BY <1>3, <2>1 DEF Inv, SnapshotHolds, Standing, TypeOK, Request
  <2>2. ASSUME NEW q \in Requests \ {p}, req'[q].pc = "commit"
        PROVE  \/ req'[q].conflict
               \/ \A y \in req[q].rows \ {req[q].session} : session'[y].token = req[q].token
    <3>1. CASE req[q].rows \cap req[p].rows # {} \/ req[q].conflict
      BY <1>3, <2>1, <2>2, <3>1
    <3>2. CASE req[q].rows \cap req[p].rows = {} /\ ~req[q].conflict
      BY <1>2, <2>1, <2>2, <3>2
    <3> QED
      BY <3>1, <3>2
  <2>3. req'[p].pc # "commit"
    BY <1>3 DEF IdleRequest
  <2> QED
    BY <1>2, <2>1, <2>2, <2>3 DEF SnapshotHolds
<1>6. OneSessionPerToken'
  BY <1>1, <1>2 DEF CommitUpsert, SnapshotIsCurrent, Inv, OneSessionPerToken
<1>7. RevokedHasNoToken'
  BY <1>1, <1>2 DEF Inv, RevokedHasNoToken
<1> QED
  BY <1>2, <1>3, <1>4, <1>5, <1>6, <1>7 DEF CommitUpsert, Inv, TypeOK, AnswersAreTrue

\* The invariant is inductive.
LEMMA Initially == ASSUME Sound, Init PROVE Inv
<1>1. IdleRequest \in Request /\ IdleSend \in Send
  BY DEF Sound, IdleRequest, Request, IdleSend, Send
<1>2. TypeOK
  BY <1>1 DEF Init, TypeOK, Session, Status
<1> QED
  BY <1>2 DEF Init, Inv, Named, SnapshotHolds, AnswersAreTrue, OneSessionPerToken,
              RevokedHasNoToken, IdleRequest, IdleSend

LEMMA Registering ==
    ASSUME Sound, Inv, NEW p \in Requests, Register(p) PROVE Inv'
<1>1. IdleRequest \in Request /\ IdleRequest.pc = "idle"
  BY DEF Sound, IdleRequest, Request
<1>2. ASSUME NEW x \in Sessions, NEW t \in PushTokens, UpsertMyPushToken(p, x, t) PROVE Inv'
  <2> DEFINE r == [IdleRequest EXCEPT !.pc = "begin", !.session = x, !.token = t,
                                      !.late = session[x].status = "expired"]
  <2>1. r \in Request /\ r.pc = "begin" /\ r.session = x /\ r.token = t
    BY <1>1 DEF Request
  <2>2. req' = [req EXCEPT ![p] = r] /\ UNCHANGED <<session, send, dead>>
    BY <1>2 DEF UpsertMyPushToken
  <2> QED
    BY <2>1, <2>2, RequestStep
<1>3. CASE SessionNotFound(p) \/ UpsertFails(p)
  BY <1>1, <1>3, RequestStep DEF SessionNotFound, UpsertFails
<1>4. CASE RetryUpsert(p)
  <2>1. /\ Retried(req[p]) \in Request
        /\ \/ Retried(req[p]).pc = "idle"
           \/ /\ Retried(req[p]).pc = "begin" /\ Retried(req[p]).session = req[p].session
              /\ Retried(req[p]).token = req[p].token
    <3>1. req[p] \in Request
      BY DEF Inv, TypeOK
    <3>2. req[p].attempt < MaxAttempts => req[p].attempt + 1 \in 1 .. MaxAttempts
      BY <3>1 DEF Sound, Request
    <3>3. ASSUME req[p].attempt < MaxAttempts
          PROVE  /\ TriedAgain(req[p]) \in Request /\ TriedAgain(req[p]).pc = "begin"
                 /\ TriedAgain(req[p]).session = req[p].session
                 /\ TriedAgain(req[p]).token = req[p].token
      BY <3>1, <3>2, <3>3 DEF TriedAgain, Request
    <3> QED
      BY <1>1, <3>3 DEF Retried
  <2>2. req[p].session \in Sessions /\ req[p].token \in PushTokens
    BY <1>4 DEF RetryUpsert, Inv, Named
  <2> QED
    BY <1>4, <2>1, <2>2, RequestStep DEF RetryUpsert
<1>5. CASE LockSession(p)
  <2> DEFINE x == req[p].session
             Others == {y \in Sessions \ {x} : session[y].token = req[p].token}
  <2>1. /\ x \in Sessions /\ req[p].token \in PushTokens
        /\ session[x].status \in {"live", "expired"}
    BY <1>5 DEF LockSession, IsCallersSession, Live, Inv, Named
  <2> DEFINE r == [req[p] EXCEPT !.pc = "commit", !.rows = {x} \cup Others]
  <2>5. req[p] \in Request
    BY DEF Inv, TypeOK
  <2>6. /\ r \in Request /\ r.pc = "commit" /\ r.session = x /\ r.token = req[p].token
        /\ r.rows = {x} \cup Others
    BY <2>1, <2>5 DEF Request
  <2>7. req' = [req EXCEPT ![p] = r]
    BY <1>5 DEF LockSession
  <2>2. /\ req' \in [Requests -> Request]
        /\ \A q \in Requests \ {p} : req'[q] = req[q]
        /\ req'[p].pc = "commit" /\ req'[p].session = x /\ req'[p].token = req[p].token
        /\ req'[p].rows = {x} \cup Others
    BY <2>6, <2>7 DEF Inv, TypeOK
  <2>3. UNCHANGED <<session, send, dead>>
    BY <1>5 DEF LockSession
  <2>4. SnapshotHolds'
    BY <2>1, <2>2, <2>3 DEF Inv, SnapshotHolds
  <2> QED
    BY <2>1, <2>2, <2>3, <2>4
       DEF Inv, TypeOK, Named, AnswersAreTrue, OneSessionPerToken, RevokedHasNoToken
<1> QED
  BY <1>2, <1>3, <1>4, <1>5, Commits DEF Register

LEMMA Pushing ==
    ASSUME Inv, NEW j \in Sends, Push(j) PROVE Inv'
<1>1. ASSUME NEW x \in Sessions, ReadSession(j, x) PROVE Inv'
  <2>1. [pc |-> "send", session |-> x, token |-> session[x].token] \in Send
    BY DEF Inv, TypeOK, Session, Send
  <2> QED
    BY <1>1, <2>1 DEF ReadSession, Inv, TypeOK, Named, SnapshotHolds, AnswersAreTrue,
                      OneSessionPerToken, RevokedHasNoToken
<1>2. IdleSend \in Send /\ IdleSend.pc = "idle"
  BY DEF IdleSend, Send
<1>3. CASE SendEnds(j)
  BY <1>2, <1>3 DEF SendEnds, Inv, TypeOK, Named, SnapshotHolds, AnswersAreTrue,
                    OneSessionPerToken, RevokedHasNoToken
<1>4. CASE InvalidToken(j)
  BY <1>4 DEF InvalidToken, Inv, TypeOK, Named, SnapshotHolds, AnswersAreTrue,
              OneSessionPerToken, RevokedHasNoToken, Send
<1>5. CASE ClearInvalidToken(j)
  <2> DEFINE x == send[j].session
  <2>1. /\ x \in Sessions /\ ~Locked(x) /\ dead' = dead
        /\ send' = [send EXCEPT ![j] = IdleSend]
    BY <1>5 DEF ClearInvalidToken, Inv, AnswersAreTrue
  <2>2. send' \in [Sends -> Send] /\ AnswersAreTrue'
    BY <1>2, <2>1 DEF Inv, TypeOK, AnswersAreTrue
  <2>3. CASE HasStillToken(j)
    <3> DEFINE row == [session[x] EXCEPT !.token = None]
    <3>1. /\ row \in Session /\ row.token = None
          /\ session' = [session EXCEPT ![x] = row] /\ Outdates(x)
      BY <1>5, <2>1, <2>3 DEF ClearInvalidToken, Inv, TypeOK, Session
    <3> QED
      BY <2>1, <2>2, <3>1, RowWritten DEF Inv, TypeOK
  <2>4. CASE ~HasStillToken(j)
    BY <1>5, <2>1, <2>2, <2>4 DEF ClearInvalidToken, Inv, TypeOK, Named, SnapshotHolds,
                                  OneSessionPerToken, RevokedHasNoToken
  <2> QED
    BY <2>3, <2>4
<1> QED
  BY <1>1, <1>3, <1>4, <1>5 DEF Push

\* A row of a session that is written by others than its registration.
Rewrites(x, row) ==
    /\ row \in Session /\ ~Locked(x) /\ Outdates(x) /\ UNCHANGED <<send, dead>>
    /\ session' = [session EXCEPT ![x] = row]
    /\ row.token \in {session[x].token, None}
    /\ row.status \in {"none", "revoked", "deleted"} => row.token = None

LEMMA SessionsLife ==
    ASSUME Inv, NEW x \in Sessions,
           RevokeMyPushToken(x) \/ Revoke(x) \/ Suspend(x) \/ Delete(x)
    PROVE  \E row \in Session : Rewrites(x, row)
<1>1. session[x] \in Session
  BY DEF Inv, TypeOK
<1>2. CASE RevokeMyPushToken(x)
  <2>1. Rewrites(x, [session[x] EXCEPT !.token = None])
    BY <1>1, <1>2 DEF RevokeMyPushToken, Rewrites, Session
  <2> QED
    BY <2>1 DEF Rewrites
<1>3. CASE Revoke(x)
  <2>1. Rewrites(x, Revoked(session[x]))
    BY <1>1, <1>3 DEF Revoke, Revoked, Rewrites, Session, Status
  <2> QED
    BY <2>1 DEF Rewrites
<1>4. CASE Suspend(x)
  <2>1. Rewrites(x, [session[x] EXCEPT !.status = "suspended"])
    BY <1>1, <1>4 DEF Suspend, Rewrites, Session, Status
  <2> QED
    BY <2>1 DEF Rewrites
<1>5. CASE Delete(x)
  <2>1. Rewrites(x, [status |-> "deleted", token |-> None])
    BY <1>1, <1>5 DEF Delete, Rewrites, Session, Status
  <2> QED
    BY <2>1 DEF Rewrites
<1> QED
  BY <1>2, <1>3, <1>4, <1>5

LEMMA Steps == ASSUME Sound, Inv, [Next]_vars PROVE Inv'
<1>1. ASSUME NEW x \in Sessions, RevokeMyPushToken(x) \/ Revoke(x) \/ Suspend(x) \/ Delete(x)
      PROVE Inv'
  <2>1. PICK row \in Session : Rewrites(x, row)
    BY <1>1, SessionsLife
  <2> QED
    BY <2>1, RowWritten DEF Rewrites, Inv, TypeOK, AnswersAreTrue
<1>2. ASSUME NEW x \in Sessions, Login(x) PROVE Inv'
  <2>1. /\ session' \in [Sessions -> Session] /\ UNCHANGED <<req, send, dead>>
        /\ \A y \in Sessions : session'[y].token = session[y].token
        /\ \A y \in Sessions \ {x} : session'[y] = session[y]
        /\ session[x].status = "none" /\ session'[x].status = "live"
    BY <1>2 DEF Login, Inv, TypeOK, Session, Status
  <2>2. SnapshotHolds'
    BY <2>1 DEF Inv, SnapshotHolds, Named, TypeOK, Request
  <2> QED
    BY <2>1, <2>2 DEF Inv, TypeOK, Named, AnswersAreTrue, OneSessionPerToken, RevokedHasNoToken
<1>3. ASSUME NEW x \in Sessions, Expire(x) PROVE Inv'
  <2>1. /\ session' \in [Sessions -> Session] /\ UNCHANGED <<req, send, dead>>
        /\ \A y \in Sessions : session'[y].token = session[y].token
        /\ \A y \in Sessions \ {x} : session'[y] = session[y]
        /\ session'[x].status = "expired"
    BY <1>3 DEF Expire, Inv, TypeOK, Session, Status
  <2>2. SnapshotHolds'
    BY <2>1 DEF Inv, SnapshotHolds, Named, TypeOK, Request
  <2> QED
    BY <2>1, <2>2 DEF Inv, TypeOK, Named, AnswersAreTrue, OneSessionPerToken, RevokedHasNoToken
<1>4. ASSUME NEW t \in PushTokens, TokenDies(t) PROVE Inv'
  BY <1>4 DEF TokenDies, Inv, TypeOK, Named, SnapshotHolds, AnswersAreTrue,
              OneSessionPerToken, RevokedHasNoToken
<1>5. CASE UNCHANGED vars
  BY <1>5 DEF vars, Inv, TypeOK, Named, SnapshotHolds, AnswersAreTrue,
              OneSessionPerToken, RevokedHasNoToken
<1> QED
  BY <1>1, <1>2, <1>3, <1>4, <1>5, Registering, Pushing DEF Next

\* The invariant holds in every reachable state.
LEMMA Always == ASSUME Sound PROVE Spec => []Inv
<1>1. Init => Inv
  BY Initially
<1>2. Inv /\ [Next]_vars => Inv'
  BY Steps
<1> QED
  BY <1>1, <1>2, PTL DEF Spec

\* Every variable has its type in every reachable state.
THEOREM TypeCorrect == ASSUME Sound PROVE Spec => []TypeOK
BY Always, PTL DEF Inv

\* However registrations race, a token is with one session at most.
THEOREM TokensHaveOneSession == ASSUME Sound PROVE Spec => []OneSessionPerToken
BY Always, PTL DEF Inv

\* However a registration races with a revocation, a revoked or deleted session is left
\* without a token.
THEOREM RevokedSessionsHaveNoToken == ASSUME Sound PROVE Spec => []RevokedHasNoToken
BY Always, PTL DEF Inv

-----------------------------------------------------------------------------
(* Who takes a token away. *)

\* The reasons for which a live session may lose its token.
MayLose(x) ==
    \/ RevokeMyPushToken(x)
    \/ session[x].token \in dead
    \/ \E p \in Requests : req[p].session = x /\ CommitUpsert(p)
    \/ \E y \in Sessions \ {x} : /\ session[y].status \in {"live", "expired"}
                                 /\ session'[y].token = session[x].token

Loses(x) ==
    /\ session[x].status = "live" /\ session'[x].status = "live"
    /\ session[x].token # None /\ session'[x].token # session[x].token

\* A step has one of the reasons.
LEMMA LossIsDue ==
    ASSUME Sound, Inv, Next, NEW x \in Sessions, Loses(x) PROVE MayLose(x)
<1>1. ASSUME NEW p \in Requests, CommitUpsert(p) PROVE MayLose(x)
  <2>1. CASE req[p].session = x
    BY <1>1, <2>1 DEF MayLose
  <2>2. CASE req[p].session # x
    <3> DEFINE y == req[p].session
    <3>1. /\ y \in Sessions /\ session[y].status \in {"live", "expired"}
          /\ session'[y].token = req[p].token
          /\ x \notin req[p].rows => session'[x] = session[x]
      BY <1>1, CommitWrites
    <3>2. x \in req[p].rows
      BY <3>1 DEF Loses
    <3>3. session[x].token = req[p].token
      BY <1>1, <2>2, <3>2 DEF CommitUpsert, SnapshotIsCurrent, Inv, SnapshotHolds
    <3> QED
      BY <2>2, <3>1, <3>3 DEF MayLose
  <2> QED
    BY <2>1, <2>2
<1>2. ASSUME NEW p \in Requests, Register(p), ~CommitUpsert(p) PROVE session' = session
  BY <1>2 DEF Register, UpsertMyPushToken, SessionNotFound, LockSession, RetryUpsert, UpsertFails
<1>3. ASSUME NEW j \in Sends, Push(j) PROVE MayLose(x)
  <2>1. CASE ClearInvalidToken(j) /\ HasStillToken(j)
    <3>1. /\ send[j].token \in dead /\ send[j].session \in Sessions
          /\ session[send[j].session].token = send[j].token
          /\ session' = [session EXCEPT ![send[j].session].token = None]
      BY <2>1 DEF ClearInvalidToken, HasStillToken, Inv, AnswersAreTrue
    <3>2. x = send[j].session
      BY <3>1 DEF Loses, Inv, TypeOK
    <3> QED
      BY <3>1, <3>2 DEF MayLose
  <2>2. CASE ~(ClearInvalidToken(j) /\ HasStillToken(j))
    <3>1. session' = session
      BY <1>3, <2>2 DEF Push, ReadSession, SendEnds, InvalidToken, ClearInvalidToken
    <3> QED
      BY <3>1 DEF Loses
  <2> QED
    BY <2>1, <2>2
<1>4. ASSUME NEW y \in Sessions, RevokeMyPushToken(y) PROVE MayLose(x)
  <2>1. y = x
    BY <1>4 DEF RevokeMyPushToken, Loses, Inv, TypeOK
  <2> QED
    BY <1>4, <2>1 DEF MayLose
<1>5. ASSUME NEW y \in Sessions, Login(y) \/ Expire(y) \/ Suspend(y) PROVE FALSE
  <2>1. session'[x].token = session[x].token
    BY <1>5 DEF Login, Expire, Suspend, Inv, TypeOK, Session
  <2> QED
    BY <2>1 DEF Loses
<1>6. ASSUME NEW y \in Sessions, Revoke(y) \/ Delete(y) PROVE FALSE
  <2>1. y # x => session'[x] = session[x]
    BY <1>6 DEF Revoke, Delete, Inv, TypeOK
  <2>2. session'[y].status # "live"
    BY <1>6 DEF Revoke, Revoked, Delete, Inv, TypeOK
  <2> QED
    BY <2>1, <2>2 DEF Loses
<1>7. ASSUME NEW t \in PushTokens, TokenDies(t) PROVE FALSE
  BY <1>7 DEF TokenDies, Loses
<1> QED
  BY <1>1, <1>2, <1>3, <1>4, <1>5, <1>6, <1>7 DEF Next, Loses

\* A live session loses its token to its client, to the provider or to another session
\* only.
THEOREM LiveSessionsKeepTokens == ASSUME Sound PROVE Spec => LiveSessionKeepsToken
<1>1. Inv /\ [Next]_vars => [LossesAreDue]_vars
  BY LossIsDue DEF LossesAreDue, Live, Loses, MayLose
<1> QED
  BY <1>1, Always, PTL DEF Spec, LiveSessionKeepsToken
=============================================================================

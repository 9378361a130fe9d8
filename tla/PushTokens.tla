------------------------------ MODULE PushTokens ------------------------------
(***************************************************************************)
(* The push token of each session: registered and removed by the session's *)
(* client, cleared by whatever revokes the session, and cleared by the     *)
(* push worker when the provider says that it is dead.                     *)
(*                                                                         *)
(* A registration is a SERIALIZABLE transaction with a snapshot and a      *)
(* commit, and a lock on its own session's row in between.  It fails and   *)
(* is retried if a row it writes has changed after the snapshot, if the    *)
(* unique index on the token finds a row the snapshot did not show, or if  *)
(* it is the victim of a deadlock.                                         *)
(***************************************************************************)
EXTENDS Naturals

CONSTANTS
    Sessions,     \* sessions, of one user or of several
    PushTokens,   \* registration tokens of app installations
    Requests,     \* concurrent registrations
    Sends,        \* push jobs under way
    MaxAttempts,  \* maxAttempts of withTransactionRetry, at least 1
    None          \* no session, no token

VARIABLES
    session,  \* each session row
    req,      \* the local state of each registration
    send,     \* the local state of each push job
    dead      \* the tokens the provider does not know any more

vars == <<session, req, send, dead>>

\* "suspended": revoked by setUserStatus, which does not touch the token.
Status == {"none", "live", "expired", "revoked", "suspended", "deleted"}

Session == [status : Status, token : PushTokens \cup {None}]

\* late: the session has expired at the request's "now", which the retries keep.
\* rows: the sessions that the snapshot shows and the transaction is to write.
Request == [pc : {"idle", "begin", "commit"}, session : Sessions \cup {None},
            token : PushTokens \cup {None}, late : BOOLEAN, attempt : 1 .. MaxAttempts,
            rows : SUBSET Sessions, conflict : BOOLEAN]

IdleRequest == [pc |-> "idle", session |-> None, token |-> None, late |-> FALSE,
                attempt |-> 1, rows |-> {}, conflict |-> FALSE]

Send == [pc : {"idle", "send", "clear"}, session : Sessions \cup {None},
         token : PushTokens \cup {None}]

IdleSend == [pc |-> "idle", session |-> None, token |-> None]

Live(x) == session[x].status = "live"

IsRow(x) == session[x].status \notin {"none", "deleted"}

\* A statement waits for the rows that a registration has written.
Locked(x) == \E p \in Requests : req[p].pc = "commit" /\ req[p].session = x

\* Snapshots that show an older version of row x: their transactions will fail.
Outdates(x) ==
    req' = [p \in Requests |->
              [req[p] EXCEPT !.conflict = @ \/ (req[p].pc = "commit" /\ x \in req[p].rows)]]

(***************************************************************************)
(* upsertMyPushToken and revokeMyPushToken                                 *)
(***************************************************************************)

\* An access token outlives the session it names; the account is looked up first.
UpsertMyPushToken(p, x, t) ==
    /\ req[p].pc = "idle" /\ IsRow(x)
    /\ req' = [req EXCEPT ![p] =
                 [IdleRequest EXCEPT !.pc = "begin", !.session = x, !.token = t,
                                     !.late = session[x].status = "expired"]]
    /\ UNCHANGED <<session, send, dead>>

\* The first statement's WHERE, by the snapshot.
IsCallersSession(p) ==
    \/ Live(req[p].session)
    \/ session[req[p].session].status = "expired" /\ ~req[p].late

SessionNotFound(p) ==
    /\ req[p].pc = "begin" /\ ~IsCallersSession(p)
    /\ req' = [req EXCEPT ![p] = IdleRequest]
    /\ UNCHANGED <<session, send, dead>>

LockSession(p) ==
    LET x == req[p].session
        Others == {y \in Sessions \ {x} : session[y].token = req[p].token}
    IN  /\ req[p].pc = "begin" /\ IsCallersSession(p) /\ ~Locked(x)
        /\ req' = [req EXCEPT ![p].pc = "commit", ![p].rows = {x} \cup Others]
        /\ UNCHANGED <<session, send, dead>>

Unnoticed(p) == TRUE

\* No row to write is outdated, and none that is not shown has the token.
SnapshotIsCurrent(p) ==
    /\ ~req[p].conflict
    /\ \A y \in Sessions \ req[p].rows : session[y].token # req[p].token

Waits(p) == \E y \in req[p].rows \ {req[p].session} : Locked(y)

Registered(p) ==
    [x \in Sessions |->
       IF x = req[p].session THEN [session[x] EXCEPT !.token = req[p].token]
       ELSE IF x \in req[p].rows THEN [session[x] EXCEPT !.token = None]
       ELSE session[x]]

\* The other sessions lose the token, this one gets it, commit.
CommitUpsert(p) ==
    /\ req[p].pc = "commit" /\ SnapshotIsCurrent(p) /\ ~Waits(p)
    /\ session' = Registered(p)
    /\ req' = [q \in Requests |->
                 IF q = p THEN IdleRequest
                 ELSE [req[q] EXCEPT !.conflict =
                         @ \/ (req[q].pc = "commit" /\ req[q].rows \cap req[p].rows # {})]]
    /\ UNCHANGED <<send, dead>>

\* Two registrations that wait for each other's session.
Deadlocked(p) ==
    \E q \in Requests \ {p} :
        /\ req[q].pc = "commit"
        /\ req[q].session \in req[p].rows /\ req[p].session \in req[q].rows

TriedAgain(r) == [r EXCEPT !.pc = "begin", !.attempt = @ + 1, !.rows = {}, !.conflict = FALSE]

\* The last attempt fails the request.
Retried(r) == IF r.attempt < MaxAttempts THEN TriedAgain(r) ELSE IdleRequest

\* A write conflict, a deadlock or a unique violation starts the transaction over.
RetryUpsert(p) ==
    /\ req[p].pc = "commit" /\ (~SnapshotIsCurrent(p) \/ Deadlocked(p))
    /\ req' = [req EXCEPT ![p] = Retried(@)]
    /\ UNCHANGED <<session, send, dead>>

\* The connection or the process is lost, and the transaction with it.
UpsertFails(p) ==
    /\ req[p].pc # "idle"
    /\ req' = [req EXCEPT ![p] = IdleRequest]
    /\ UNCHANGED <<session, send, dead>>

\* One statement, for a session in whatever state.
RevokeMyPushToken(x) ==
    /\ IsRow(x) /\ ~Locked(x)
    /\ session' = [session EXCEPT ![x].token = None]
    /\ Outdates(x)
    /\ UNCHANGED <<send, dead>>

(***************************************************************************)
(* PushWorker.process                                                      *)
(***************************************************************************)

\* A session that may not be pushed to, or has no token, ends the job.
ReadSession(j, x) ==
    /\ send[j].pc = "idle" /\ Live(x) /\ session[x].token # None
    /\ send' = [send EXCEPT ![j] =
                  [pc |-> "send", session |-> x, token |-> session[x].token]]
    /\ UNCHANGED <<session, req, dead>>

\* Sent, or failed in a way that the queue retries from the start.
SendEnds(j) ==
    /\ send[j].pc = "send"
    /\ send' = [send EXCEPT ![j] = IdleSend]
    /\ UNCHANGED <<session, req, dead>>

\* messaging/registration-token-not-registered is not retryable.
InvalidToken(j) ==
    /\ send[j].pc = "send" /\ send[j].token \in dead
    /\ send' = [send EXCEPT ![j].pc = "clear"]
    /\ UNCHANGED <<session, req, dead>>

HasAnyToken(j) == session[send[j].session].token # None

HasStillToken(j) == session[send[j].session].token = send[j].token

\* The update whose WHERE names the token that was read.
ClearInvalidToken(j) ==
    LET x == send[j].session
    IN  /\ send[j].pc = "clear" /\ ~Locked(x)
        /\ IF HasStillToken(j)
           THEN session' = [session EXCEPT ![x].token = None] /\ Outdates(x)
           ELSE UNCHANGED <<session, req>>
        /\ send' = [send EXCEPT ![j] = IdleSend]
        /\ UNCHANGED dead

\* The provider drops a token: the app was removed.
TokenDies(t) ==
    /\ t \notin dead
    /\ dead' = dead \cup {t}
    /\ UNCHANGED <<session, req, send>>

(***************************************************************************)
(* The session's life                                                      *)
(***************************************************************************)

\* createSession.
Login(x) ==
    /\ session[x].status = "none"
    /\ session' = [session EXCEPT ![x].status = "live"]
    /\ UNCHANGED <<req, send, dead>>

Revoked(row) == [status |-> "revoked", token |-> None]

\* Logout, revocation, reuse of a refresh token, a new login of the device, password
\* change and reset.
Revoke(x) ==
    /\ IsRow(x) /\ session[x].status # "revoked" /\ ~Locked(x)
    /\ session' = [session EXCEPT ![x] = Revoked(@)]
    /\ Outdates(x)
    /\ UNCHANGED <<send, dead>>

\* setUserStatus revokes the session and leaves its token.
Suspend(x) ==
    /\ session[x].status \in {"live", "expired"} /\ ~Locked(x)
    /\ session' = [session EXCEPT ![x].status = "suspended"]
    /\ Outdates(x)
    /\ UNCHANGED <<send, dead>>

\* expiresAt passes: no row is written.
Expire(x) ==
    /\ Live(x)
    /\ session' = [session EXCEPT ![x].status = "expired"]
    /\ UNCHANGED <<req, send, dead>>

\* The finalizer deletes the rows of an erased account.
Delete(x) ==
    /\ IsRow(x) /\ ~Locked(x)
    /\ session' = [session EXCEPT ![x] = [status |-> "deleted", token |-> None]]
    /\ Outdates(x)
    /\ UNCHANGED <<send, dead>>

Register(p) ==
    \/ \E x \in Sessions, t \in PushTokens : UpsertMyPushToken(p, x, t)
    \/ SessionNotFound(p) \/ LockSession(p) \/ CommitUpsert(p)
    \/ RetryUpsert(p) \/ UpsertFails(p)

Push(j) ==
    \/ \E x \in Sessions : ReadSession(j, x)
    \/ SendEnds(j) \/ InvalidToken(j) \/ ClearInvalidToken(j)

Next ==
    \/ \E p \in Requests : Register(p)
    \/ \E j \in Sends : Push(j)
    \/ \E t \in PushTokens : TokenDies(t)
    \/ \E x \in Sessions : \/ Login(x) \/ RevokeMyPushToken(x)
                           \/ Revoke(x) \/ Suspend(x) \/ Expire(x) \/ Delete(x)

Init ==
    /\ session = [x \in Sessions |-> [status |-> "none", token |-> None]]
    /\ req = [p \in Requests |-> IdleRequest]
    /\ send = [j \in Sends |-> IdleSend]
    /\ dead = {}

Spec == Init /\ [][Next]_vars

-----------------------------------------------------------------------------
(***************************************************************************)
(* Properties.                                                             *)
(***************************************************************************)

\* Every variable has its type.
TypeOK ==
    /\ session \in [Sessions -> Session]
    /\ req \in [Requests -> Request]
    /\ send \in [Sends -> Send]
    /\ dead \subseteq PushTokens

\* A revoked or deleted session has no push token, although a registration may have
\* found it live a moment before; only suspension leaves one.
RevokedHasNoToken ==
    \A x \in Sessions :
        session[x].status \in {"none", "revoked", "deleted"} => session[x].token = None

\* A token is with one session at most, whoever registers it at the same time.
OneSessionPerToken ==
    \A x, y \in Sessions : x # y /\ session[x].token = session[y].token
                           => session[x].token = None

\* What a step may do: a live session loses its token only to its own client, because the
\* provider has dropped this very token, or to another session, not revoked, that now has
\* it: neither a stale answer of the provider nor a caller whose session is gone takes it.
LossesAreDue ==
    \A x \in Sessions :
        Live(x) /\ Live(x)' /\ session[x].token # None /\ session'[x].token # session[x].token
        => \/ RevokeMyPushToken(x)
           \/ session[x].token \in dead
           \/ \E p \in Requests : req[p].session = x /\ CommitUpsert(p)
           \/ \E y \in Sessions \ {x} : /\ session[y].status \in {"live", "expired"}
                                        /\ session'[y].token = session[x].token

\* No step takes a live session's token away without such a reason.
LiveSessionKeepsToken == [][LossesAreDue]_vars
=============================================================================

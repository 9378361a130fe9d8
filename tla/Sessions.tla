------------------------------- MODULE Sessions -------------------------------
(***************************************************************************)
(* Sessions and refresh tokens of one account: password login, refresh     *)
(* (token rotation with reuse detection), logout, revocation of a session, *)
(* password change and reset, and the session side of suspending and of    *)
(* finalizing the deletion of the account.                                 *)
(*                                                                         *)
(* A step is a statement that other requests can interleave with.  A       *)
(* rotation locks the token it spends and then the session it touches;     *)
(* every revocation locks sessions first and tokens second.  A login       *)
(* reads the account, retires the previous session of its device, creates  *)
(* the session and creates its token, in separate transactions.            *)
(***************************************************************************)
EXTENDS Naturals, FiniteSets

CONSTANTS
    SessionIds,        \* rows of "Session", used or not
    TokenIds,          \* rows of "RefreshToken", used or not
    Devices,           \* client-provided device ids
    Procs,             \* concurrent requests
    Kinds,             \* the requests this deployment is exercised with
    MaxCred,           \* bound on the number of password changes
    UserRow, CredRow,  \* the User and the PasswordCredential row
    None

AllKinds == {"login", "refresh", "logout", "revoke", "reset", "change",
             "suspend", "finalize"}

Rows == SessionIds \cup TokenIds \cup {UserRow, CredRow}

ASSUME RowsAssumption ==
    /\ SessionIds \cap TokenIds = {}
    /\ {UserRow, CredRow} \cap (SessionIds \cup TokenIds) = {}
    /\ UserRow # CredRow
    /\ None \notin Rows \cup Procs \cup Devices
ASSUME KindsAssumption == Kinds \subseteq AllKinds
ASSUME CredAssumption == MaxCred \in Nat

VARIABLES
    account,  \* status, and the version of the password hash
    sess,     \* the committed session rows
    tok,      \* the committed refresh token rows
    owner,    \* the request that holds the lock of a row
    req       \* the local state of each request

vars == <<account, sess, tok, owner, req>>

Account == [status : {"ACTIVE", "SUSPENDED", "DELETED"}, cred : 0 .. MaxCred]

\* keyed: activeKey is set.  cred: the password the session was opened with.
Session == [state : {"free", "live", "revoked", "deleted"},
            device : Devices \cup {None}, keyed : BOOLEAN,
            cred : 0 .. MaxCred, expired : BOOLEAN]

FreeSession == [state |-> "free", device |-> None, keyed |-> FALSE,
                cred |-> 0, expired |-> FALSE]

\* "live": revokedAt and replacedById are null.  "spent": both are set.
\* late (history): the family's first token was created when a revocation of the
\* session had already begun.
Token == [state : {"free", "live", "spent", "revoked", "deleted"},
          session : SessionIds \cup {None}, late : BOOLEAN]

FreeToken == [state |-> "free", session |-> None, late |-> FALSE]

Request == [pc : {"idle", "device", "create", "token",
                  "rotate", "spend", "touch",
                  "begin", "account", "sessions", "tokens"},
            kind : AllKinds \cup {"none"},
            token : TokenIds \cup {None}, session : SessionIds \cup {None},
            device : Devices \cup {None}, cred : 0 .. MaxCred,
            pending : SUBSET Rows,     \* rows the statement has still to lock
            marked : SUBSET Rows,      \* rows it has locked and will write
            viewed : SUBSET Rows,      \* rows its serializable snapshot matches
            dirty : SUBSET Rows]       \* rows changed after that snapshot

IdleRequest == [pc |-> "idle", kind |-> "none", token |-> None, session |-> None,
                device |-> None, cred |-> 0, pending |-> {}, marked |-> {},
                viewed |-> {}, dirty |-> {}]

LiveSessions == {s \in SessionIds : sess[s].state = "live"}

LiveTokens(S) == {t \in TokenIds : tok[t].state = "live" /\ tok[t].session \in S}

\* The unique index on activeKey.
KeyIgnored(d) == FALSE

KeyTaken(d) == \E s \in SessionIds : sess[s].keyed /\ sess[s].device = d

IsFree(row, p) == owner[row] \in {None, p}

\* The insert of a row that refers to this one waits: a transaction deletes it, or
\* changes a unique column of it (the finalizer's email scrub).
KeyLocked(row) == \E q \in Procs : owner[row] = q /\ req[q].kind = "finalize"

\* A revocation has begun that misses the tokens created from now on.
IsBeingRevoked(s) ==
    sess[s].state # "live" \/ owner[s] # None \/ \E q \in Procs : s \in req[q].viewed

Unlocked(p) == [row \in Rows |-> IF owner[row] = p THEN None ELSE owner[row]]

\* Password change and reset run SERIALIZABLE; everything else READ COMMITTED.
IsSerializable(q) == req[q].kind \in {"reset", "change"}

\* p commits rows W and goes on as r; running snapshots do not see W.
Commits(p, W, r) ==
    /\ owner' = Unlocked(p)
    /\ req' = [q \in Procs |->
                 IF q = p THEN r
                 ELSE IF IsSerializable(q) /\ req[q].pc # "begin"
                      THEN [req[q] EXCEPT !.dirty = @ \cup W]
                      ELSE req[q]]

\* p ends without writing (an early return, an error, a rollback).
Ends(p) == Commits(p, {}, IdleRequest)

Goes(p, r) ==
    /\ req' = [req EXCEPT ![p] = r]
    /\ UNCHANGED <<account, sess, tok, owner>>

\* A revocation transaction of one session, on behalf of a running request.
RevokingOne(p, s) == [req[p] EXCEPT !.pc = "begin", !.session = s]

(***************************************************************************)
(* Login with a password.                                                  *)
(***************************************************************************)

\* findUserForLogin, the password check and the status checks pass; a login that
\* fails them changes nothing.
Login(p, d) ==
    /\ "login" \in Kinds
    /\ req[p].pc = "idle"
    /\ account.status = "ACTIVE"
    /\ Goes(p, [IdleRequest EXCEPT !.pc = IF d = None THEN "create" ELSE "device",
                                   !.kind = "login", !.device = d, !.cred = account.cred])

\* revokeActiveSessionForDevice: the read that finds the previous session.
DeviceLookup(p) ==
    LET previous == {s \in LiveSessions : sess[s].keyed /\ sess[s].device = req[p].device}
    IN  /\ req[p].pc = "device"
        /\ \/ \E s \in previous : Goes(p, RevokingOne(p, s))
           \/ previous = {} /\ Goes(p, [req[p] EXCEPT !.pc = "create"])

\* session.create: a second login of the device may have been faster.
CreateSession(p) ==
    /\ req[p].pc = "create"
    /\ ~KeyTaken(req[p].device)
    /\ ~KeyLocked(UserRow)
    /\ \E s \in SessionIds :
          /\ sess[s].state = "free"
          /\ sess' = [sess EXCEPT ![s] = [state |-> "live", device |-> req[p].device,
                                          keyed |-> req[p].device # None,
                                          cred |-> req[p].cred, expired |-> FALSE]]
          /\ Commits(p, {s}, [req[p] EXCEPT !.pc = "token", !.session = s])
    /\ UNCHANGED <<account, tok>>

\* P2002 on activeKey: nobody handles it.  A row whose key is just being
\* cleared by a running transaction is waited for.
CreateSessionFails(p) ==
    /\ req[p].pc = "create"
    /\ \E s \in SessionIds : /\ sess[s].keyed /\ sess[s].device = req[p].device
                             /\ owner[s] = None
    /\ Ends(p)
    /\ UNCHANGED <<account, sess, tok>>

\* createRefreshToken: the session may have been revoked meanwhile, but must
\* still exist (foreign key).
CreateToken(p) ==
    /\ req[p].pc = "token"
    /\ ~KeyLocked(req[p].session)
    /\ IF sess[req[p].session].state = "deleted"
       THEN tok' = tok /\ Ends(p)
       ELSE \E t \in TokenIds :
              /\ tok[t].state = "free"
              /\ tok' = [tok EXCEPT ![t] =
                    [state |-> "live", session |-> req[p].session,
                     late |-> IsBeingRevoked(req[p].session)]]
              /\ Commits(p, {t}, IdleRequest)
    /\ UNCHANGED <<account, sess>>

(***************************************************************************)
(* Refresh.                                                                *)
(***************************************************************************)

\* A client presents a token it was given, however old:
\* findRefreshTokenWithSession and the checks on its answer; a refusal changes
\* nothing.  (Token and session expire together, and both reads of a refresh use one
\* clock value.)
Refresh(p, t) ==
    LET s == tok[t].session
    IN  /\ "refresh" \in Kinds
        /\ req[p].pc = "idle"
        /\ tok[t].state \notin {"free", "deleted"}
        /\ account.status = "ACTIVE"
        /\ sess[s].state = "live" /\ ~sess[s].expired
        /\ Goes(p, [IdleRequest EXCEPT
                      !.pc = IF tok[t].state = "live" THEN "rotate" ELSE "begin",
                      !.kind = "refresh", !.token = t,
                      !.session = IF tok[t].state = "live" THEN None ELSE s])

\* The second read, by rotateRefreshToken, still outside the transaction.
RotateLookup(p) ==
    LET t == req[p].token   s == tok[req[p].token].session
    IN  /\ req[p].pc = "rotate"
        /\ IF tok[t].state = "deleted" \/ sess[s].state # "live"
           THEN Ends(p) /\ UNCHANGED <<account, sess, tok>>
           ELSE Goes(p, IF tok[t].state = "live"
                        THEN [req[p] EXCEPT !.pc = "spend", !.session = s]
                        ELSE RevokingOne(p, s))

\* refreshToken.updateMany where id, revokedAt: null, replacedById: null: waits
\* for the row lock and then looks again.  Nothing matched means reuse.
SpentAnyway(t) == TRUE

StillUnspent(t) == tok[t].state = "live"

SpendToken(p) ==
    LET t == req[p].token
    IN  /\ req[p].pc = "spend"
        /\ IsFree(t, p)
        /\ IF StillUnspent(t)
           THEN /\ owner' = [owner EXCEPT ![t] = p]
                /\ req' = [req EXCEPT ![p].pc = "touch"]
                /\ UNCHANGED <<account, sess, tok>>
           ELSE Goes(p, RevokingOne(p, req[p].session))

\* session.update (lastSeenAt) and the commit of the rotation.
TouchSkipped(p, s) == TRUE

CanTouch(p, s) == IsFree(s, p)

CommitRotation(p) ==
    LET t == req[p].token   s == req[p].session
    IN  /\ req[p].pc = "touch"
        /\ CanTouch(p, s)
        /\ sess[s].state # "deleted"
        /\ \E n \in TokenIds :
              /\ tok[n].state = "free"
              /\ tok' = [tok EXCEPT ![t].state = "spent",
                                    ![n] = [tok[t] EXCEPT !.state = "live"]]
              /\ Commits(p, {t, n, s}, IdleRequest)
        /\ UNCHANGED <<account, sess>>

(***************************************************************************)
(* Everything that revokes sessions.                                       *)
(***************************************************************************)

\* POST /auth/logout with any token that was ever issued.
Logout(p, t) ==
    /\ "logout" \in Kinds
    /\ req[p].pc = "idle"
    /\ tok[t].state \notin {"free", "deleted"}
    /\ Goes(p, [IdleRequest EXCEPT !.pc = "begin", !.kind = "logout",
                                   !.session = tok[t].session])

\* POST /me/sessions/:id/revoke; the access token may outlive its session.
RevokeSession(p, s) ==
    /\ "revoke" \in Kinds
    /\ req[p].pc = "idle"
    /\ account.status # "DELETED"
    /\ sess[s].state \in {"live", "revoked"}
    /\ Goes(p, [IdleRequest EXCEPT !.pc = "begin", !.kind = "revoke", !.session = s])

\* Password reset with a valid one-time token.
ResetPassword(p) ==
    /\ "reset" \in Kinds
    /\ req[p].pc = "idle"
    /\ account.status # "DELETED"
    /\ Goes(p, [IdleRequest EXCEPT !.pc = "begin", !.kind = "reset"])

\* Password change from session s; the hash it verified is expected later.
ChangePassword(p, s) ==
    /\ "change" \in Kinds
    /\ req[p].pc = "idle"
    /\ account.status # "DELETED"
    /\ sess[s].state \in {"live", "revoked"}
    /\ Goes(p, [IdleRequest EXCEPT !.pc = "begin", !.kind = "change", !.session = s,
                                   !.cred = account.cred])

\* The transactions of module UserLifecycle, from where their update starts.
SuspendUser(p) ==
    /\ "suspend" \in Kinds
    /\ req[p].pc = "idle"
    /\ account.status = "ACTIVE"
    /\ Goes(p, [IdleRequest EXCEPT !.pc = "begin", !.kind = "suspend"])

FinalizeDeletion(p) ==
    /\ "finalize" \in Kinds
    /\ req[p].pc = "idle"
    /\ account.status # "DELETED"
    /\ Goes(p, [IdleRequest EXCEPT !.pc = "begin", !.kind = "finalize"])

UserRowOnly(kind) == IF kind \in {"suspend", "finalize"} THEN {UserRow} ELSE {}

AccountRows(kind) == CASE kind \in {"reset", "change"} -> {CredRow}
                       [] kind = "suspend"  -> {UserRow}
                       [] kind = "finalize" -> {UserRow, CredRow}
                       [] OTHER -> {}

\* The sessions and the tokens a revocation's WHERE clauses match.
SessionScope(r) ==
    CASE r.kind \in {"reset", "suspend"} -> LiveSessions
      [] r.kind = "change" -> LiveSessions \ {r.session}
      [] r.kind = "finalize" -> {s \in SessionIds : sess[s].state \in {"live", "revoked"}}
      [] OTHER -> {r.session}

TokenScope(r) ==
    CASE r.kind \in {"reset", "suspend"} -> LiveTokens(SessionIds)
      [] r.kind = "change" -> LiveTokens(LiveSessions \ {r.session})
      [] r.kind = "finalize" -> {t \in TokenIds : tok[t].state \notin {"free", "deleted"}}
      [] OTHER -> LiveTokens({r.session})

\* The one-time token and the credential go with the account; a password change
\* compares the hash it verified; a second finalizer finds nothing to do.
IsRefused(r) ==
    \/ r.kind \in {"reset", "change", "finalize"} /\ account.status = "DELETED"
    \/ r.kind = "change" /\ r.cred # account.cred

\* BEGIN and the reads; a serializable transaction takes its snapshot here.
BeginRevocation(p) ==
    LET r == req[p]
    IN  /\ r.pc = "begin"
        /\ IF IsRefused(r)
           THEN Ends(p) /\ UNCHANGED <<account, sess, tok>>
           ELSE /\ r.kind \in {"reset", "change"} => account.cred < MaxCred   \* bound
                /\ Goes(p, [r EXCEPT
                     !.pc = "account",
                     !.pending = AccountRows(r.kind),
                     !.viewed = IF IsSerializable(p) THEN SessionScope(r) \cup TokenScope(r)
                                                     ELSE {}])

ConflictIgnored(p, row) == IsFree(row, p)

\* A serializable transaction may not write a row that changed after its snapshot.
CanWrite(p, row) == IsFree(row, p) /\ row \notin req[p].dirty

\* A statement has locked a row, and will write it if its condition still holds.
Visited(r, row, matches) ==
    [r EXCEPT !.pending = @ \ {row}, !.marked = @ \cup matches]

Visits(p, row, matches) ==
    /\ row \in req[p].pending
    /\ CanWrite(p, row)
    /\ owner' = [owner EXCEPT ![row] = p]
    /\ req' = [req EXCEPT ![p] = Visited(req[p], row, matches)]
    /\ UNCHANGED <<account, sess, tok>>

\* The update of the User and the PasswordCredential row.
LockAccount(p) ==
    /\ req[p].pc = "account"
    /\ \E row \in req[p].pending : Visits(p, row, {row})

\* The sessions statement starts: a fresh snapshot at READ COMMITTED.
ReadSessions(p) ==
    /\ req[p].pc = "account"
    /\ req[p].pending = {}
    /\ Goes(p, [req[p] EXCEPT !.pc = "sessions",
                    !.pending = IF IsSerializable(p) THEN req[p].viewed \cap SessionIds
                                                     ELSE SessionScope(req[p])])

\* session.updateMany (deleteMany) reaches a row; the kinds that filter on
\* revokedAt look again after a wait.
StillRevocable(kind, s) ==
    IF kind \in {"suspend", "reset", "change"} THEN sess[s].state = "live"
    ELSE sess[s].state \in {"live", "revoked"}

LockSession(p, s) ==
    /\ req[p].pc = "sessions"
    /\ Visits(p, s, {x \in {s} : StillRevocable(req[p].kind, x)})

\* The tokens statement starts: a fresh snapshot at READ COMMITTED.
ReadTokens(p) ==
    /\ req[p].pc = "sessions"
    /\ req[p].pending = {}
    /\ Goes(p, [req[p] EXCEPT !.pc = "tokens",
                    !.pending = IF IsSerializable(p) THEN req[p].viewed \cap TokenIds
                                                     ELSE TokenScope(req[p])])

LockToken(p, t) ==
    /\ req[p].pc = "tokens"
    /\ Visits(p, t, {x \in {t} : req[p].kind = "finalize" \/ tok[x].state = "live"})

\* What the writes of one revocation leave of a session and of a token.
RevokedSession(kind, row) ==
    [row EXCEPT !.state = IF kind = "finalize" THEN "deleted" ELSE "revoked",
                !.keyed = FALSE]

RevokedToken(kind, row) ==
    [row EXCEPT !.state = IF kind = "finalize" THEN "deleted" ELSE "revoked"]

CommitRevocation(p) ==
    LET r == req[p]
    IN  /\ r.pc = "tokens"
        /\ r.pending = {}
        /\ account' = CASE r.kind = "suspend"  -> [account EXCEPT !.status = "SUSPENDED"]
                        [] r.kind = "finalize" -> [account EXCEPT !.status = "DELETED"]
                        [] r.kind \in {"reset", "change"} -> [account EXCEPT !.cred = @ + 1]
                        [] OTHER -> account
        /\ sess' = [s \in SessionIds |->
                      IF s \in r.marked THEN RevokedSession(r.kind, sess[s])
                      ELSE IF r.kind = "change" /\ s = r.session
                           THEN [sess[s] EXCEPT !.cred = account.cred + 1]
                           ELSE sess[s]]
        /\ tok' = [t \in TokenIds |-> IF t \in r.marked THEN RevokedToken(r.kind, tok[t])
                                                        ELSE tok[t]]
        /\ Commits(p, r.marked, IF r.kind = "login"
                                THEN [IdleRequest EXCEPT !.pc = "create", !.kind = "login",
                                          !.device = r.device, !.cred = r.cred]
                                ELSE IdleRequest)

(***************************************************************************)
(* Failures and time.                                                      *)
(***************************************************************************)

\* 40001: the whole serializable transaction starts over (or gives up: Fail).
RetrySerializable(p) ==
    /\ req[p].pc \in {"account", "sessions", "tokens"}
    /\ \E row \in req[p].pending : IsFree(row, p) /\ row \in req[p].dirty
    /\ Commits(p, {}, [IdleRequest EXCEPT !.pc = "begin", !.kind = req[p].kind,
                           !.session = req[p].session, !.cred = req[p].cred])
    /\ UNCHANGED <<account, sess, tok>>

\* A crash, a timeout, an error of the token signer, or a deadlock (rotations
\* and revocations lock in opposite orders; these transactions do not retry).
Fail(p) ==
    /\ req[p].pc # "idle"
    /\ Ends(p)
    /\ UNCHANGED <<account, sess, tok>>

\* The expiry of a revoked session is never looked at.
SessionExpires(s) ==
    /\ sess[s].state = "live"
    /\ ~sess[s].expired
    /\ sess' = [sess EXCEPT ![s].expired = TRUE]
    /\ UNCHANGED <<account, tok, owner, req>>

Next ==
    \/ \E p \in Procs :
          \/ \E d \in Devices \cup {None} : Login(p, d)
          \/ DeviceLookup(p)
          \/ CreateSession(p)
          \/ CreateSessionFails(p)
          \/ CreateToken(p)
          \/ \E t \in TokenIds : Refresh(p, t)
          \/ RotateLookup(p)
          \/ SpendToken(p)
          \/ CommitRotation(p)
          \/ \E t \in TokenIds : Logout(p, t)
          \/ \E s \in SessionIds : RevokeSession(p, s)
          \/ ResetPassword(p)
          \/ \E s \in SessionIds : ChangePassword(p, s)
          \/ SuspendUser(p)
          \/ FinalizeDeletion(p)
          \/ BeginRevocation(p)
          \/ LockAccount(p)
          \/ ReadSessions(p)
          \/ \E s \in SessionIds : LockSession(p, s)
          \/ ReadTokens(p)
          \/ \E t \in TokenIds : LockToken(p, t)
          \/ CommitRevocation(p)
          \/ RetrySerializable(p)
          \/ Fail(p)
    \/ \E s \in SessionIds : SessionExpires(s)

Init ==
    /\ account = [status |-> "ACTIVE", cred |-> 0]
    /\ sess = [s \in SessionIds |-> FreeSession]
    /\ tok = [t \in TokenIds |-> FreeToken]
    /\ owner = [row \in Rows |-> None]
    /\ req = [p \in Procs |-> IdleRequest]

Spec == Init /\ [][Next]_vars

-----------------------------------------------------------------------------
(***************************************************************************)
(* Properties.                                                             *)
(***************************************************************************)

\* Every variable has its type.
TypeOK ==
    /\ account \in Account
    /\ sess \in [SessionIds -> Session]
    /\ tok \in [TokenIds -> Token]
    /\ owner \in [Rows -> Procs \cup {None}]
    /\ req \in [Procs -> Request]

\* A rotation in flight never hands out a token that outlives the revocation of
\* its session.  The exception is a login that creates its first token while the
\* session is being revoked already: that token is not revoked, and the login, or
\* one rotation that was past its checks, still answers with success.
RevokedSessionsHaveNoToken ==
    \A t \in TokenIds :
        tok[t].state = "live" /\ ~tok[t].late => sess[tok[t].session].state = "live"

\* A device has one live session: the previous one is retired first, and of two
\* simultaneous logins one fails.
OneSessionPerDevice ==
    \A s1, s2 \in LiveSessions :
        s1 # s2 /\ sess[s1].device # None => sess[s1].device # sess[s2].device

\* After a successful reset no session opened with the old password is live.
ResetEndsOldSessions == \A s \in LiveSessions : sess[s].cred = account.cred

\* The promise to clients: each session is a family with one exchangeable token.
FamilyState ==
    [s \in SessionIds |-> CASE sess[s].state = "free" -> "none"
                            [] sess[s].state = "live" -> "alive"
                            [] OTHER -> "dead"]

FamilyTip ==
    [s \in SessionIds |-> IF sess[s].state = "live" THEN LiveTokens({s}) ELSE {}]

FamilyIssued == [s \in SessionIds |-> {t \in TokenIds : tok[t].session = s}]

Families == INSTANCE TokenFamilies WITH
    Families <- SessionIds, Tokens <- TokenIds,
    state <- FamilyState, tip <- FamilyTip, issued <- FamilyIssued

\* Sessions implements TokenFamilies.
RefinesTokenFamilies == Families!Spec
=============================================================================

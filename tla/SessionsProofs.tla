---------------------------- MODULE SessionsProofs ----------------------------
(* Proofs about Sessions, for any number of sessions, tokens and requests. *)
EXTENDS Sessions, TLAPS

-----------------------------------------------------------------------------
(* The inductive invariant. *)

Retiring == {"account", "sessions", "tokens"}

\* The kinds that revoke more than one given session, and those that are serializable.
Wide == {"reset", "change", "suspend", "finalize"}
Serial == {"reset", "change"}

\* t is a live token of s, and none of those that come too late.
Current(t, s, tk) == tk[t].state = "live" /\ ~tk[t].late /\ tk[t].session = s

\* What the running statements of request r of p rely on: the rows they name are used...
Names(r, se, tk) ==
    /\ r.pc = "token" => r.session \in SessionIds /\ se[r.session].state # "free"
    /\ r.pc \in {"rotate", "spend", "touch"} =>
           r.token \in TokenIds /\ tk[r.token].state # "free"
    /\ r.pc \in {"spend", "touch"} => r.session = tk[r.token].session
    /\ r.pc \in Retiring \cup {"begin"} /\ r.kind \notin Wide => r.session \in SessionIds

\* ...the rows they have marked are locked, and so is the token a rotation has spent...
Locks(p, r, se, tk, own) ==
    /\ r.pc = "touch" => own[r.token] = p /\ tk[r.token].state = "live"
    /\ r.pc \notin Retiring => r.marked = {}
    /\ \A row \in r.marked : own[row] = p
    /\ \A s \in r.marked \cap SessionIds : se[s].state # "free"
    /\ \A t \in r.marked \cap TokenIds : tk[t].state # "free"
    /\ r.pc = "tokens" => \A t \in r.pending \cap TokenIds : tk[t].state # "free"

\* ...they go from the account to the sessions to the tokens...
Phases(r) ==
    /\ r.pc = "account" =>
           r.pending \subseteq {UserRow, CredRow} /\ r.marked \subseteq {UserRow, CredRow}
    /\ r.pc = "sessions" => r.pending \subseteq SessionIds
    /\ r.pc = "tokens" => r.pending \subseteq TokenIds
    /\ r.kind \notin Wide /\ r.pc \in Retiring => r.marked \cap SessionIds \subseteq {r.session}
    /\ r.kind \notin Wide /\ r.pc = "sessions" => r.pending \subseteq {r.session}

\* ...a snapshot has every token of the sessions it has, or a session in it has changed...
Snapshot(r, ac, tk) ==
    r.kind \in Serial /\ r.pc \in Retiring =>
        /\ \A t \in r.viewed \cap TokenIds : tk[t].state # "free"
        /\ r.marked \cap SessionIds \subseteq r.viewed
        /\ r.pc = "sessions" => r.pending \subseteq r.viewed
        /\ \A row \in r.marked \cap (SessionIds \cup {CredRow}) : row \notin r.dirty
        /\ \A s \in r.viewed \cap SessionIds, t \in TokenIds :
               Current(t, s, tk) => t \in r.viewed \/ s \in r.dirty
        /\ r.pc = "tokens" => \A t \in r.viewed \cap TokenIds :
               tk[t].state = "live" => t \in r.pending \cup r.marked
        /\ \/ CredRow \in r.marked
           \/ r.pc = "account" /\ CredRow \in r.pending
        /\ ac.cred < MaxCred \/ CredRow \in r.dirty

\* ...and a revocation that has read the tokens misses none of the sessions it has locked.
Covers(r, tk) ==
    r.kind \notin Serial /\ r.pc = "tokens" =>
        \A s \in r.marked \cap SessionIds, t \in TokenIds :
            Current(t, s, tk) => t \in r.pending \cup r.marked

RequestOK(p, r, ac, se, tk, own) ==
    Names(r, se, tk) /\ Locks(p, r, se, tk, own) /\ Phases(r) /\ Snapshot(r, ac, tk)
    /\ Covers(r, tk)

\* A token that is used has a session that is used.
TokensBelong ==
    \A t \in TokenIds : tok[t].state # "free" =>
        tok[t].session \in SessionIds /\ sess[tok[t].session].state # "free"

CurrentLive(se, tk) ==
    \A t \in TokenIds, s \in SessionIds : Current(t, s, tk) => se[s].state = "live"

Inv == /\ TypeOK /\ TokensBelong /\ CurrentLive(sess, tok)
       /\ \A p \in Procs : RequestOK(p, req[p], account, sess, tok, owner)

-----------------------------------------------------------------------------
(* Requests. *)

LEMMA Idle ==
    /\ IdleRequest \in Request /\ IdleRequest.pc = "idle" /\ IdleRequest.marked = {}
    /\ IdleRequest.kind = "none"
BY CredAssumption DEF IdleRequest, Request

\* A request that has neither locks nor rows to name.
LEMMA Quiet ==
    ASSUME NEW p, NEW r, NEW ac, NEW se, NEW tk, NEW own,
           r.pc \in {"idle", "device", "create"}, r.marked = {}
    PROVE  RequestOK(p, r, ac, se, tk, own)
BY DEF RequestOK, Names, Locks, Phases, Snapshot, Covers, Retiring

\* A request that is about to begin a revocation.
LEMMA Beginning ==
    ASSUME NEW p, NEW r, NEW ac, NEW se, NEW tk, NEW own,
           r.pc = "begin", r.marked = {}, r.kind \notin Wide => r.session \in SessionIds
    PROVE  RequestOK(p, r, ac, se, tk, own)
BY DEF RequestOK, Names, Locks, Phases, Snapshot, Covers, Retiring

\* A request goes on, perhaps with more locks, and nothing is written.
LEMMA GoesOn ==
    ASSUME Inv, NEW p \in Procs, NEW r \in Request, req' = [req EXCEPT ![p] = r],
           UNCHANGED <<account, sess, tok>>, owner' \in [Rows -> Procs \cup {None}],
           \A row \in Rows : owner[row] \notin {None, p} => owner'[row] = owner[row],
           RequestOK(p, r, account, sess, tok, owner')
    PROVE  Inv'
<1>1. TypeOK'
  BY DEF Inv, TypeOK
<1>2. TokensBelong' /\ CurrentLive(sess', tok')
  BY DEF Inv, TokensBelong, CurrentLive
<1>3. ASSUME NEW q \in Procs \ {p} PROVE RequestOK(q, req[q], account, sess, tok, owner')
  <2>1. RequestOK(q, req[q], account, sess, tok, owner) /\ req[q] \in Request
    BY DEF Inv, TypeOK
  <2>2. \A row \in Rows : owner[row] = q => owner'[row] = q
    BY RowsAssumption
  <2>3. Locks(q, req[q], sess, tok, owner')
    BY <2>1, <2>2 DEF RequestOK, Locks, Names, Request, Rows
  <2> QED
    BY <2>1, <2>3 DEF RequestOK
<1>4. ASSUME NEW q \in Procs PROVE RequestOK(q, req'[q], account', sess', tok', owner')
  <2>1. CASE q = p
    BY <2>1 DEF Inv, TypeOK
  <2>2. CASE q # p
    <3>1. req'[q] = req[q]
      BY <2>2 DEF Inv, TypeOK
    <3> QED
      BY <1>3, <2>2, <3>1
  <2> QED
    BY <2>1, <2>2
<1> QED
  BY <1>1, <1>2, <1>4 DEF Inv

\* What a commit of p that writes rows W may do to the rows others rely on.
Writes(p, W) ==
    /\ \A s \in SessionIds : sess[s].state # "free" => sess'[s].state # "free"
    /\ \A t \in TokenIds : tok[t].state # "free" =>
           /\ tok'[t].state # "free" /\ tok'[t].session = tok[t].session
           /\ tok'[t].state = "live" => tok[t].state = "live"
    /\ \A t \in TokenIds :
           tok[t].state # "free" /\ owner[t] \notin {None, p} => tok'[t] = tok[t]
    /\ \A t \in TokenIds, s \in SessionIds : Current(t, s, tok') =>
           \/ Current(t, s, tok)
           \/ /\ owner[s] \in {None, p}
              /\ s \in W \/ \A q \in Procs : s \notin req[q].viewed
    /\ \A row \in W \cap (SessionIds \cup {CredRow}) :
           \/ owner[row] \in {None, p}
           \/ row \in SessionIds /\ sess[row].state = "free"
    /\ account'.cred = account.cred \/ CredRow \in W

\* p commits; the requests of others still find what they rely on.
LEMMA OthersStand ==
    ASSUME Inv, NEW p \in Procs, NEW W \in SUBSET Rows, NEW r \in Request,
           Commits(p, W, r), Writes(p, W), NEW q \in Procs, q # p
    PROVE  req'[q] \in Request /\ RequestOK(q, req'[q], account', sess', tok', owner')
<1> DEFINE o == req[q]
           n == req'[q]
<1>1. o \in Request /\ RequestOK(q, o, account, sess, tok, owner)
  BY DEF Inv, TypeOK
<1>2. n = IF IsSerializable(q) /\ o.pc # "begin" THEN [o EXCEPT !.dirty = @ \cup W] ELSE o
  BY DEF Commits
<1>3. /\ n \in Request /\ n.pc = o.pc /\ n.kind = o.kind /\ n.token = o.token
      /\ n.session = o.session /\ n.pending = o.pending /\ n.marked = o.marked
      /\ n.viewed = o.viewed
      /\ n.dirty = o.dirty \/ n.dirty = o.dirty \cup W
      /\ o.kind \in Serial /\ o.pc \in Retiring => n.dirty = o.dirty \cup W
  BY <1>1, <1>2 DEF Request, IsSerializable, Serial, Retiring
<1> HIDE DEF n
<1>4. \A row \in Rows : owner[row] = q => owner'[row] = q /\ owner[row] \notin {None, p}
  BY RowsAssumption DEF Commits, Unlocked
<1>5. o.marked \subseteq Rows /\ o.viewed \subseteq Rows
  BY <1>1 DEF Request
<1>6. Names(n, sess', tok')
  BY <1>1, <1>3 DEF RequestOK, Names, Writes
<1>7. Locks(q, n, sess', tok', owner')
  BY <1>1, <1>3, <1>4, <1>5 DEF RequestOK, Names, Locks, Writes, Rows
<1>8. Phases(n)
  BY <1>1, <1>3 DEF RequestOK, Phases
<1>9. ASSUME NEW s \in o.marked \cap SessionIds, NEW t \in TokenIds, Current(t, s, tok')
      PROVE  Current(t, s, tok)
  BY <1>1, <1>4, <1>5, <1>9 DEF RequestOK, Locks, Writes
<1>10. Snapshot(n, account', tok')
  <2> SUFFICES ASSUME n.kind \in Serial, n.pc \in Retiring
               PROVE  Snapshot(n, account', tok')
    BY DEF Snapshot
  <2>1. n.dirty = o.dirty \cup W /\ o.kind \in Serial /\ o.pc \in Retiring
    BY <1>3
  <2>2. \A row \in o.marked \cap (SessionIds \cup {CredRow}) : row \notin W
    BY <1>1, <1>4, <1>5 DEF RequestOK, Locks, Writes
  <2>3. \A s \in o.viewed \cap SessionIds, t \in TokenIds :
            Current(t, s, tok') => t \in o.viewed \/ s \in o.dirty \cup W
    BY <1>1, <2>1 DEF RequestOK, Snapshot, Writes
  <2>4. account'.cred < MaxCred \/ CredRow \in o.dirty \cup W
    BY <1>1, <2>1 DEF RequestOK, Snapshot, Writes
  <2>5. \A t \in o.viewed \cap TokenIds :
            tok[t].state # "free" /\ tok'[t].state # "free"
            /\ (tok'[t].state = "live" => tok[t].state = "live")
    BY <1>1, <2>1 DEF RequestOK, Snapshot, Writes
  <2> QED
    BY <1>1, <1>3, <2>1, <2>2, <2>3, <2>4, <2>5 DEF RequestOK, Snapshot
<1>11. Covers(n, tok')
  BY <1>1, <1>3, <1>9 DEF RequestOK, Covers
<1> QED
  BY <1>3, <1>6, <1>7, <1>8, <1>10, <1>11 DEF RequestOK, n

\* A commit keeps the invariant, if its writes are right and p goes on as it may.
LEMMA CommitKeeps ==
    ASSUME Inv, NEW p \in Procs, NEW W \in SUBSET Rows, NEW r \in Request,
           Commits(p, W, r), Writes(p, W),
           account' \in Account, sess' \in [SessionIds -> Session],
           tok' \in [TokenIds -> Token], TokensBelong', CurrentLive(sess', tok'),
           RequestOK(p, r, account', sess', tok', owner')
    PROVE  Inv'
<1>1. owner' \in [Rows -> Procs \cup {None}]
  BY DEF Inv, TypeOK, Commits, Unlocked
<1>2. req'[p] = r
  BY DEF Commits
<1>3. \A q \in Procs : req'[q] \in Request
                       /\ RequestOK(q, req'[q], account', sess', tok', owner')
  BY <1>2, OthersStand
<1>4. req' \in [Procs -> Request]
  BY <1>3 DEF Commits
<1> QED
  BY <1>1, <1>3, <1>4 DEF Inv, TypeOK

\* p ends and nothing is written.
LEMMA EndKeeps ==
    ASSUME Inv, NEW p \in Procs, NEW r \in Request, Commits(p, {}, r),
           UNCHANGED <<account, sess, tok>>,
           RequestOK(p, r, account, sess, tok, owner')
    PROVE  Inv'
<1>1. Writes(p, {})
  BY DEF Writes
<1>2. /\ account' \in Account /\ sess' \in [SessionIds -> Session]
      /\ tok' \in [TokenIds -> Token] /\ TokensBelong' /\ CurrentLive(sess', tok')
      /\ RequestOK(p, r, account', sess', tok', owner')
  BY DEF Inv, TypeOK, TokensBelong
<1> QED
  BY <1>1, <1>2, CommitKeeps

\* p goes on without a lock or a write.
LEMMA GoesKeeps ==
    ASSUME Inv, NEW p \in Procs, NEW r \in Request, Goes(p, r),
           RequestOK(p, r, account, sess, tok, owner)
    PROVE  Inv'
<1>1. req' = [req EXCEPT ![p] = r] /\ UNCHANGED <<account, sess, tok>> /\ owner' = owner
  BY DEF Goes
<1>2. owner' \in [Rows -> Procs \cup {None}]
  BY <1>1 DEF Inv, TypeOK
<1> QED
  BY <1>1, <1>2, GoesOn

-----------------------------------------------------------------------------
(* The requests begin. *)

LEMMA LoginKeeps ==
    ASSUME Inv, NEW p \in Procs, NEW d \in Devices \cup {None}, Login(p, d) PROVE Inv'
<1> DEFINE r == [IdleRequest EXCEPT !.pc = IF d = None THEN "create" ELSE "device",
                                    !.kind = "login", !.device = d, !.cred = account.cred]
<1>1. r \in Request /\ r.pc \in {"device", "create"} /\ r.marked = {}
  BY Idle DEF Request, AllKinds, Inv, TypeOK, Account
<1>2. Goes(p, r)
  BY DEF Login
<1> HIDE DEF r
<1> QED
  BY <1>1, <1>2, Quiet, GoesKeeps

LEMMA RefreshKeeps ==
    ASSUME Inv, NEW p \in Procs, NEW t \in TokenIds, Refresh(p, t) PROVE Inv'
<1> DEFINE s == tok[t].session
           live == tok[t].state = "live"
           r == [IdleRequest EXCEPT !.pc = IF live THEN "rotate" ELSE "begin",
                                    !.kind = "refresh", !.token = t,
                                    !.session = IF live THEN None ELSE s]
<1>1. tok[t].state # "free" /\ s \in SessionIds /\ sess[s].state # "free"
  BY DEF Refresh, Inv, TokensBelong
<1>2. /\ r \in Request /\ r.marked = {} /\ r.token = t /\ r.kind = "refresh"
      /\ \/ r.pc = "rotate"
         \/ r.pc = "begin" /\ r.session = s
  BY <1>1, Idle DEF Request, AllKinds
<1>3. Goes(p, r)
  BY DEF Refresh
<1> HIDE DEF r
<1>4. CASE r.pc = "rotate"
  <2>1. RequestOK(p, r, account, sess, tok, owner)
    BY <1>1, <1>2, <1>4
       DEF RequestOK, Names, Locks, Phases, Snapshot, Covers, Retiring
  <2> QED
    BY <1>2, <1>3, <2>1, GoesKeeps
<1>5. CASE r.pc = "begin"
  <2>1. RequestOK(p, r, account, sess, tok, owner)
    BY <1>1, <1>2, <1>5, Beginning
  <2> QED
    BY <1>2, <1>3, <2>1, GoesKeeps
<1> QED
  BY <1>2, <1>4, <1>5

LEMMA BeginningsKeep ==
    ASSUME Inv, NEW p \in Procs,
           \/ \E t \in TokenIds : Logout(p, t)
           \/ \E s \in SessionIds : RevokeSession(p, s) \/ ChangePassword(p, s)
           \/ ResetPassword(p) \/ SuspendUser(p) \/ FinalizeDeletion(p)
    PROVE  Inv'
<1>1. ASSUME NEW r \in Request, Goes(p, r), r.pc = "begin", r.marked = {},
             r.kind \notin Wide => r.session \in SessionIds
      PROVE  Inv'
  BY <1>1, Beginning, GoesKeeps
<1>2. ASSUME NEW t \in TokenIds, Logout(p, t) PROVE Inv'
  <2> DEFINE r == [IdleRequest EXCEPT !.pc = "begin", !.kind = "logout",
                                      !.session = tok[t].session]
  <2>1. tok[t].session \in SessionIds
    BY <1>2 DEF Logout, Inv, TokensBelong
  <2>2. r \in Request /\ r.pc = "begin" /\ r.marked = {} /\ r.session \in SessionIds
    BY <2>1, Idle DEF Request, AllKinds
  <2>3. Goes(p, r)
    BY <1>2 DEF Logout
  <2> HIDE DEF r
  <2> QED
    BY <1>1, <2>2, <2>3
<1>3. ASSUME NEW s \in SessionIds, RevokeSession(p, s) PROVE Inv'
  <2> DEFINE r == [IdleRequest EXCEPT !.pc = "begin", !.kind = "revoke", !.session = s]
  <2>1. r \in Request /\ r.pc = "begin" /\ r.marked = {} /\ r.session \in SessionIds
    BY Idle DEF Request, AllKinds
  <2>2. Goes(p, r)
    BY <1>3 DEF RevokeSession
  <2> HIDE DEF r
  <2> QED
    BY <1>1, <2>1, <2>2
<1>4. ASSUME NEW s \in SessionIds, ChangePassword(p, s) PROVE Inv'
  <2> DEFINE r == [IdleRequest EXCEPT !.pc = "begin", !.kind = "change", !.session = s,
                                      !.cred = account.cred]
  <2>1. r \in Request /\ r.pc = "begin" /\ r.marked = {} /\ r.session \in SessionIds
    BY Idle DEF Request, AllKinds, Inv, TypeOK, Account
  <2>2. Goes(p, r)
    BY <1>4 DEF ChangePassword
  <2> HIDE DEF r
  <2> QED
    BY <1>1, <2>1, <2>2
<1>5. ASSUME NEW k \in {"reset", "suspend", "finalize"},
             Goes(p, [IdleRequest EXCEPT !.pc = "begin", !.kind = k])
      PROVE  Inv'
  <2> DEFINE r == [IdleRequest EXCEPT !.pc = "begin", !.kind = k]
  <2>1. r \in Request /\ r.pc = "begin" /\ r.marked = {} /\ r.kind \in Wide
    BY Idle DEF Request, AllKinds, Wide
  <2> HIDE DEF r
  <2> QED
    BY <1>1, <1>5, <2>1 DEF r
<1>6. CASE ResetPassword(p) \/ SuspendUser(p) \/ FinalizeDeletion(p)
  BY <1>5, <1>6 DEF ResetPassword, SuspendUser, FinalizeDeletion
<1> QED
  BY <1>2, <1>3, <1>4, <1>6

-----------------------------------------------------------------------------
(* Lookups of a login and of a rotation, and requests that end. *)

\* p is about to revoke one session.
LEMMA RevokingOneKeeps ==
    ASSUME Inv, NEW p \in Procs, NEW s \in SessionIds, req[p].pc \notin Retiring,
           Goes(p, RevokingOne(p, s))
    PROVE  Inv'
<1> DEFINE r == RevokingOne(p, s)
<1>1. req[p] \in Request /\ req[p].marked = {}
  BY DEF Inv, TypeOK, RequestOK, Locks
<1>2. r \in Request /\ r.pc = "begin" /\ r.marked = {} /\ r.session = s
  BY <1>1 DEF RevokingOne, Request
<1> HIDE DEF r
<1>3. RequestOK(p, r, account, sess, tok, owner)
  BY <1>2, Beginning
<1> QED
  BY <1>2, <1>3, GoesKeeps DEF r

LEMMA DeviceLookupKeeps ==
    ASSUME Inv, NEW p \in Procs, DeviceLookup(p) PROVE Inv'
<1>1. CASE \E s \in LiveSessions : Goes(p, RevokingOne(p, s))
  BY <1>1, RevokingOneKeeps DEF DeviceLookup, LiveSessions, Retiring
<1>2. CASE Goes(p, [req[p] EXCEPT !.pc = "create"])
  <2> DEFINE r == [req[p] EXCEPT !.pc = "create"]
  <2>1. req[p] \in Request /\ req[p].marked = {}
    BY DEF DeviceLookup, Inv, TypeOK, RequestOK, Locks, Retiring
  <2>2. r \in Request /\ r.pc = "create" /\ r.marked = {}
    BY <2>1 DEF Request
  <2> HIDE DEF r
  <2>3. RequestOK(p, r, account, sess, tok, owner)
    BY <2>2, Quiet
  <2> QED
    BY <1>2, <2>2, <2>3, GoesKeeps DEF r
<1> QED
  BY <1>1, <1>2 DEF DeviceLookup

LEMMA EndsKeeps ==
    ASSUME Inv, NEW p \in Procs, Ends(p), UNCHANGED <<account, sess, tok>> PROVE Inv'
<1>1. RequestOK(p, IdleRequest, account, sess, tok, owner')
  BY Idle, Quiet
<1> QED
  BY <1>1, Idle, EndKeeps DEF Ends

LEMMA RotateLookupKeeps ==
    ASSUME Inv, NEW p \in Procs, RotateLookup(p) PROVE Inv'
<1> DEFINE t == req[p].token
           s == tok[req[p].token].session
           r == [req[p] EXCEPT !.pc = "spend", !.session = s]
<1>1. /\ req[p].pc = "rotate" /\ req[p] \in Request /\ req[p].marked = {}
      /\ t \in TokenIds /\ tok[t].state # "free" /\ s \in SessionIds
  BY DEF RotateLookup, Inv, TypeOK, TokensBelong, RequestOK, Names, Locks, Retiring
<1>2. CASE Ends(p) /\ UNCHANGED <<account, sess, tok>>
  BY <1>2, EndsKeeps
<1>3. CASE Goes(p, RevokingOne(p, s))
  BY <1>1, <1>3, RevokingOneKeeps DEF Retiring
<1>4. CASE Goes(p, r)
  <2>1. /\ r \in Request /\ r.pc = "spend" /\ r.marked = {} /\ r.session = s /\ r.token = t
    BY <1>1 DEF Request
  <2> HIDE DEF r
  <2>2. RequestOK(p, r, account, sess, tok, owner)
    BY <1>1, <2>1 DEF RequestOK, Names, Locks, Phases, Snapshot, Covers, Retiring
  <2> QED
    BY <1>4, <2>1, <2>2, GoesKeeps
<1> QED
  BY <1>2, <1>3, <1>4 DEF RotateLookup

LEMMA SpendTokenKeeps ==
    ASSUME Inv, NEW p \in Procs, SpendToken(p) PROVE Inv'
<1> DEFINE t == req[p].token
           r == [req[p] EXCEPT !.pc = "touch"]
<1>1. /\ req[p].pc = "spend" /\ req[p] \in Request /\ req[p].marked = {}
      /\ t \in TokenIds /\ tok[t].state # "free" /\ req[p].session = tok[t].session
      /\ req[p].session \in SessionIds
  BY DEF SpendToken, Inv, TypeOK, TokensBelong, RequestOK, Names, Locks, Retiring
<1>2. CASE Goes(p, RevokingOne(p, req[p].session))
  BY <1>1, <1>2, RevokingOneKeeps DEF Retiring
<1>3. CASE /\ StillUnspent(t) /\ owner' = [owner EXCEPT ![t] = p] /\ IsFree(t, p)
           /\ req' = [req EXCEPT ![p].pc = "touch"] /\ UNCHANGED <<account, sess, tok>>
  <2>1. req' = [req EXCEPT ![p] = r]
    BY <1>3
  <2>2. /\ r \in Request /\ r.pc = "touch" /\ r.marked = {} /\ r.token = t
        /\ r.session = req[p].session
    BY <1>1 DEF Request
  <2> HIDE DEF r
  <2>3. /\ owner' \in [Rows -> Procs \cup {None}] /\ owner'[t] = p
        /\ \A row \in Rows : owner[row] \notin {None, p} => owner'[row] = owner[row]
    BY <1>1, <1>3 DEF Rows, IsFree, Inv, TypeOK
  <2>4. RequestOK(p, r, account, sess, tok, owner')
    BY <1>1, <1>3, <2>2, <2>3
       DEF RequestOK, Names, Locks, Phases, Snapshot, Covers, Retiring, StillUnspent
  <2> QED
    BY <1>3, <2>1, <2>2, <2>3, <2>4, GoesOn
<1> QED
  BY <1>2, <1>3 DEF SpendToken

LEMMA FailuresKeep ==
    ASSUME Inv, NEW p \in Procs,
           Fail(p) \/ CreateSessionFails(p) \/ RetrySerializable(p)
    PROVE  Inv'
<1>1. CASE Fail(p) \/ CreateSessionFails(p)
  BY <1>1, EndsKeeps DEF Fail, CreateSessionFails
<1>2. CASE RetrySerializable(p)
  <2> DEFINE o == req[p]
             r == [IdleRequest EXCEPT !.pc = "begin", !.kind = o.kind,
                                      !.session = o.session, !.cred = o.cred]
  <2>1. o \in Request /\ (o.kind \notin Wide => o.session \in SessionIds)
    BY <1>2 DEF RetrySerializable, Inv, TypeOK, RequestOK, Names, Retiring
  <2>2. /\ r \in Request /\ r.pc = "begin" /\ r.marked = {} /\ r.kind = o.kind
        /\ r.session = o.session
    BY <2>1, Idle DEF Request
  <2>3. Commits(p, {}, r) /\ UNCHANGED <<account, sess, tok>>
    BY <1>2 DEF RetrySerializable
  <2> HIDE DEF r
  <2>4. RequestOK(p, r, account, sess, tok, owner')
    BY <2>1, <2>2, Beginning
  <2> QED
    BY <2>2, <2>3, <2>4, EndKeeps
<1> QED
  BY <1>1, <1>2

-----------------------------------------------------------------------------
(* A revocation reads and locks. *)

LEMMA Scopes ==
    ASSUME NEW r \in Request, r.kind \notin Wide => r.session \in SessionIds
    PROVE  /\ SessionScope(r) \subseteq SessionIds /\ TokenScope(r) \subseteq TokenIds
           /\ r.kind \notin Wide => SessionScope(r) = {r.session}
           /\ \A t \in TokenScope(r) : tok[t].state # "free"
           /\ \A s \in SessionIds, t \in TokenIds :
                  Current(t, s, tok) /\ (r.kind \in {"suspend", "finalize"} \/ s \in SessionScope(r))
                  => t \in TokenScope(r)
<1> USE DEF SessionScope, TokenScope, LiveSessions, LiveTokens, Current, Wide
<1>1. CASE r.kind \in {"reset", "suspend"}
  BY <1>1
<1>2. CASE r.kind = "change"
  BY <1>2
<1>3. CASE r.kind = "finalize"
  BY <1>3
<1>4. CASE r.kind \notin Wide
  BY <1>4
<1> QED
  BY <1>1, <1>2, <1>3, <1>4

LEMMA BeginRevocationKeeps ==
    ASSUME Inv, NEW p \in Procs, BeginRevocation(p) PROVE Inv'
<1> DEFINE o == req[p]
           scope == IF IsSerializable(p) THEN SessionScope(o) \cup TokenScope(o) ELSE {}
           r == [o EXCEPT !.pc = "account", !.pending = AccountRows(o.kind), !.viewed = scope]
<1>1. /\ o \in Request /\ o.pc = "begin" /\ o.marked = {}
      /\ o.kind \notin Wide => o.session \in SessionIds
  BY DEF BeginRevocation, Inv, TypeOK, RequestOK, Names, Locks, Retiring
<1>2. CASE Ends(p) /\ UNCHANGED <<account, sess, tok>>
  BY <1>2, EndsKeeps
<1>3. CASE Goes(p, r) /\ (o.kind \in {"reset", "change"} => account.cred < MaxCred)
  <2>1. /\ AccountRows(o.kind) \subseteq {UserRow, CredRow}
        /\ o.kind \in Serial => AccountRows(o.kind) = {CredRow}
    BY DEF AccountRows, Serial
  <2>2. /\ scope \subseteq Rows
        /\ o.kind \in Serial => scope = SessionScope(o) \cup TokenScope(o)
    BY <1>1, Scopes DEF Rows, IsSerializable, Serial
  <2> HIDE DEF scope
  <2>3. /\ r \in Request /\ r.pc = "account" /\ r.marked = {} /\ r.kind = o.kind
        /\ r.session = o.session /\ r.pending = AccountRows(o.kind) /\ r.viewed = scope
    BY <1>1, <2>1, <2>2 DEF Request, Rows
  <2> HIDE DEF r
  <2>4. Names(r, sess, tok) /\ Locks(p, r, sess, tok, owner) /\ Phases(r) /\ Covers(r, tok)
    BY <1>1, <2>1, <2>3 DEF Names, Locks, Phases, Covers, Retiring
  <2>5. ASSUME r.kind \in Serial PROVE Snapshot(r, account, tok)
    <3>1. /\ r.viewed = SessionScope(o) \cup TokenScope(o) /\ r.pending = {CredRow}
          /\ account.cred < MaxCred
      BY <1>3, <2>1, <2>2, <2>3, <2>5 DEF Serial
    <3>2. /\ r.viewed \cap TokenIds = TokenScope(o)
          /\ r.viewed \cap SessionIds = SessionScope(o)
      BY <1>1, <3>1, Scopes, RowsAssumption
    <3> QED
      BY <1>1, <2>3, <3>1, <3>2, Scopes DEF Snapshot
  <2>6. Snapshot(r, account, tok)
    BY <2>5 DEF Snapshot
  <2> QED
    BY <1>3, <2>3, <2>4, <2>6, GoesKeeps DEF RequestOK
<1> QED
  BY <1>2, <1>3 DEF BeginRevocation

\* p locks a row it may write, and marks it or not; the rest is as it was.
LEMMA Visiting ==
    ASSUME Inv, NEW p \in Procs, NEW row \in Rows, NEW matches \in SUBSET {row},
           Visits(p, row, matches),
           RequestOK(p, Visited(req[p], row, matches), account, sess, tok, owner')
    PROVE  Inv'
<1> DEFINE r == Visited(req[p], row, matches)
<1>1. req[p] \in Request /\ req' = [req EXCEPT ![p] = r] /\ UNCHANGED <<account, sess, tok>>
  BY DEF Visits, Inv, TypeOK
<1>2. r \in Request
  BY <1>1 DEF Visited, Request
<1>3. /\ owner' \in [Rows -> Procs \cup {None}]
      /\ \A w \in Rows : owner[w] \notin {None, p} => owner'[w] = owner[w]
  BY DEF Visits, CanWrite, IsFree, Inv, TypeOK
<1> HIDE DEF r
<1> QED
  BY <1>1, <1>2, <1>3, GoesOn DEF r

\* Request o of p has become r.
Follows(o, r, row, matches, p) ==
    /\ r.pc = o.pc /\ r.kind = o.kind /\ r.session = o.session
    /\ r.token = o.token /\ r.viewed = o.viewed /\ r.dirty = o.dirty
    /\ r.pending = o.pending \ {row} /\ r.marked = o.marked \cup matches
    /\ row \in o.pending /\ row \notin o.dirty /\ owner'[row] = p
    /\ o.marked \subseteq Rows /\ \A w \in o.marked : owner'[w] = p
    /\ RequestOK(p, o, account, sess, tok, owner)

LEMMA AfterVisit ==
    ASSUME Inv, NEW p \in Procs, NEW row \in Rows, NEW matches \in SUBSET {row},
           Visits(p, row, matches), req[p].pc \in Retiring
    PROVE  Follows(req[p], Visited(req[p], row, matches), row, matches, p)
<1>1. /\ req[p] \in Request /\ RequestOK(p, req[p], account, sess, tok, owner)
      /\ \A w \in req[p].marked : owner[w] = p
  BY DEF Inv, TypeOK, RequestOK, Locks
<1>2. req[p].marked \subseteq Rows
  BY <1>1 DEF Request
<1>3. /\ row \in req[p].pending /\ row \notin req[p].dirty
      /\ owner' = [owner EXCEPT ![row] = p] /\ owner \in [Rows -> Procs \cup {None}]
  BY DEF Visits, CanWrite, Inv, TypeOK
<1> QED
  BY <1>1, <1>2, <1>3 DEF Follows, Visited, Request

LEMMA LockAccountKeeps ==
    ASSUME Inv, NEW p \in Procs, LockAccount(p) PROVE Inv'
<1> DEFINE o == req[p]
<1>1. PICK row \in o.pending : Visits(p, row, {row})
  BY DEF LockAccount
<1> DEFINE r == Visited(o, row, {row})
<1>2. o.pc = "account" /\ row \in {UserRow, CredRow} /\ row \in Rows
  BY DEF LockAccount, Inv, RequestOK, Phases, Rows
<1>3. Follows(o, r, row, {row}, p)
  BY <1>1, <1>2, AfterVisit DEF Retiring
<1> HIDE DEF r
<1>4. Names(r, sess, tok) /\ Phases(r) /\ Covers(r, tok)
  BY <1>2, <1>3, RowsAssumption DEF Follows, RequestOK, Names, Phases, Covers, Retiring
<1>5. Locks(p, r, sess, tok, owner')
  BY <1>2, <1>3, RowsAssumption DEF Follows, RequestOK, Locks, Retiring
<1>6. Snapshot(r, account, tok)
  BY <1>2, <1>3, RowsAssumption DEF Follows, RequestOK, Snapshot, Retiring
<1> QED
  BY <1>1, <1>2, <1>4, <1>5, <1>6, Visiting DEF RequestOK, r

LEMMA ReadSessionsKeeps ==
    ASSUME Inv, NEW p \in Procs, ReadSessions(p) PROVE Inv'
<1> DEFINE o == req[p]
           scope == IF IsSerializable(p) THEN o.viewed \cap SessionIds ELSE SessionScope(o)
           r == [o EXCEPT !.pc = "sessions", !.pending = scope]
<1>1. /\ o \in Request /\ o.pc = "account" /\ RequestOK(p, o, account, sess, tok, owner)
      /\ o.pending = {} /\ (o.kind \notin Wide => o.session \in SessionIds)
  BY DEF ReadSessions, Inv, TypeOK, RequestOK, Names, Retiring
<1>2. /\ scope \subseteq SessionIds /\ (o.kind \in Serial => scope \subseteq o.viewed)
      /\ o.kind \notin Wide => scope \subseteq {o.session}
  BY <1>1, Scopes DEF IsSerializable, Serial, Wide
<1>0. Goes(p, r)
  BY DEF ReadTokens, ReadSessions
<1> HIDE DEF scope
<1>3. /\ r \in Request /\ r.pc = "sessions" /\ r.kind = o.kind /\ r.session = o.session
      /\ r.token = o.token /\ r.pending = scope
      /\ r.marked = o.marked /\ r.viewed = o.viewed /\ r.dirty = o.dirty
  BY <1>1, <1>2 DEF Request, Rows
<1> HIDE DEF r
<1>5. RequestOK(p, r, account, sess, tok, owner)
  BY <1>1, <1>2, <1>3
     DEF RequestOK, Names, Locks, Phases, Snapshot, Covers, Retiring
<1> QED
  BY <1>0, <1>3, <1>5, GoesKeeps

LEMMA LockSessionKeeps ==
    ASSUME Inv, NEW p \in Procs, NEW s \in SessionIds, LockSession(p, s) PROVE Inv'
<1> DEFINE o == req[p]
           matches == {x \in {s} : StillRevocable(o.kind, x)}
           r == Visited(o, s, matches)
<1>1. o.pc = "sessions" /\ s \in Rows /\ matches \in SUBSET {s} /\ Visits(p, s, matches)
  BY DEF LockSession, Rows
<1>2. s \in matches => sess[s].state # "free"
  BY DEF StillRevocable
<1> HIDE DEF matches
<1>3. Follows(o, r, s, matches, p)
  BY <1>1, AfterVisit DEF Retiring
<1> HIDE DEF r
<1>4. Names(r, sess, tok) /\ Phases(r) /\ Covers(r, tok)
  BY <1>1, <1>3 DEF Follows, RequestOK, Names, Phases, Covers, Retiring
<1>5. Locks(p, r, sess, tok, owner')
  BY <1>1, <1>2, <1>3, RowsAssumption DEF Follows, RequestOK, Locks, Retiring
<1>6. Snapshot(r, account, tok)
  BY <1>1, <1>3 DEF Follows, RequestOK, Snapshot, Retiring
<1> QED
  BY <1>1, <1>4, <1>5, <1>6, Visiting DEF RequestOK, r

LEMMA ReadTokensKeeps ==
    ASSUME Inv, NEW p \in Procs, ReadTokens(p) PROVE Inv'
<1> DEFINE o == req[p]
           scope == IF IsSerializable(p) THEN o.viewed \cap TokenIds ELSE TokenScope(o)
           r == [o EXCEPT !.pc = "tokens", !.pending = scope]
<1>1. /\ o \in Request /\ o.pc = "sessions" /\ RequestOK(p, o, account, sess, tok, owner)
      /\ o.pending = {} /\ (o.kind \notin Wide => o.session \in SessionIds)
  BY DEF ReadTokens, Inv, TypeOK, RequestOK, Names, Retiring
<1>2. /\ scope \subseteq TokenIds /\ (o.kind \in Serial => scope = o.viewed \cap TokenIds)
      /\ o.kind \notin Serial => scope = TokenScope(o)
  BY <1>1, Scopes DEF IsSerializable, Serial
<1>0. Goes(p, r)
  BY DEF ReadTokens, ReadSessions
<1> HIDE DEF scope
<1>3. /\ r \in Request /\ r.pc = "tokens" /\ r.kind = o.kind /\ r.session = o.session
      /\ r.token = o.token /\ r.pending = scope
      /\ r.marked = o.marked /\ r.viewed = o.viewed /\ r.dirty = o.dirty
  BY <1>1, <1>2 DEF Request, Rows
<1> HIDE DEF r
<1>4. \A t \in scope : tok[t].state # "free"
  <2>1. CASE o.kind \in Serial
    BY <1>1, <1>2, <2>1 DEF RequestOK, Snapshot, Retiring
  <2>2. CASE o.kind \notin Serial
    BY <1>1, <1>2, <2>2, Scopes
  <2> QED
    BY <2>1, <2>2
<1>5. Names(r, sess, tok) /\ Locks(p, r, sess, tok, owner) /\ Phases(r)
      /\ Snapshot(r, account, tok)
  BY <1>1, <1>2, <1>3, <1>4
     DEF RequestOK, Names, Locks, Phases, Snapshot, Retiring
<1>6. Covers(r, tok)
  <2> SUFFICES ASSUME o.kind \notin Serial, NEW s \in o.marked \cap SessionIds,
                      NEW t \in TokenIds, Current(t, s, tok)
               PROVE  t \in TokenScope(o)
    BY <1>2, <1>3 DEF Covers
  <2>1. CASE o.kind \in {"suspend", "finalize"}
    BY <1>1, <2>1, Scopes
  <2>2. CASE o.kind \notin Wide
    BY <1>1, <2>2, Scopes DEF RequestOK, Phases, Retiring
  <2> QED
    BY <2>1, <2>2 DEF Wide, Serial
<1> QED
  BY <1>0, <1>3, <1>5, <1>6, GoesKeeps DEF RequestOK

LEMMA LockTokenKeeps ==
    ASSUME Inv, NEW p \in Procs, NEW t \in TokenIds, LockToken(p, t) PROVE Inv'
<1> DEFINE o == req[p]
           matches == {x \in {t} : o.kind = "finalize" \/ tok[x].state = "live"}
           r == Visited(o, t, matches)
<1>1. o.pc = "tokens" /\ t \in Rows /\ matches \in SUBSET {t} /\ Visits(p, t, matches)
  BY DEF LockToken, Rows
<1>2. (tok[t].state = "live" => t \in matches) /\ t \notin SessionIds /\ t # CredRow
  BY RowsAssumption
<1> HIDE DEF matches
<1>3. Follows(o, r, t, matches, p)
  BY <1>1, AfterVisit DEF Retiring
<1> HIDE DEF r
<1>4. Names(r, sess, tok) /\ Phases(r)
  BY <1>1, <1>2, <1>3 DEF Follows, RequestOK, Names, Phases, Retiring
<1>5. Locks(p, r, sess, tok, owner')
  BY <1>1, <1>2, <1>3 DEF Follows, RequestOK, Locks, Retiring
<1>6. Snapshot(r, account, tok)
  BY <1>1, <1>2, <1>3 DEF Follows, RequestOK, Snapshot, Retiring
<1>7. Covers(r, tok)
  BY <1>1, <1>2, <1>3 DEF Follows, RequestOK, Covers, Current
<1> QED
  BY <1>1, <1>4, <1>5, <1>6, <1>7, Visiting DEF RequestOK, r

-----------------------------------------------------------------------------
(* Commits. *)

LEMMA CreateSessionKeeps ==
    ASSUME Inv, NEW p \in Procs, CreateSession(p) PROVE Inv'
<1> DEFINE o == req[p]
<1>1. PICK s \in SessionIds :
          /\ sess[s].state = "free"
          /\ sess' = [sess EXCEPT ![s] = [state |-> "live", device |-> o.device,
                                          keyed |-> o.device # None,
                                          cred |-> o.cred, expired |-> FALSE]]
          /\ Commits(p, {s}, [o EXCEPT !.pc = "token", !.session = s])
  BY DEF CreateSession
<1> DEFINE row == [state |-> "live", device |-> o.device, keyed |-> o.device # None,
                   cred |-> o.cred, expired |-> FALSE]
           r == [o EXCEPT !.pc = "token", !.session = s]
<1>2. o \in Request /\ o.pc = "create" /\ o.marked = {}
  BY DEF CreateSession, Inv, TypeOK, RequestOK, Locks, Retiring
<1>3. row \in Session /\ row.state = "live"
  BY <1>2 DEF Session, Request
<1>4. r \in Request /\ r.pc = "token" /\ r.session = s /\ r.marked = {}
  BY <1>2 DEF Request
<1>5. /\ sess' = [sess EXCEPT ![s] = row] /\ Commits(p, {s}, r)
      /\ UNCHANGED <<account, tok>> /\ {s} \subseteq Rows
  BY <1>1 DEF CreateSession, Rows
<1> HIDE DEF row, r
<1>6. /\ sess' \in [SessionIds -> Session] /\ sess'[s].state = "live"
      /\ \A x \in SessionIds \ {s} : sess'[x] = sess[x]
  BY <1>3, <1>5 DEF Inv, TypeOK
<1>7. Writes(p, {s})
  BY <1>1, <1>5, <1>6, RowsAssumption DEF Writes
<1>8. TokensBelong' /\ CurrentLive(sess', tok')
  BY <1>1, <1>5, <1>6 DEF Inv, TokensBelong, CurrentLive, Current
<1>9. RequestOK(p, r, account', sess', tok', owner')
  BY <1>4, <1>6 DEF RequestOK, Names, Locks, Phases, Snapshot, Covers, Retiring
<1>10. account' \in Account /\ tok' \in [TokenIds -> Token]
  BY <1>5 DEF Inv, TypeOK
<1> QED
  BY <1>4, <1>5, <1>6, <1>7, <1>8, <1>9, <1>10, CommitKeeps

LEMMA CreateTokenKeeps ==
    ASSUME Inv, NEW p \in Procs, CreateToken(p) PROVE Inv'
<1> DEFINE s == req[p].session
<1>1. CASE Ends(p) /\ UNCHANGED <<account, sess, tok>>
  BY <1>1, EndsKeeps
<1>2. ASSUME NEW t \in TokenIds, tok[t].state = "free",
             tok' = [tok EXCEPT ![t] = [state |-> "live", session |-> s,
                                        late |-> IsBeingRevoked(s)]],
             Commits(p, {t}, IdleRequest), UNCHANGED <<account, sess>>
      PROVE  Inv'
  <2> DEFINE row == [state |-> "live", session |-> s, late |-> IsBeingRevoked(s)]
  <2>1. s \in SessionIds /\ sess[s].state # "free"
    BY DEF CreateToken, Inv, RequestOK, Names
  <2>2. IsBeingRevoked(s) \in BOOLEAN
    BY DEF IsBeingRevoked
  <2>3. row \in Token /\ row.state = "live" /\ row.session = s
    BY <2>1, <2>2 DEF Token
  <2>4. row.late = IsBeingRevoked(s)
    BY Zenon
  <2>5. ~row.late => /\ sess[s].state = "live" /\ owner[s] = None
                     /\ \A q \in Procs : s \notin req[q].viewed
    BY <2>4, Zenon DEF IsBeingRevoked
  <2>6. tok' = [tok EXCEPT ![t] = row] /\ {t} \subseteq Rows
    BY <1>2 DEF Rows
  <2> HIDE DEF row
  <2>7. /\ tok' \in [TokenIds -> Token] /\ tok'[t] = row
        /\ \A x \in TokenIds \ {t} : tok'[x] = tok[x]
    BY <2>3, <2>6 DEF Inv, TypeOK
  <2>8. ASSUME NEW x \in TokenIds, NEW y \in SessionIds, Current(x, y, tok')
        PROVE  \/ Current(x, y, tok)
               \/ /\ sess[y].state = "live" /\ owner[y] = None
                  /\ \A q \in Procs : y \notin req[q].viewed
    BY <2>3, <2>5, <2>7, <2>8 DEF Current
  <2>9. Writes(p, {t})
    BY <1>2, <2>7, <2>8, RowsAssumption DEF Writes
  <2>10. TokensBelong' /\ CurrentLive(sess', tok')
    BY <1>2, <2>1, <2>3, <2>7, <2>8 DEF Inv, TokensBelong, CurrentLive
  <2>11. RequestOK(p, IdleRequest, account', sess', tok', owner')
    BY Idle, Quiet
  <2>12. account' \in Account /\ sess' \in [SessionIds -> Session]
    BY <1>2 DEF Inv, TypeOK
  <2> QED
    BY <1>2, <2>6, <2>7, <2>9, <2>10, <2>11, <2>12, Idle, CommitKeeps
<1> QED
  BY <1>1, <1>2 DEF CreateToken

LEMMA CommitRotationKeeps ==
    ASSUME Inv, NEW p \in Procs, CommitRotation(p) PROVE Inv'
<1> DEFINE t == req[p].token
           s == req[p].session
<1>1. PICK n \in TokenIds :
          /\ tok[n].state = "free"
          /\ tok' = [tok EXCEPT ![t].state = "spent", ![n] = [tok[t] EXCEPT !.state = "live"]]
          /\ Commits(p, {t, n, s}, IdleRequest)
  BY DEF CommitRotation
<1>2. /\ req[p].pc = "touch" /\ t \in TokenIds /\ tok[t] \in Token /\ tok[t].state = "live"
      /\ s = tok[t].session /\ s \in SessionIds /\ owner[t] = p /\ n # t
  BY <1>1 DEF CommitRotation, Inv, TypeOK, TokensBelong, RequestOK, Names, Locks
<1>3. owner[s] \in {None, p} /\ UNCHANGED <<account, sess>>
  BY DEF CommitRotation, CanTouch, IsFree
<1> DEFINE spent == [tok[t] EXCEPT !.state = "spent"]
           new == [tok[t] EXCEPT !.state = "live"]
<1>4. /\ spent \in Token /\ spent.state = "spent" /\ spent.session = s
      /\ new \in Token /\ new.state = "live" /\ new.session = s
      /\ new.late <=> tok[t].late
  BY <1>2 DEF Token
<1>5. tok' = [tok EXCEPT ![t] = spent, ![n] = new]
  BY <1>1, <1>2 DEF Inv, TypeOK
<1> HIDE DEF spent, new
<1>6. /\ tok' \in [TokenIds -> Token] /\ tok'[t] = spent /\ tok'[n] = new
      /\ \A x \in TokenIds \ {t, n} : tok'[x] = tok[x]
  BY <1>2, <1>4, <1>5 DEF Inv, TypeOK
<1>7. ASSUME NEW x \in TokenIds, NEW y \in SessionIds, Current(x, y, tok')
      PROVE  Current(x, y, tok) \/ (y = s /\ Current(t, s, tok))
  BY <1>2, <1>4, <1>6, <1>7 DEF Current
<1>8. Writes(p, {t, n, s})
  <2>1. \A x \in TokenIds : tok[x].state # "free" =>
            /\ tok'[x].state # "free" /\ tok'[x].session = tok[x].session
            /\ tok'[x].state = "live" => tok[x].state = "live"
    BY <1>1, <1>2, <1>4, <1>6
  <2>2. \A x \in TokenIds :
            tok[x].state # "free" /\ owner[x] \notin {None, p} => tok'[x] = tok[x]
    BY <1>1, <1>2, <1>6
  <2>3. \A row \in {t, n, s} \cap (SessionIds \cup {CredRow}) : row = s
    BY <1>2, RowsAssumption
  <2> QED
    BY <1>3, <1>7, <2>1, <2>2, <2>3 DEF Writes
<1>9. TokensBelong' /\ CurrentLive(sess', tok')
  BY <1>2, <1>3, <1>4, <1>6, <1>7 DEF Inv, TokensBelong, CurrentLive
<1>10. RequestOK(p, IdleRequest, account', sess', tok', owner')
  BY Idle, Quiet
<1>11. /\ account' \in Account /\ sess' \in [SessionIds -> Session]
       /\ {t, n, s} \in SUBSET Rows
  BY <1>2, <1>3 DEF Inv, TypeOK, Rows
<1> QED
  BY <1>1, <1>6, <1>8, <1>9, <1>10, <1>11, Idle, CommitKeeps

LEMMA CommitRevocationKeeps ==
    ASSUME Inv, NEW p \in Procs, CommitRevocation(p) PROVE Inv'
<1> DEFINE o == req[p]
           W == o.marked
           next == IF o.kind = "login"
                   THEN [IdleRequest EXCEPT !.pc = "create", !.kind = "login",
                                            !.device = o.device, !.cred = o.cred]
                   ELSE IdleRequest
<1>1. /\ o \in Request /\ o.pc = "tokens" /\ o.pending = {} /\ W \subseteq Rows
      /\ RequestOK(p, o, account, sess, tok, owner)
  BY DEF CommitRevocation, Inv, TypeOK, Request
<1>2. Commits(p, W, next)
  BY DEF CommitRevocation
<1>3. next \in Request /\ next.pc \in {"idle", "create"} /\ next.marked = {}
  BY <1>1, Idle DEF Request, AllKinds
<1> HIDE DEF next
<1>4. \A row \in W : owner[row] = p
  BY <1>1 DEF RequestOK, Locks
\* The password version is below its bound when it is raised: the credential is locked,
\* and has not changed since the snapshot.
<1>5. o.kind \in {"reset", "change"} => account.cred < MaxCred /\ CredRow \in W
  BY <1>1 DEF RequestOK, Snapshot, Serial, Retiring
<1>6. /\ account' \in Account /\ account.cred \in 0 .. MaxCred
      /\ account'.cred = account.cred \/ CredRow \in W
  <2>1. account \in Account /\ account.cred \in 0 .. MaxCred
    BY DEF Inv, TypeOK, Account
  <2>2. CASE o.kind = "suspend"
    BY <2>1, <2>2 DEF CommitRevocation, Account
  <2>3. CASE o.kind = "finalize"
    BY <2>1, <2>3 DEF CommitRevocation, Account
  <2>4. CASE o.kind \in {"reset", "change"}
    <3>1. account' = [account EXCEPT !.cred = @ + 1] /\ account.cred + 1 \in 0 .. MaxCred
      BY <1>5, <2>1, <2>4, CredAssumption DEF CommitRevocation
    <3> QED
      BY <1>5, <2>1, <2>4, <3>1 DEF Account
  <2>5. CASE o.kind \notin Wide
    BY <2>1, <2>5 DEF CommitRevocation, Wide
  <2> QED
    BY <2>1, <2>2, <2>3, <2>4, <2>5 DEF Wide
<1>7. ASSUME NEW x \in SessionIds
      PROVE  /\ sess'[x] \in Session
             /\ x \in W => sess'[x].state \in {"revoked", "deleted"}
             /\ x \notin W => sess'[x].state = sess[x].state
  <2>1. sess[x] \in Session /\ x \in DOMAIN sess'
    BY DEF Inv, TypeOK, CommitRevocation
  <2>2. CASE x \in W
    <3>1. sess'[x] = RevokedSession(o.kind, sess[x])
      BY <2>2 DEF CommitRevocation
    <3>2. /\ RevokedSession(o.kind, sess[x]) \in Session
          /\ RevokedSession(o.kind, sess[x]).state \in {"revoked", "deleted"}
      BY <2>1 DEF RevokedSession, Session
    <3> QED
      BY <2>2, <3>1, <3>2
  <2>3. CASE x \notin W /\ o.kind = "change" /\ x = o.session
    <3>1. sess'[x] = [sess[x] EXCEPT !.cred = account.cred + 1]
      BY <2>3 DEF CommitRevocation
    <3>2. account.cred + 1 \in 0 .. MaxCred
      BY <1>5, <1>6, <2>3, CredAssumption
    <3> QED
      BY <2>1, <2>3, <3>1, <3>2 DEF Session
  <2>4. CASE x \notin W /\ ~(o.kind = "change" /\ x = o.session)
    BY <2>1, <2>4 DEF CommitRevocation
  <2> QED
    BY <2>2, <2>3, <2>4
<1>8. ASSUME NEW x \in TokenIds
      PROVE  /\ x \in W => /\ tok'[x] \in Token /\ tok'[x].session = tok[x].session
                           /\ tok'[x].state \in {"revoked", "deleted"}
             /\ x \notin W => tok'[x] = tok[x]
  <2>1. tok[x] \in Token
    BY DEF Inv, TypeOK
  <2>2. tok'[x] = IF x \in W THEN RevokedToken(o.kind, tok[x]) ELSE tok[x]
    BY DEF CommitRevocation
  <2>3. /\ RevokedToken(o.kind, tok[x]) \in Token
        /\ RevokedToken(o.kind, tok[x]).session = tok[x].session
        /\ RevokedToken(o.kind, tok[x]).state \in {"revoked", "deleted"}
    BY <2>1 DEF RevokedToken, Token
  <2> QED
    BY <2>2, <2>3
<1>9. sess' \in [SessionIds -> Session] /\ tok' \in [TokenIds -> Token]
  <2>1. /\ sess' = [x \in SessionIds |-> sess'[x]] /\ tok' = [x \in TokenIds |-> tok'[x]]
        /\ \A x \in TokenIds : tok[x] \in Token
    BY DEF CommitRevocation, Inv, TypeOK
  <2> QED
    BY <1>7, <1>8, <2>1
<1> HIDE DEF W
<1>10. ASSUME NEW x \in TokenIds, NEW y \in SessionIds, Current(x, y, tok')
       PROVE  Current(x, y, tok) /\ x \notin W
  BY <1>8, <1>10 DEF Current
<1>11. Writes(p, W)
  BY <1>4, <1>6, <1>7, <1>8, <1>10 DEF Writes
<1>12. TokensBelong'
  <2>1. \A x \in W \cap TokenIds : tok[x].state # "free"
    BY <1>1 DEF RequestOK, Locks, W
  <2> QED
    BY <1>7, <1>8, <2>1 DEF Inv, TokensBelong
\* A locked session has no current token but those that are locked with it.
<1>13. ASSUME NEW y \in W \cap SessionIds, NEW x \in TokenIds, Current(x, y, tok)
       PROVE  x \in W
  <2>1. CASE o.kind \in Serial
    BY <1>1, <1>13, <2>1 DEF RequestOK, Snapshot, Current, Retiring, W
  <2>2. CASE o.kind \notin Serial
    BY <1>1, <1>13, <2>2 DEF RequestOK, Covers, W
  <2> QED
    BY <2>1, <2>2
<1>14. CurrentLive(sess', tok')
  BY <1>7, <1>10, <1>13 DEF Inv, CurrentLive
<1>15. RequestOK(p, next, account', sess', tok', owner')
  BY <1>3, Quiet
<1> QED
  BY <1>1, <1>2, <1>3, <1>6, <1>9, <1>11, <1>12, <1>14, <1>15, CommitKeeps DEF W

LEMMA SessionExpiresKeeps ==
    ASSUME Inv, NEW s \in SessionIds, SessionExpires(s) PROVE Inv'
<1>1. /\ sess' = [sess EXCEPT ![s] = [sess[s] EXCEPT !.expired = TRUE]]
      /\ UNCHANGED <<account, tok, owner, req>>
  BY DEF SessionExpires
<1>2. /\ [sess[s] EXCEPT !.expired = TRUE] \in Session
      /\ [sess[s] EXCEPT !.expired = TRUE].state = sess[s].state
  BY DEF Inv, TypeOK, Session
<1>3. sess' \in [SessionIds -> Session] /\ \A x \in SessionIds : sess'[x].state = sess[x].state
  BY <1>1, <1>2 DEF Inv, TypeOK
<1>4. TypeOK' /\ TokensBelong' /\ CurrentLive(sess', tok')
  BY <1>1, <1>3 DEF Inv, TypeOK, TokensBelong, CurrentLive
<1>5. ASSUME NEW p \in Procs PROVE RequestOK(p, req'[p], account', sess', tok', owner')
  <2>1. RequestOK(p, req[p], account, sess, tok, owner)
    BY DEF Inv
  <2>2. Names(req[p], sess', tok) /\ Locks(p, req[p], sess', tok, owner)
    BY <1>3, <2>1 DEF RequestOK, Names, Locks
  <2> QED
    BY <1>1, <2>1, <2>2 DEF RequestOK
<1> QED
  BY <1>4, <1>5 DEF Inv

-----------------------------------------------------------------------------
(* The invariant holds. *)

LEMMA InvInit == ASSUME Init PROVE Inv
<1>1. TypeOK
  BY Idle, CredAssumption
     DEF Init, TypeOK, Account, FreeSession, Session, FreeToken, Token
<1>2. TokensBelong /\ CurrentLive(sess, tok)
  BY DEF Init, TokensBelong, CurrentLive, Current, FreeToken
<1>3. \A p \in Procs : RequestOK(p, req[p], account, sess, tok, owner)
  BY Idle, Quiet DEF Init
<1> QED
  BY <1>1, <1>2, <1>3 DEF Inv

LEMMA InvNext == ASSUME Inv, [Next]_vars PROVE Inv'
<1>1. ASSUME NEW p \in Procs,
             \/ \E d \in Devices \cup {None} : Login(p, d)
             \/ DeviceLookup(p) \/ CreateSession(p) \/ CreateSessionFails(p)
             \/ CreateToken(p)
             \/ \E t \in TokenIds : Refresh(p, t)
             \/ RotateLookup(p) \/ SpendToken(p) \/ CommitRotation(p)
      PROVE  Inv'
  BY <1>1, LoginKeeps, DeviceLookupKeeps, CreateSessionKeeps, FailuresKeep,
     CreateTokenKeeps, RefreshKeeps, RotateLookupKeeps, SpendTokenKeeps,
     CommitRotationKeeps
<1>2. ASSUME NEW p \in Procs,
             \/ \E t \in TokenIds : Logout(p, t)
             \/ \E s \in SessionIds : RevokeSession(p, s)
             \/ ResetPassword(p)
             \/ \E s \in SessionIds : ChangePassword(p, s)
             \/ SuspendUser(p) \/ FinalizeDeletion(p)
      PROVE  Inv'
  BY <1>2, BeginningsKeep
<1>3. ASSUME NEW p \in Procs,
             \/ BeginRevocation(p) \/ LockAccount(p) \/ ReadSessions(p)
             \/ \E s \in SessionIds : LockSession(p, s)
             \/ ReadTokens(p)
             \/ \E t \in TokenIds : LockToken(p, t)
             \/ CommitRevocation(p) \/ RetrySerializable(p) \/ Fail(p)
      PROVE  Inv'
  BY <1>3, BeginRevocationKeeps, LockAccountKeeps, ReadSessionsKeeps, LockSessionKeeps,
     ReadTokensKeeps, LockTokenKeeps, CommitRevocationKeeps, FailuresKeep
<1>4. ASSUME NEW s \in SessionIds, SessionExpires(s) PROVE Inv'
  BY <1>4, SessionExpiresKeeps
<1>5. CASE UNCHANGED vars
  BY <1>5 DEF vars, Inv, TypeOK, TokensBelong
<1> QED
  BY <1>1, <1>2, <1>3, <1>4, <1>5 DEF Next

LEMMA InvHolds == Spec => []Inv
<1>1. Init => Inv
  BY InvInit
<1>2. Inv /\ [Next]_vars => Inv'
  BY InvNext
<1> QED
  BY <1>1, <1>2, PTL DEF Spec

\* Every variable has its type in every reachable state; the version of the password, too,
\* which two serializable changes may not raise from one value.
THEOREM TypeCorrect == Spec => []TypeOK
<1>1. Inv => TypeOK
  BY DEF Inv
<1> QED
  BY <1>1, InvHolds, PTL

\* However logins, rotations and revocations interleave, a session that is not live has no
\* token that can be exchanged, but for one that was created while it was being revoked.
THEOREM RevocationIsComplete == Spec => []RevokedSessionsHaveNoToken
<1>1. Inv => RevokedSessionsHaveNoToken
  BY DEF Inv, TokensBelong, CurrentLive, Current, RevokedSessionsHaveNoToken
<1> QED
  BY <1>1, InvHolds, PTL

-----------------------------------------------------------------------------
(* Families of tokens, and devices. *)

\* An unused token is of no session; a session has at most one live token; a request that
\* is about to create the first token of a session is alone in that, and comes first.
FamilyInv ==
    /\ \A t \in TokenIds : tok[t].state = "free" => tok[t].session = None
    /\ \A t, u \in TokenIds :
           tok[t].state = "live" /\ tok[u].state = "live" /\ tok[t].session = tok[u].session
           => t = u
    /\ \A p \in Procs, t \in TokenIds :
           req[p].pc = "token" => tok[t].session # req[p].session
    /\ \A p, q \in Procs :
           req[p].pc = "token" /\ req[q].pc = "token" /\ req[p].session = req[q].session
           => p = q

\* A key is of a live session, and only there; every live session of a device has its key.
DeviceInv ==
    /\ \A s \in SessionIds : sess[s].keyed => sess[s].state = "live"
    /\ \A s \in LiveSessions : sess[s].device # None => sess[s].keyed
    /\ \A s1, s2 \in SessionIds :
           sess[s1].keyed /\ sess[s2].keyed /\ sess[s1].device = sess[s2].device => s1 = s2

\* No request comes to create a first token by this step.
NoFirst ==
    \A q \in Procs : req'[q].pc = "token" =>
        req[q].pc = "token" /\ req'[q].session = req[q].session

LEMMA CommitsNoFirst ==
    ASSUME Inv, NEW p \in Procs, NEW W, NEW r, Commits(p, W, r), r.pc # "token"
    PROVE  NoFirst
<1> SUFFICES ASSUME NEW q \in Procs, req'[q].pc = "token"
             PROVE  req[q].pc = "token" /\ req'[q].session = req[q].session
  BY DEF NoFirst
<1>1. req[q] \in Request /\ q # p
  BY DEF Inv, TypeOK, Commits
<1>2. req'[q] \in {req[q], [req[q] EXCEPT !.dirty = @ \cup W]}
  BY <1>1 DEF Commits
<1> QED
  BY <1>1, <1>2 DEF Request

LEMMA GoesNoFirst ==
    ASSUME Inv, NEW p \in Procs, NEW r, req' = [req EXCEPT ![p] = r], r.pc # "token"
    PROVE  NoFirst
BY DEF Inv, TypeOK, NoFirst

\* The steps that write neither a token nor the state, device or key of a session.
Quietly == /\ tok' = tok /\ NoFirst
           /\ \A s \in SessionIds : /\ sess'[s].state = sess[s].state
                                    /\ sess'[s].device = sess[s].device
                                    /\ sess'[s].keyed = sess[s].keyed

LEMMA QuietStarts ==
    ASSUME Inv, NEW p \in Procs,
           \/ \E d \in Devices \cup {None} : Login(p, d)
           \/ \E t \in TokenIds : Refresh(p, t) \/ Logout(p, t)
           \/ \E s \in SessionIds : RevokeSession(p, s) \/ ChangePassword(p, s)
           \/ ResetPassword(p) \/ SuspendUser(p) \/ FinalizeDeletion(p)
    PROVE  Quietly
<1>1. ASSUME NEW r, Goes(p, r), r.pc # "token" PROVE Quietly
  BY <1>1, GoesNoFirst DEF Goes, Quietly
<1>2. ASSUME NEW d \in Devices \cup {None}, Login(p, d) PROVE Quietly
  <2> DEFINE r == [IdleRequest EXCEPT !.pc = IF d = None THEN "create" ELSE "device",
                                      !.kind = "login", !.device = d, !.cred = account.cred]
  <2>1. r.pc # "token" /\ Goes(p, r)
    BY <1>2, Idle DEF Request, Login
  <2> HIDE DEF r
  <2> QED
    BY <1>1, <2>1
<1>3. ASSUME NEW t \in TokenIds, Refresh(p, t) PROVE Quietly
  <2> DEFINE live == tok[t].state = "live"
             r == [IdleRequest EXCEPT !.pc = IF live THEN "rotate" ELSE "begin",
                                      !.kind = "refresh", !.token = t,
                                      !.session = IF live THEN None ELSE tok[t].session]
  <2>1. r.pc # "token" /\ Goes(p, r)
    BY <1>3, Idle DEF Request, Refresh
  <2> HIDE DEF r
  <2> QED
    BY <1>1, <2>1
<1>4. ASSUME NEW t \in TokenIds, Logout(p, t) PROVE Quietly
  <2> DEFINE r == [IdleRequest EXCEPT !.pc = "begin", !.kind = "logout",
                                      !.session = tok[t].session]
  <2>1. r.pc # "token" /\ Goes(p, r)
    BY <1>4, Idle DEF Request, Logout
  <2> HIDE DEF r
  <2> QED
    BY <1>1, <2>1
<1>5. ASSUME NEW s \in SessionIds, RevokeSession(p, s) PROVE Quietly
  <2> DEFINE r == [IdleRequest EXCEPT !.pc = "begin", !.kind = "revoke", !.session = s]
  <2>1. r.pc # "token" /\ Goes(p, r)
    BY <1>5, Idle DEF Request, RevokeSession
  <2> HIDE DEF r
  <2> QED
    BY <1>1, <2>1
<1>6. ASSUME NEW s \in SessionIds, ChangePassword(p, s) PROVE Quietly
  <2> DEFINE r == [IdleRequest EXCEPT !.pc = "begin", !.kind = "change", !.session = s,
                                      !.cred = account.cred]
  <2>1. r.pc # "token" /\ Goes(p, r)
    BY <1>6, Idle DEF Request, ChangePassword
  <2> HIDE DEF r
  <2> QED
    BY <1>1, <2>1
<1>7. ASSUME NEW k, Goes(p, [IdleRequest EXCEPT !.pc = "begin", !.kind = k]) PROVE Quietly
  <2> DEFINE r == [IdleRequest EXCEPT !.pc = "begin", !.kind = k]
  <2>1. r.pc # "token"
    BY Idle DEF Request
  <2> HIDE DEF r
  <2> QED
    BY <1>1, <1>7, <2>1 DEF r
<1>8. CASE ResetPassword(p) \/ SuspendUser(p) \/ FinalizeDeletion(p)
  BY <1>7, <1>8 DEF ResetPassword, SuspendUser, FinalizeDeletion
<1> QED
  BY <1>2, <1>3, <1>4, <1>5, <1>6, <1>8

LEMMA QuietWork ==
    ASSUME Inv, NEW p \in Procs,
           \/ DeviceLookup(p) \/ CreateSessionFails(p) \/ RotateLookup(p) \/ SpendToken(p)
           \/ BeginRevocation(p) \/ LockAccount(p) \/ ReadSessions(p) \/ ReadTokens(p)
           \/ \E s \in SessionIds : LockSession(p, s)
           \/ \E t \in TokenIds : LockToken(p, t)
           \/ RetrySerializable(p) \/ Fail(p)
    PROVE  Quietly
<1> DEFINE o == req[p]
<1>0. o \in Request
  BY DEF Inv, TypeOK
<1>1. ASSUME NEW r, Goes(p, r), r.pc # "token" PROVE Quietly
  BY <1>1, GoesNoFirst DEF Goes, Quietly
<1>2. ASSUME NEW r, Commits(p, {}, r), r.pc # "token", UNCHANGED <<sess, tok>>
      PROVE  Quietly
  BY <1>2, CommitsNoFirst DEF Quietly
<1>3. ASSUME Ends(p), UNCHANGED <<sess, tok>> PROVE Quietly
  BY <1>2, <1>3, Idle DEF Ends
<1>4. ASSUME NEW s, Goes(p, RevokingOne(p, s)) PROVE Quietly
  <2>1. RevokingOne(p, s).pc # "token"
    BY <1>0 DEF RevokingOne, Request
  <2> QED
    BY <1>1, <1>4, <2>1
<1>5. ASSUME NEW row, NEW matches, Visits(p, row, matches), o.pc # "token" PROVE Quietly
  <2>1. Visited(o, row, matches).pc = o.pc
    BY <1>0 DEF Visited, Request
  <2> QED
    BY <1>5, <2>1, GoesNoFirst DEF Visits, Quietly
<1>6. CASE DeviceLookup(p)
  <2>1. [o EXCEPT !.pc = "create"].pc # "token"
    BY <1>0 DEF Request
  <2> QED
    BY <1>1, <1>4, <1>6, <2>1 DEF DeviceLookup
<1>7. CASE CreateSessionFails(p) \/ Fail(p)
  BY <1>3, <1>7 DEF CreateSessionFails, Fail
<1>8. CASE RotateLookup(p)
  <2> DEFINE s == tok[o.token].session
             r == [o EXCEPT !.pc = "spend", !.session = s]
  <2>1. r.pc # "token"
    BY <1>0 DEF Request
  <2>2. \/ Ends(p) /\ UNCHANGED <<sess, tok>>
        \/ Goes(p, r) \/ Goes(p, RevokingOne(p, s))
    BY <1>8 DEF RotateLookup
  <2> HIDE DEF r
  <2> QED
    BY <1>1, <1>3, <1>4, <2>1, <2>2
<1>9. CASE SpendToken(p)
  <2> DEFINE r == [o EXCEPT !.pc = "touch"]
  <2>1. r.pc # "token"
    BY <1>0 DEF Request
  <2>2. \/ req' = [req EXCEPT ![p] = r] /\ UNCHANGED <<sess, tok>>
        \/ Goes(p, RevokingOne(p, o.session))
    BY <1>9 DEF SpendToken
  <2> HIDE DEF r
  <2> QED
    BY <1>4, <2>1, <2>2, GoesNoFirst DEF Quietly
<1>10. CASE BeginRevocation(p)
  <2> DEFINE v == IF IsSerializable(p) THEN SessionScope(o) \cup TokenScope(o) ELSE {}
             r == [o EXCEPT !.pc = "account", !.pending = AccountRows(o.kind), !.viewed = v]
  <2>1. \/ Ends(p) /\ UNCHANGED <<sess, tok>>
        \/ Goes(p, r)
    BY <1>10 DEF BeginRevocation
  <2> HIDE DEF v
  <2>2. r.pc # "token"
    BY <1>0 DEF Request
  <2> HIDE DEF r
  <2> QED
    BY <1>1, <1>3, <2>1, <2>2
<1>11. CASE LockAccount(p)
  BY <1>5, <1>11 DEF LockAccount
<1>12. CASE ReadSessions(p)
  <2> DEFINE v == IF IsSerializable(p) THEN o.viewed \cap SessionIds ELSE SessionScope(o)
             r == [o EXCEPT !.pc = "sessions", !.pending = v]
  <2>1. Goes(p, r)
    BY <1>12 DEF ReadSessions
  <2> HIDE DEF v
  <2>2. r.pc # "token"
    BY <1>0 DEF Request
  <2> HIDE DEF r
  <2> QED
    BY <1>1, <2>1, <2>2
<1>13. CASE ReadTokens(p)
  <2> DEFINE v == IF IsSerializable(p) THEN o.viewed \cap TokenIds ELSE TokenScope(o)
             r == [o EXCEPT !.pc = "tokens", !.pending = v]
  <2>1. Goes(p, r)
    BY <1>13 DEF ReadTokens
  <2> HIDE DEF v
  <2>2. r.pc # "token"
    BY <1>0 DEF Request
  <2> HIDE DEF r
  <2> QED
    BY <1>1, <2>1, <2>2
<1>14. CASE \/ \E s \in SessionIds : LockSession(p, s)
            \/ \E t \in TokenIds : LockToken(p, t)
  BY <1>5, <1>14 DEF LockSession, LockToken
<1>15. CASE RetrySerializable(p)
  <2> DEFINE r == [IdleRequest EXCEPT !.pc = "begin", !.kind = o.kind,
                                      !.session = o.session, !.cred = o.cred]
  <2>1. Commits(p, {}, r) /\ UNCHANGED <<sess, tok>>
    BY <1>15 DEF RetrySerializable
  <2>2. r.pc # "token"
    BY Idle DEF Request
  <2> HIDE DEF r
  <2> QED
    BY <1>2, <2>1, <2>2
<1> QED
  BY <1>6, <1>7, <1>8, <1>9, <1>10, <1>11, <1>12, <1>13, <1>14, <1>15

\* A quiet step is none of the families, and keeps what is known of them.
LEMMA QuietKeeps ==
    ASSUME FamilyInv, DeviceInv, Quietly
    PROVE  FamilyInv' /\ DeviceInv' /\ UNCHANGED <<FamilyState, FamilyTip, FamilyIssued>>
<1>1. FamilyInv'
  BY DEF FamilyInv, Quietly, NoFirst
<1>2. DeviceInv'
  BY DEF DeviceInv, LiveSessions, Quietly
<1>3. UNCHANGED <<FamilyState, FamilyTip, FamilyIssued>>
  BY DEF FamilyState, FamilyTip, FamilyIssued, LiveTokens, Quietly
<1> QED
  BY <1>1, <1>2, <1>3

\* What a family is, before a step and after it.
LEMMA Mapping ==
    /\ FamilyState = [s \in SessionIds |-> FamilyState[s]]
    /\ FamilyTip = [s \in SessionIds |-> FamilyTip[s]]
    /\ FamilyIssued = [s \in SessionIds |-> FamilyIssued[s]]
    /\ FamilyState' = [s \in SessionIds |-> FamilyState'[s]]
    /\ FamilyTip' = [s \in SessionIds |-> FamilyTip'[s]]
    /\ FamilyIssued' = [s \in SessionIds |-> FamilyIssued'[s]]
BY DEF FamilyState, FamilyTip, FamilyIssued

LEMMA Members ==
    ASSUME NEW s \in SessionIds
    PROVE  /\ \A t : t \in FamilyTip[s] <=>
                  /\ t \in TokenIds /\ sess[s].state = "live"
                  /\ tok[t].state = "live" /\ tok[t].session = s
           /\ \A t : t \in FamilyTip'[s] <=>
                  /\ t \in TokenIds /\ sess'[s].state = "live"
                  /\ tok'[t].state = "live" /\ tok'[t].session = s
           /\ \A t : t \in FamilyIssued[s] <=> t \in TokenIds /\ tok[t].session = s
           /\ \A t : t \in FamilyIssued'[s] <=> t \in TokenIds /\ tok'[t].session = s
BY DEF FamilyTip, FamilyIssued, LiveTokens

LEMMA SameTip ==
    ASSUME NEW s \in SessionIds,
           \A t \in TokenIds :
               sess'[s].state = "live" /\ tok'[t].state = "live" /\ tok'[t].session = s
               <=> sess[s].state = "live" /\ tok[t].state = "live" /\ tok[t].session = s
    PROVE  FamilyTip'[s] = FamilyTip[s]
<1>1. \A t : t \in FamilyTip'[s] <=> t \in FamilyTip[s]
  BY Members
<1>2. FamilyTip'[s] \subseteq TokenIds /\ FamilyTip[s] \subseteq TokenIds
  BY DEF FamilyTip, LiveTokens
<1> QED
  BY <1>1, <1>2

LEMMA SameIssued ==
    ASSUME NEW s \in SessionIds,
           \A t \in TokenIds : tok'[t].session = s <=> tok[t].session = s
    PROVE  FamilyIssued'[s] = FamilyIssued[s]
<1>1. \A t : t \in FamilyIssued'[s] <=> t \in FamilyIssued[s]
  BY Members
<1>2. FamilyIssued'[s] \subseteq TokenIds /\ FamilyIssued[s] \subseteq TokenIds
  BY DEF FamilyIssued
<1> QED
  BY <1>1, <1>2

LEMMA States ==
    ASSUME Inv, NEW s \in SessionIds
    PROVE  /\ FamilyState[s] = "none" <=> sess[s].state = "free"
           /\ FamilyState[s] = "alive" <=> sess[s].state = "live"
           /\ FamilyState[s] = "dead" <=> sess[s].state \in {"revoked", "deleted"}
<1>1. sess[s] \in Session
  BY DEF Inv, TypeOK
<1> QED
  BY <1>1 DEF FamilyState, Session

LEMMA CreateSessionOpens ==
    ASSUME Inv, Inv', FamilyInv, DeviceInv, NEW p \in Procs, CreateSession(p)
    PROVE  FamilyInv' /\ DeviceInv' /\ Families!Next
<1> DEFINE o == req[p]
<1>1. PICK s \in SessionIds :
          /\ sess[s].state = "free"
          /\ sess' = [sess EXCEPT ![s] = [state |-> "live", device |-> o.device,
                                          keyed |-> o.device # None,
                                          cred |-> o.cred, expired |-> FALSE]]
          /\ Commits(p, {s}, [o EXCEPT !.pc = "token", !.session = s])
  BY DEF CreateSession
<1>2. /\ sess'[s].state = "live" /\ sess'[s].device = o.device
      /\ sess'[s].keyed <=> o.device # None
      /\ \A x \in SessionIds \ {s} : sess'[x] = sess[x]
      /\ tok' = tok /\ ~KeyTaken(o.device)
  BY <1>1 DEF CreateSession, Inv, TypeOK
<1>3. \A t \in TokenIds : tok[t].session # s
  BY <1>1, RowsAssumption DEF Inv, TokensBelong, FamilyInv, Rows
<1>4. \A q \in Procs \ {p} : req'[q].pc = "token" =>
          req[q].pc = "token" /\ req'[q].session = req[q].session /\ req[q].session # s
  <2> SUFFICES ASSUME NEW q \in Procs \ {p}, req'[q].pc = "token"
               PROVE  req[q].pc = "token" /\ req'[q].session = req[q].session
                      /\ req[q].session # s
    OBVIOUS
  <2>1. req[q] \in Request /\ req'[q] \in {req[q], [req[q] EXCEPT !.dirty = @ \cup {s}]}
    BY <1>1 DEF Inv, TypeOK, Commits
  <2>2. req[q].pc = "token" /\ req'[q].session = req[q].session
    BY <2>1 DEF Request
  <2> QED
    BY <1>1, <2>2 DEF Inv, RequestOK, Names
<1>5. req'[p].session = s
  <2>1. req'[p] = [o EXCEPT !.pc = "token", !.session = s] /\ o \in Request
    BY <1>1 DEF Commits, Inv, TypeOK
  <2> QED
    BY <2>1 DEF Request
<1>6. FamilyInv'
  <2>1. \A q \in Procs, t \in TokenIds :
            req'[q].pc = "token" => tok'[t].session # req'[q].session
    BY <1>2, <1>3, <1>4, <1>5 DEF FamilyInv
  <2>2. \A q, r \in Procs : /\ req'[q].pc = "token" /\ req'[r].pc = "token"
                            /\ req'[q].session = req'[r].session
                            => q = r
    BY <1>4, <1>5 DEF FamilyInv
  <2> QED
    BY <1>2, <2>1, <2>2 DEF FamilyInv
<1>7. DeviceInv'
  BY <1>1, <1>2 DEF DeviceInv, LiveSessions, KeyTaken
<1>8. Families!Open(s)
  <2>1. FamilyState[s] = "none" /\ FamilyState' = [FamilyState EXCEPT ![s] = "alive"]
    BY <1>1, <1>2 DEF FamilyState
  <2>2. \A f \in SessionIds : FamilyTip'[f] = FamilyTip[f] /\ FamilyIssued'[f] = FamilyIssued[f]
    BY <1>1, <1>2, <1>3, SameTip, SameIssued
  <2>3. FamilyTip' = FamilyTip /\ FamilyIssued' = FamilyIssued
    BY <2>2, Mapping
  <2> QED
    BY <2>1, <2>3 DEF Families!Open
<1> QED
  BY <1>6, <1>7, <1>8 DEF Families!Next

LEMMA CreateTokenIssues ==
    ASSUME Inv, Inv', FamilyInv, DeviceInv, NEW p \in Procs, CreateToken(p)
    PROVE  /\ FamilyInv' /\ DeviceInv'
           /\ Families!Next \/ UNCHANGED <<FamilyState, FamilyTip, FamilyIssued>>
<1> DEFINE s == req[p].session
<1>1. CASE Ends(p) /\ UNCHANGED <<sess, tok>>
  <2>1. Quietly
    BY <1>1, Idle, CommitsNoFirst DEF Ends, Quietly
  <2> QED
    BY <2>1, QuietKeeps
<1>2. ASSUME NEW t \in TokenIds, tok[t].state = "free",
             tok' = [tok EXCEPT ![t] = [state |-> "live", session |-> s,
                                        late |-> IsBeingRevoked(s)]],
             Commits(p, {t}, IdleRequest), sess' = sess
      PROVE  FamilyInv' /\ DeviceInv' /\ Families!Next
  <2>1. /\ s \in SessionIds /\ sess[s].state # "free" /\ req[p].pc = "token"
        /\ \A x \in TokenIds : tok[x].session # s
    BY DEF CreateToken, Inv, RequestOK, Names, FamilyInv
  <2>2. /\ tok'[t].state = "live" /\ tok'[t].session = s
        /\ \A x \in TokenIds \ {t} : tok'[x] = tok[x]
    BY <1>2 DEF Inv, TypeOK
  <2>3. tok[t].session = None /\ None \notin SessionIds
    BY <1>2, RowsAssumption DEF FamilyInv, Rows
  <2>4. NoFirst /\ req'[p].pc = "idle"
    BY <1>2, Idle, CommitsNoFirst DEF Commits
  <2>5. FamilyInv'
    BY <2>1, <2>2, <2>4 DEF FamilyInv, NoFirst
  <2>6. DeviceInv'
    BY <1>2 DEF DeviceInv, LiveSessions
  <2>7. /\ FamilyState' = FamilyState
        /\ FamilyIssued' = [FamilyIssued EXCEPT ![s] = {t}] /\ FamilyIssued[s] = {}
        /\ \A f \in SessionIds : t \notin FamilyIssued[f]
    <3>1. FamilyState' = FamilyState
      BY <1>2 DEF FamilyState
    <3>2. FamilyIssued'[s] = {t} /\ FamilyIssued[s] = {}
      BY <2>1, <2>2, Members
    <3>3. \A f \in SessionIds : t \notin FamilyIssued[f]
      BY <2>3, Members
    <3>4. \A f \in SessionIds \ {s} : FamilyIssued'[f] = FamilyIssued[f]
      BY <2>2, <2>3, SameIssued
    <3> QED
      BY <2>1, <3>1, <3>2, <3>3, <3>4, Mapping
  <2>8. CASE sess[s].state = "live"
    <3>1. FamilyTip' = [FamilyTip EXCEPT ![s] = {t}]
      <4>1. FamilyTip'[s] = {t}
        BY <1>2, <2>1, <2>2, <2>8, Members
      <4>2. \A f \in SessionIds \ {s} : FamilyTip'[f] = FamilyTip[f]
        BY <1>2, <2>2, <2>3, SameTip
      <4> QED
        BY <2>1, <4>1, <4>2, Mapping
    <3>2. FamilyState[s] = "alive"
      BY <2>1, <2>8, States
    <3>3. Families!Issue(s, t)
      BY <2>7, <3>1, <3>2 DEF Families!Issue, Families!IsNew
    <3> QED
      BY <2>1, <2>5, <2>6, <3>3 DEF Families!Next
  <2>9. CASE sess[s].state # "live"
    <3>1. FamilyTip' = FamilyTip
      <4>1. \A f \in SessionIds : FamilyTip'[f] = FamilyTip[f]
        BY <1>2, <2>2, <2>3, <2>9, SameTip
      <4> QED
        BY <4>1, Mapping
    <3>2. FamilyState[s] = "dead"
      BY <2>1, <2>9, States DEF Inv, TypeOK, Session
    <3>3. FamilyIssued' = [FamilyIssued EXCEPT ![s] = @ \cup {t}]
      BY <2>7
    <3>4. Families!Straggle(s, t)
      BY <2>7, <3>1, <3>2, <3>3 DEF Families!Straggle, Families!IsNew
    <3> QED
      BY <2>1, <2>5, <2>6, <3>4 DEF Families!Next
  <2> QED
    BY <2>8, <2>9
<1> QED
  BY <1>1, <1>2 DEF CreateToken

LEMMA CommitRotationExchanges ==
    ASSUME Inv, Inv', FamilyInv, DeviceInv, NEW p \in Procs, CommitRotation(p)
    PROVE  FamilyInv' /\ DeviceInv' /\ Families!Next
<1> DEFINE t == req[p].token
           s == req[p].session
<1>1. PICK n \in TokenIds :
          /\ tok[n].state = "free"
          /\ tok' = [tok EXCEPT ![t].state = "spent", ![n] = [tok[t] EXCEPT !.state = "live"]]
          /\ Commits(p, {t, n, s}, IdleRequest)
  BY DEF CommitRotation
<1>2. /\ req[p].pc = "touch" /\ t \in TokenIds /\ tok[t] \in Token /\ tok[t].state = "live"
      /\ s = tok[t].session /\ s \in SessionIds /\ n # t /\ sess' = sess
      /\ sess[s].state # "free"
  <2>1. /\ req[p].pc = "touch" /\ sess' = sess
        /\ RequestOK(p, req[p], account, sess, tok, owner)
    BY DEF CommitRotation, Inv
  <2>2. t \in TokenIds /\ tok[t].state = "live" /\ s = tok[t].session
    BY <2>1 DEF RequestOK, Names, Locks
  <2> QED
    BY <1>1, <2>1, <2>2 DEF Inv, TypeOK, TokensBelong
<1> DEFINE spent == [tok[t] EXCEPT !.state = "spent"]
           new == [tok[t] EXCEPT !.state = "live"]
<1>3. /\ spent.state = "spent" /\ spent.session = s /\ new.state = "live" /\ new.session = s
  BY <1>2 DEF Token
<1>4. tok' = [tok EXCEPT ![t] = spent, ![n] = new]
  BY <1>1, <1>2 DEF Inv, TypeOK
<1> HIDE DEF spent, new
<1>5. /\ tok'[t] = spent /\ tok'[n] = new /\ \A x \in TokenIds \ {t, n} : tok'[x] = tok[x]
  BY <1>2, <1>4 DEF Inv, TypeOK
<1>6. tok[n].session = None /\ None \notin SessionIds
  BY <1>1, RowsAssumption DEF FamilyInv, Rows
<1>7. NoFirst
  BY <1>1, Idle, CommitsNoFirst
<1>8. FamilyInv'
  <2>1. \A x \in TokenIds : tok'[x].state = "free" => tok'[x].session = None
    BY <1>3, <1>5 DEF FamilyInv
  <2>2. \A x, y \in TokenIds :
            tok'[x].state = "live" /\ tok'[y].state = "live"
            /\ tok'[x].session = tok'[y].session => x = y
    BY <1>2, <1>3, <1>5 DEF FamilyInv
  <2>3. \A q \in Procs, x \in TokenIds :
            req'[q].pc = "token" => tok'[x].session # req'[q].session
    BY <1>2, <1>3, <1>5, <1>7 DEF FamilyInv, NoFirst
  <2>4. \A q, r \in Procs : /\ req'[q].pc = "token" /\ req'[r].pc = "token"
                            /\ req'[q].session = req'[r].session
                            => q = r
    BY <1>7 DEF FamilyInv, NoFirst
  <2> QED
    BY <2>1, <2>2, <2>3, <2>4 DEF FamilyInv
<1>9. DeviceInv'
  BY <1>2 DEF DeviceInv, LiveSessions
<1>10. /\ FamilyState' = FamilyState
       /\ FamilyIssued' = [FamilyIssued EXCEPT ![s] = @ \cup {n}]
       /\ \A f \in SessionIds : n \notin FamilyIssued[f]
  <2>1. FamilyState' = FamilyState
    BY <1>2 DEF FamilyState
  <2>2. \A f \in SessionIds : n \notin FamilyIssued[f]
    BY <1>6, Members
  <2>3. FamilyIssued'[s] = FamilyIssued[s] \cup {n}
    BY <1>2, <1>3, <1>5, Members
  <2>4. \A f \in SessionIds \ {s} : FamilyIssued'[f] = FamilyIssued[f]
    BY <1>2, <1>3, <1>5, <1>6, SameIssued
  <2> QED
    BY <1>2, <2>1, <2>2, <2>3, <2>4, Mapping
<1>11. CASE sess[s].state = "live"
  <2>1. FamilyTip[s] = {t}
    BY <1>2, <1>11, Members DEF FamilyInv
  <2>2. FamilyTip' = [FamilyTip EXCEPT ![s] = {n}]
    <3>1. FamilyTip'[s] = {n}
      <4>1. n \in FamilyTip'[s]
        BY <1>2, <1>3, <1>5, <1>11, Members
      <4>2. \A x \in FamilyTip'[s] : x = n
        BY <1>2, <1>3, <1>5, <1>8, Members DEF FamilyInv
      <4> QED
        BY <4>1, <4>2
    <3>2. \A f \in SessionIds \ {s} : FamilyTip'[f] = FamilyTip[f]
      BY <1>2, <1>3, <1>5, <1>6, SameTip
    <3> QED
      BY <1>2, <3>1, <3>2, Mapping
  <2>3. Families!Exchange(s, t, n)
    BY <1>2, <1>10, <1>11, <2>1, <2>2, States DEF Families!Exchange, Families!IsNew
  <2> QED
    BY <1>2, <1>8, <1>9, <2>3 DEF Families!Next
<1>12. CASE sess[s].state # "live"
  <2>1. FamilyTip' = FamilyTip
    <3>1. \A f \in SessionIds : FamilyTip'[f] = FamilyTip[f]
      BY <1>2, <1>3, <1>5, <1>6, <1>12, SameTip
    <3> QED
      BY <3>1, Mapping
  <2>2. FamilyState[s] = "dead"
    BY <1>2, <1>12, States DEF Inv, TypeOK, Session
  <2>3. Families!Straggle(s, n)
    BY <1>10, <2>1, <2>2 DEF Families!Straggle, Families!IsNew
  <2> QED
    BY <1>2, <1>8, <1>9, <2>3 DEF Families!Next
<1> QED
  BY <1>11, <1>12

\* What the commit of a revocation writes: marked rows, and only those.
LEMMA RevocationWrites ==
    ASSUME Inv, NEW p \in Procs, CommitRevocation(p)
    PROVE  /\ \A s \in SessionIds \cap req[p].marked :
                  sess'[s].state \in {"revoked", "deleted"} /\ ~sess'[s].keyed
           /\ \A s \in SessionIds \ req[p].marked :
                  /\ sess'[s].state = sess[s].state /\ sess'[s].device = sess[s].device
                  /\ sess'[s].keyed = sess[s].keyed
           /\ \A t \in TokenIds \cap req[p].marked :
                  /\ tok[t].state # "free" /\ tok'[t].state \in {"revoked", "deleted"}
                  /\ tok'[t].session = tok[t].session
           /\ \A t \in TokenIds \ req[p].marked : tok'[t] = tok[t]
           /\ \A s \in SessionIds \cap req[p].marked : sess[s].state # "free"
           /\ NoFirst
<1> DEFINE o == req[p]
<1>1. /\ \A s \in SessionIds \cap o.marked : sess[s].state # "free"
      /\ \A t \in TokenIds \cap o.marked : tok[t].state # "free"
  BY DEF CommitRevocation, Inv, RequestOK, Locks
<1>2. ASSUME NEW s \in SessionIds \cap o.marked
      PROVE  sess'[s].state \in {"revoked", "deleted"} /\ ~sess'[s].keyed
  <2>1. sess'[s] = RevokedSession(o.kind, sess[s]) /\ sess[s] \in Session
    BY DEF CommitRevocation, Inv, TypeOK
  <2>2. /\ RevokedSession(o.kind, sess[s]).state \in {"revoked", "deleted"}
        /\ RevokedSession(o.kind, sess[s]).keyed = FALSE
    BY <2>1 DEF RevokedSession, Session
  <2> QED
    BY <2>1, <2>2, Zenon
<1>3. ASSUME NEW s \in SessionIds \ o.marked
      PROVE  /\ sess'[s].state = sess[s].state /\ sess'[s].device = sess[s].device
             /\ sess'[s].keyed = sess[s].keyed
  <2>1. sess[s] \in Session
    BY DEF Inv, TypeOK
  <2>2. sess'[s] \in {sess[s], [sess[s] EXCEPT !.cred = account.cred + 1]}
    BY DEF CommitRevocation
  <2> QED
    BY <2>1, <2>2 DEF Session
<1>4. ASSUME NEW t \in TokenIds \cap o.marked
      PROVE  tok'[t].state \in {"revoked", "deleted"} /\ tok'[t].session = tok[t].session
  <2>1. tok'[t] = RevokedToken(o.kind, tok[t]) /\ tok[t] \in Token
    BY DEF CommitRevocation, Inv, TypeOK
  <2>2. /\ RevokedToken(o.kind, tok[t]).state \in {"revoked", "deleted"}
        /\ RevokedToken(o.kind, tok[t]).session = tok[t].session
    BY <2>1 DEF RevokedToken, Token
  <2> QED
    BY <2>1, <2>2
<1>5. \A t \in TokenIds \ o.marked : tok'[t] = tok[t]
  BY DEF CommitRevocation
<1>6. NoFirst
  <2> DEFINE r == IF o.kind = "login"
                  THEN [IdleRequest EXCEPT !.pc = "create", !.kind = "login",
                                           !.device = o.device, !.cred = o.cred]
                  ELSE IdleRequest
  <2>1. Commits(p, o.marked, r) /\ r.pc # "token"
    BY Idle DEF CommitRevocation, Request
  <2> HIDE DEF r
  <2> QED
    BY <2>1, CommitsNoFirst
<1> QED
  BY <1>1, <1>2, <1>3, <1>4, <1>5, <1>6

LEMMA CommitRevocationKills ==
    ASSUME Inv, FamilyInv, DeviceInv, NEW p \in Procs, CommitRevocation(p)
    PROVE  FamilyInv' /\ DeviceInv' /\ Families!Next
<1> DEFINE W == req[p].marked
           F == {s \in SessionIds : sess[s].state = "live" /\ s \in W}
           S == {s \in SessionIds : /\ sess[s].state = "live" /\ s \notin W
                                    /\ \E t \in TokenIds \cap W :
                                          tok[t].state = "live" /\ tok[t].session = s}
<1>1. /\ \A s \in SessionIds \cap W :
             /\ sess[s].state # "free"
             /\ sess'[s].state \in {"revoked", "deleted"} /\ ~sess'[s].keyed
      /\ \A s \in SessionIds \ W :
             /\ sess'[s].state = sess[s].state /\ sess'[s].device = sess[s].device
             /\ sess'[s].keyed = sess[s].keyed
      /\ \A t \in TokenIds \cap W :
             /\ tok[t].state # "free" /\ tok'[t].state \in {"revoked", "deleted"}
             /\ tok'[t].session = tok[t].session
      /\ \A t \in TokenIds \ W : tok'[t] = tok[t]
      /\ NoFirst
  BY RevocationWrites
<1> HIDE DEF W
<1>2. \A t \in TokenIds : /\ tok'[t].session = tok[t].session
                          /\ tok'[t].state = "free" => tok[t].state = "free"
                          /\ tok'[t].state = "live" <=> tok[t].state = "live" /\ t \notin W
  BY <1>1
<1>3. FamilyInv'
  BY <1>1, <1>2 DEF FamilyInv, NoFirst
<1>4. DeviceInv'
  <2>1. \A s \in SessionIds : sess'[s].keyed => sess[s].keyed /\ s \notin W
    BY <1>1
  <2>2. \A s \in SessionIds : sess'[s].state = "live" => s \notin W
    BY <1>1
  <2> QED
    BY <1>1, <2>1, <2>2 DEF DeviceInv, LiveSessions
<1>5. FamilyState' = [f \in SessionIds |-> IF f \in F THEN "dead" ELSE FamilyState[f]]
  <2>1. \A f \in SessionIds : FamilyState'[f] = IF f \in F THEN "dead" ELSE FamilyState[f]
    BY <1>1 DEF FamilyState
  <2> QED
    BY <2>1, Mapping
<1>6. FamilyTip' = [f \in SessionIds |-> IF f \in F \cup S THEN {} ELSE FamilyTip[f]]
  <2>1. ASSUME NEW f \in F \cup S PROVE FamilyTip'[f] = {}
    <3>1. CASE f \in F
      BY <1>1, <3>1, Members
    <3>2. CASE f \in S
      BY <1>2, <3>2, Members DEF FamilyInv
    <3> QED
      BY <2>1, <3>1, <3>2
  <2>2. ASSUME NEW f \in SessionIds, f \notin F \cup S PROVE FamilyTip'[f] = FamilyTip[f]
    BY <1>1, <1>2, <2>2, SameTip
  <2> HIDE DEF F, S
  <2> QED
    BY <2>1, <2>2, Mapping
<1>7. FamilyIssued' = FamilyIssued
  <2>1. \A f \in SessionIds : FamilyIssued'[f] = FamilyIssued[f]
    BY <1>2, SameIssued
  <2> QED
    BY <2>1, Mapping
<1>8. \A f \in F \cup S : FamilyState[f] = "alive"
  BY States
<1>9. F \in SUBSET SessionIds /\ S \in SUBSET SessionIds
  OBVIOUS
<1> HIDE DEF F, S
<1>10. Families!Kill(F, S)
  BY <1>5, <1>6, <1>7, <1>8 DEF Families!Kill
<1> QED
  BY <1>3, <1>4, <1>9, <1>10 DEF Families!Next

-----------------------------------------------------------------------------
(* The refinement. *)

LEMMA FamilyInit == ASSUME Init PROVE FamilyInv /\ DeviceInv /\ Families!Init
<1>1. FamilyInv
  BY Idle DEF Init, FamilyInv, FreeToken
<1>2. DeviceInv
  <2>1. \A s \in SessionIds : sess[s].state = "free" /\ ~sess[s].keyed
    BY DEF Init, FreeSession
  <2> QED
    BY <2>1 DEF DeviceInv, LiveSessions
<1>3. /\ FamilyState = [s \in SessionIds |-> "none"]
      /\ FamilyTip = [s \in SessionIds |-> {}]
  BY DEF Init, FamilyState, FamilyTip, FreeSession
<1>4. FamilyIssued = [s \in SessionIds |-> {}]
  <2>1. \A s \in SessionIds, t \in TokenIds : tok[t].session # s
    BY RowsAssumption DEF Init, FreeToken, Rows
  <2> QED
    BY <2>1 DEF FamilyIssued
<1> QED
  BY <1>1, <1>2, <1>3, <1>4 DEF Families!Init

LEMMA FamilyNext ==
    ASSUME Inv, Inv', FamilyInv, DeviceInv, [Next]_vars
    PROVE  FamilyInv' /\ DeviceInv' /\ [Families!Next]_Families!vars
<1>1. ASSUME Quietly PROVE FamilyInv' /\ DeviceInv' /\ [Families!Next]_Families!vars
  BY <1>1, QuietKeeps DEF Families!vars
<1>2. ASSUME NEW p \in Procs,
             CreateSession(p) \/ CommitRotation(p) \/ CommitRevocation(p)
      PROVE  FamilyInv' /\ DeviceInv' /\ [Families!Next]_Families!vars
  BY <1>2, CreateSessionOpens, CommitRotationExchanges, CommitRevocationKills
<1>3. ASSUME NEW p \in Procs, CreateToken(p)
      PROVE  FamilyInv' /\ DeviceInv' /\ [Families!Next]_Families!vars
  BY <1>3, CreateTokenIssues DEF Families!vars
<1>4. ASSUME NEW s \in SessionIds, SessionExpires(s) PROVE Quietly
  <2>1. /\ sess' = [sess EXCEPT ![s] = [sess[s] EXCEPT !.expired = TRUE]]
        /\ sess[s] \in Session /\ UNCHANGED <<tok, req>>
    BY <1>4 DEF SessionExpires, Inv, TypeOK
  <2>2. \A x \in SessionIds : /\ sess'[x].state = sess[x].state
                              /\ sess'[x].device = sess[x].device
                              /\ sess'[x].keyed = sess[x].keyed
    BY <2>1 DEF Session, Inv, TypeOK
  <2> QED
    BY <2>1, <2>2 DEF Quietly, NoFirst
<1>5. ASSUME UNCHANGED vars PROVE Quietly
  BY <1>5 DEF vars, Quietly, NoFirst
<1>6. ASSUME NEW p \in Procs,
             \/ \E d \in Devices \cup {None} : Login(p, d)
             \/ \E t \in TokenIds : Refresh(p, t) \/ Logout(p, t)
             \/ \E s \in SessionIds : RevokeSession(p, s) \/ ChangePassword(p, s)
             \/ ResetPassword(p) \/ SuspendUser(p) \/ FinalizeDeletion(p)
      PROVE  Quietly
  BY <1>6, QuietStarts
<1>7. ASSUME NEW p \in Procs,
             \/ DeviceLookup(p) \/ CreateSessionFails(p) \/ RotateLookup(p)
             \/ SpendToken(p)
             \/ BeginRevocation(p) \/ LockAccount(p) \/ ReadSessions(p) \/ ReadTokens(p)
             \/ \E s \in SessionIds : LockSession(p, s)
             \/ \E t \in TokenIds : LockToken(p, t)
             \/ RetrySerializable(p) \/ Fail(p)
      PROVE  Quietly
  BY <1>7, QuietWork
<1> QED
  BY <1>1, <1>2, <1>3, <1>4, <1>5, <1>6, <1>7 DEF Next

\* Sessions implements TokenFamilies, step by step.
THEOREM SessionsRefineFamilies == Spec => RefinesTokenFamilies
<1>1. Init => FamilyInv /\ DeviceInv /\ Families!Init
  BY FamilyInit
<1>2. Inv /\ Inv' /\ FamilyInv /\ DeviceInv /\ [Next]_vars
      => FamilyInv' /\ DeviceInv' /\ [Families!Next]_Families!vars
  BY FamilyNext
<1> QED
  BY <1>1, <1>2, InvHolds, PTL DEF Spec, RefinesTokenFamilies, Families!Spec

\* A device has at most one live session, however its logins race.
THEOREM DevicesHaveOneSession == Spec => []OneSessionPerDevice
<1>1. Init => FamilyInv /\ DeviceInv
  BY FamilyInit
<1>2. Inv /\ Inv' /\ FamilyInv /\ DeviceInv /\ [Next]_vars => FamilyInv' /\ DeviceInv'
  BY FamilyNext
<1>3. DeviceInv => OneSessionPerDevice
  BY DEF DeviceInv, OneSessionPerDevice, LiveSessions
<1> QED
  BY <1>1, <1>2, <1>3, InvHolds, PTL DEF Spec
=============================================================================

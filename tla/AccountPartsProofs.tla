------------------------- MODULE AccountPartsProofs -------------------------
(***************************************************************************)
(* Proofs about AccountParts, for any number of accounts, requests, tokens *)
(* and jobs: of Identities (whose names are as they are), of OneTimeTokens *)
(* (mails) and RateLimits (limits), and of the sum.  What it says of the   *)
(* push tokens is proved in PushTokensProofs.                              *)
(***************************************************************************)
EXTENDS AccountParts, FiniteSetTheorems, TLAPS

-----------------------------------------------------------------------------
(* Identities: the inductive invariant. *)

\* A row of a live account has an address, and no other row has one.
IsAddressed(a) == a.status \in {"ACTIVE", "SUSPENDED"} <=> a.email # None

\* A request under way has its claims; one that connects has a user that is or was one;
\* once it has read that user, the address is the one it read until the user is erased.
InFlight(r, rows) ==
    /\ r.pc # "idle" => r.subject \in Subjects /\ r.email \in Emails
    /\ r.pc \in {"require", "reads", "verify", "insert"} =>
           r.user \in Users /\ rows[r.user].status # "none"
    /\ r.pc \in {"verify", "insert"} => rows[r.user].email \in {r.seen.email, None}

AddressesAreUnique(rows) ==
    \A u, v \in Users : u # v /\ rows[u].email = rows[v].email => rows[u].email = None

RowsAreProven(rows, pairs) ==
    \A u \in Users : rows[u].status \in {"ACTIVE", "SUSPENDED"} /\ rows[u].verified =>
        <<u, rows[u].email>> \in pairs

IdentitiesAreUnique(rows) ==
    \A q, r \in rows : q # r => q.user # r.user /\ q.subject # r.subject

RowsInv == /\ account \in [Users -> Account] /\ \A u \in Users : IsAddressed(account[u])
           /\ proven \subseteq Users \X Emails
           /\ AddressesAreUnique(account) /\ RowsAreProven(account, proven)

RequestsInv == req \in [Procs -> Request] /\ \A p \in Procs : InFlight(req[p], account)

LinksInv == /\ identity \subseteq Identity /\ late \subseteq Users
            /\ IdentitiesAreUnique(identity) /\ ErasedIsUnlinked
            /\ \A r \in identity : account[r.user].status # "none"

Inv == RowsInv /\ RequestsInv /\ LinksInv

-----------------------------------------------------------------------------
(* Records. *)

LEMMA EmptyRecords ==
    /\ NoAccount \in Account /\ NoAccount.status = "none" /\ NoAccount.email = None
    /\ IdleRequest \in Request /\ IdleRequest.pc = "idle"
BY DEF NoAccount, Account, IdleRequest, Asking, Request

LEMMA AskingIsARequest ==
    ASSUME NEW s \in Subjects, NEW e \in Emails, NEW u \in Users \cup {None},
           NEW pc \in {"identity", "require"}
    PROVE  /\ Asking(pc, s, e, u) \in Request /\ Asking(pc, s, e, u).pc = pc
           /\ Asking(pc, s, e, u).subject = s /\ Asking(pc, s, e, u).email = e
           /\ Asking(pc, s, e, u).user = u
BY EmptyRecords DEF Asking, Request

LEMMA NewAccountIsARow ==
    ASSUME NEW e \in Emails, NEW vouched \in BOOLEAN, NEW secret \in BOOLEAN
    PROVE  /\ NewAccount(e, vouched, secret) \in Account
           /\ NewAccount(e, vouched, secret).status = "ACTIVE"
           /\ NewAccount(e, vouched, secret).email = e
           /\ NewAccount(e, vouched, secret).verified = vouched
BY DEF NewAccount, Account

LEMMA WrittenRow ==
    ASSUME NEW a \in Account
    PROVE  /\ \A s \in {"ACTIVE", "SUSPENDED", "DELETED"} :
                  /\ [a EXCEPT !.status = s] \in Account
                  /\ [a EXCEPT !.status = s].status = s
                  /\ [a EXCEPT !.status = s].email = a.email
                  /\ [a EXCEPT !.status = s].verified = a.verified
           /\ [a EXCEPT !.verified = TRUE] \in Account
           /\ [a EXCEPT !.verified = TRUE].status = a.status
           /\ [a EXCEPT !.verified = TRUE].email = a.email
BY DEF Account

LEMMA GoingRequest ==
    ASSUME NEW r \in Request, NEW pc \in {"email", "create", "again", "reads"}
    PROVE  LET m == [r EXCEPT !.pc = pc]
           IN  /\ m \in Request /\ m.pc = pc
               /\ m.subject = r.subject /\ m.email = r.email /\ m.user = r.user
BY DEF Request

-----------------------------------------------------------------------------
(* Steps. *)

\* A row is written so that the rows stay right: an address is given to an unused row only
\* and if nobody has it, and whatever is verified is proven.
LEMMA RowWritten ==
    ASSUME NoneIsNoClaim, RowsInv, NEW u \in Users, NEW a \in Account,
           account' = [account EXCEPT ![u] = a], IsAddressed(a), a.status # "none",
           \/ a.email = account[u].email \/ a.email = None
           \/ account[u].status = "none" /\ ~EmailTaken(a.email),
           proven \subseteq proven', proven' \subseteq Users \X Emails,
           a.status \in {"ACTIVE", "SUSPENDED"} /\ a.verified => <<u, a.email>> \in proven'
    PROVE  RowsInv' /\ \A r : InFlight(r, account) => InFlight(r, account')
<1>1. account' \in [Users -> Account] /\ account'[u] = a
      /\ \A v \in Users \ {u} : account'[v] = account[v]
  BY DEF RowsInv
<1>2. \A v \in Users : IsAddressed(account'[v])
  BY <1>1 DEF RowsInv
<1>3. AddressesAreUnique(account')
  BY <1>1 DEF RowsInv, AddressesAreUnique, EmailTaken
<1>4. RowsAreProven(account', proven')
  <2> SUFFICES ASSUME NEW v \in Users, account'[v].status \in {"ACTIVE", "SUSPENDED"},
                      account'[v].verified
               PROVE  <<v, account'[v].email>> \in proven'
    BY Zenon DEF RowsAreProven
  <2>1. CASE v = u
    BY <1>1, <2>1
  <2>2. CASE v # u
    <3>1. account'[v] = account[v]
      BY <1>1, <2>2
    <3> QED
      BY <3>1, Zenon DEF RowsInv, RowsAreProven
  <2> QED
    BY <2>1, <2>2
<1>5. ASSUME NEW r, InFlight(r, account) PROVE InFlight(r, account')
  <2>1. account[u].status = "none" => account[u].email = None
    BY DEF RowsInv, IsAddressed
  <2> QED
    BY <1>1, <1>5, <2>1 DEF InFlight
<1> QED
  BY <1>1, <1>2, <1>3, <1>4, <1>5 DEF RowsInv

\* One request goes on, and the others stand.
LEMMA RequestGoesOn ==
    ASSUME RequestsInv, NEW p \in Procs, NEW r \in Request, req' = [req EXCEPT ![p] = r],
           InFlight(r, account), account' = account
    PROVE  RequestsInv'
BY DEF RequestsInv

\* A request ends, while rows are written.
LEMMA RequestEnds ==
    ASSUME RequestsInv, NEW p \in Procs, Ends(p),
           \A r : InFlight(r, account) => InFlight(r, account')
    PROVE  RequestsInv'
BY EmptyRecords DEF RequestsInv, Ends, InFlight

\* The steps of a sign-in or of a link that write nothing.
ReadOnly(p) ==
    \/ SignIn(p) \/ RefuseSignIn(p) \/ IdentityUnknown(p) \/ RequireLink(p)
    \/ EmailUnknown(p) \/ IdentityRaced(p) \/ RequireUser(p) \/ LinkReads(p)
    \/ LinkRaced(p) \/ RequestFails(p)

LEMMA ReadOnlyStep ==
    ASSUME NoneIsNoClaim, Inv, NEW p \in Procs, ReadOnly(p) PROVE Inv'
<1>1. UNCHANGED <<account, identity, proven, late>>
  BY DEF ReadOnly, SignIn, RefuseSignIn, IdentityUnknown, RequireLink, EmailUnknown,
         IdentityRaced, RequireUser, LinkReads, LinkRaced, RequestFails
<1>2. RowsInv' /\ LinksInv'
  BY <1>1 DEF Inv, RowsInv, LinksInv, AddressesAreUnique, RowsAreProven,
              IdentitiesAreUnique, ErasedIsUnlinked
<1>3. req[p] \in Request /\ InFlight(req[p], account)
  BY DEF Inv, RequestsInv
<1>4. CASE Ends(p)
  <2>1. RequestsInv /\ \A r : InFlight(r, account) => InFlight(r, account')
    BY <1>1 DEF Inv
  <2>2. RequestsInv'
    BY <1>4, <2>1, RequestEnds
  <2> QED
    BY <1>2, <2>2 DEF Inv
<1>5. ASSUME NEW pc \in {"email", "create", "again"}, req[p].pc # "idle", Goes(p, pc)
      PROVE  RequestsInv'
  <2>1. InFlight([req[p] EXCEPT !.pc = pc], account)
    BY <1>3, <1>5, GoingRequest DEF InFlight
  <2>2. req' = [req EXCEPT ![p] = [req[p] EXCEPT !.pc = pc]]
    BY <1>5 DEF Goes
  <2> QED
    BY <1>1, <1>3, <2>1, <2>2, GoingRequest, RequestGoesOn DEF Inv
<1>6. ASSUME req[p].pc = "require", Goes(p, "reads") PROVE RequestsInv'
  <2>1. InFlight([req[p] EXCEPT !.pc = "reads"], account)
    BY <1>3, <1>6, GoingRequest DEF InFlight
  <2>2. req' = [req EXCEPT ![p] = [req[p] EXCEPT !.pc = "reads"]]
    BY <1>6 DEF Goes
  <2> QED
    BY <1>1, <1>3, <2>1, <2>2, GoingRequest, RequestGoesOn DEF Inv
<1>7. CASE LinkReads(p)
  <2> DEFINE a == account[req[p].user]
             m(pc) == [req[p] EXCEPT !.pc = pc, !.seen = a]
  <2>1. req[p].user \in Users /\ a \in Account
    BY <1>3, <1>7 DEF LinkReads, InFlight, Inv, RowsInv
  <2>2. ASSUME NEW pc \in {"verify", "insert"}
        PROVE  m(pc) \in Request /\ InFlight(m(pc), account)
    <3>1. /\ m(pc) \in Request /\ m(pc).pc = pc /\ m(pc).seen = a
          /\ m(pc).subject = req[p].subject /\ m(pc).email = req[p].email
          /\ m(pc).user = req[p].user
      BY <1>3, <2>1 DEF Request
    <3>2. req[p].pc = "reads"
      BY <1>7 DEF LinkReads
    <3> HIDE DEF m
    <3> QED
      BY <1>3, <2>1, <3>1, <3>2 DEF InFlight
  <2>3. \/ req' = [req EXCEPT ![p] = m("verify")] \/ req' = [req EXCEPT ![p] = m("insert")]
        \/ Ends(p)
    BY <1>7 DEF LinkReads, Ends
  <2>4. RequestsInv
    BY DEF Inv
  <2> HIDE DEF m
  <2> QED
    BY <1>1, <1>2, <1>4, <2>2, <2>3, <2>4, RequestGoesOn DEF Inv
<1> QED
  <2>1. CASE SignIn(p) \/ RefuseSignIn(p) \/ RequireLink(p) \/ LinkRaced(p) \/ RequestFails(p)
    BY <1>2, <1>4, <2>1 DEF Inv, SignIn, RefuseSignIn, RequireLink, LinkRaced, RequestFails
  <2>2. CASE IdentityUnknown(p) \/ EmailUnknown(p) \/ IdentityRaced(p)
    BY <1>2, <1>5, <2>2 DEF Inv, IdentityUnknown, EmailUnknown, IdentityRaced
  <2>3. CASE RequireUser(p)
    BY <1>2, <1>4, <1>6, <2>3 DEF Inv, RequireUser
  <2> QED
    BY <1>2, <1>7, <2>1, <2>2, <2>3 DEF ReadOnly

\* The steps that write a row, and no identity.
LEMMA RowStep ==
    ASSUME NoneIsNoClaim, Inv, NEW u \in Users,
           \/ \E e \in Emails : Register(u, e)
           \/ \E s \in {"ACTIVE", "SUSPENDED"} : SetStatus(u, s)
           \/ VerifyByMail(u)
    PROVE  Inv'
<1> DEFINE a == account'[u]
<1>0. account[u] \in Account /\ IsAddressed(account[u])
  BY DEF Inv, RowsInv
<1>1. UNCHANGED <<identity, req, late>>
  BY DEF Register, SetStatus, VerifyByMail
<1>2. /\ account' = [account EXCEPT ![u] = a] /\ a \in Account /\ IsAddressed(a)
      /\ a.status \in {"ACTIVE", "SUSPENDED"}
      /\ \/ a.email = account[u].email
         \/ account[u].status = "none" /\ ~EmailTaken(a.email)
      /\ proven \subseteq proven' /\ proven' \subseteq Users \X Emails
  <2>1. ASSUME NEW e \in Emails, Register(u, e) PROVE <1>2
    <3> DEFINE n == NewAccount(e, FALSE, TRUE)
    <3>1. n \in Account /\ n.status = "ACTIVE" /\ n.email = e
      BY NewAccountIsARow
    <3>2. /\ account' = [account EXCEPT ![u] = n] /\ proven' = proven
          /\ account[u].status = "none" /\ ~EmailTaken(e)
      BY <2>1 DEF Register
    <3> HIDE DEF n
    <3>3. a = n
      BY <3>2 DEF Inv, RowsInv
    <3> HIDE DEF a
    <3> QED
      BY <3>1, <3>2, <3>3 DEF NoneIsNoClaim, IsAddressed, Inv, RowsInv
  <2>2. ASSUME NEW s \in {"ACTIVE", "SUSPENDED"}, SetStatus(u, s) PROVE <1>2
    <3> DEFINE n == [account[u] EXCEPT !.status = s]
    <3>1. /\ account' = [account EXCEPT ![u] = n] /\ proven' = proven
          /\ account[u].status \in {"ACTIVE", "SUSPENDED"}
      BY <2>2 DEF SetStatus, Live
    <3>2. n \in Account /\ n.status = s /\ n.email = account[u].email
      BY <1>0 DEF Account
    <3> HIDE DEF n
    <3>3. a = n
      BY <3>1 DEF Inv, RowsInv
    <3> HIDE DEF a
    <3> QED
      BY <1>0, <3>1, <3>2, <3>3 DEF IsAddressed, Inv, RowsInv
  <2>3. ASSUME VerifyByMail(u) PROVE <1>2
    <3>1. account[u].email \in Emails /\ account[u].status \in {"ACTIVE", "SUSPENDED"}
      BY <1>0, <2>3 DEF VerifyByMail, Live, IsAddressed, Account
    <3> DEFINE n == [account[u] EXCEPT !.verified = TRUE]
    <3>2. /\ account' = [account EXCEPT ![u] = n]
          /\ proven' = proven \cup {<<u, account[u].email>>}
      BY <2>3 DEF VerifyByMail, Proves
    <3>3. n \in Account /\ n.status = account[u].status /\ n.email = account[u].email
      BY <1>0, WrittenRow
    <3> HIDE DEF n
    <3>4. a = n
      BY <3>2 DEF Inv, RowsInv
    <3> HIDE DEF a
    <3> QED
      BY <1>0, <3>1, <3>2, <3>3, <3>4 DEF IsAddressed, Inv, RowsInv
  <2> QED
    BY <2>1, <2>2, <2>3
<1> HIDE DEF a
<1>2v. a.verified => <<u, a.email>> \in proven'
  <2>1. ASSUME NEW e \in Emails, Register(u, e) PROVE <1>2v
    <3>1. a = NewAccount(e, FALSE, TRUE)
      BY <2>1 DEF a, Register, Inv, RowsInv
    <3> QED
      BY <3>1, NewAccountIsARow
  <2>2. ASSUME NEW s \in {"ACTIVE", "SUSPENDED"}, SetStatus(u, s) PROVE <1>2v
    <3>1. /\ a.verified = account[u].verified /\ a.email = account[u].email
          /\ account[u].status \in {"ACTIVE", "SUSPENDED"} /\ proven' = proven
      BY <1>0, <2>2, WrittenRow DEF a, SetStatus, Live, Inv, RowsInv
    <3> QED
      BY <3>1, Zenon DEF Inv, RowsInv, RowsAreProven
  <2>3. CASE VerifyByMail(u)
    <3>1. a.email = account[u].email /\ proven' = proven \cup {<<u, account[u].email>>}
      BY <1>0, <2>3, WrittenRow DEF a, VerifyByMail, Proves, Inv, RowsInv
    <3> QED
      BY <3>1
  <2> QED
    BY <2>1, <2>2, <2>3
<1>3. RowsInv' /\ \A r : InFlight(r, account) => InFlight(r, account')
  BY <1>2, <1>2v, RowWritten DEF Inv
<1>4. RequestsInv' /\ LinksInv'
  <2>1. RequestsInv'
    BY <1>1, <1>3 DEF Inv, RequestsInv
  <2>2. account'[u] = a /\ \A v \in Users \ {u} : account'[v] = account[v]
    BY <1>2 DEF Inv, RowsInv
  <2>3. LinksInv'
    BY <1>1, <1>2, <2>2 DEF Inv, LinksInv, IdentitiesAreUnique, ErasedIsUnlinked, Identity
  <2> QED
    BY <2>1, <2>3
<1> QED
  BY <1>3, <1>4 DEF Inv

\* The erasure: the row loses its address, and its identities go.
LEMMA EraseStep ==
    ASSUME NoneIsNoClaim, Inv, NEW u \in Users, Erase(u) PROVE Inv'
<1> DEFINE a == [NoAccount EXCEPT !.status = "DELETED"]
<1>1. a \in Account /\ a.status = "DELETED" /\ a.email = None
  BY EmptyRecords, WrittenRow
<1>2. account' = [account EXCEPT ![u] = a] /\ identity' = identity \ IdentitiesOf(u)
      /\ UNCHANGED <<req, proven, late>>
  BY DEF Erase
<1> HIDE DEF a
<1>3. RowsInv' /\ \A r : InFlight(r, account) => InFlight(r, account')
  BY <1>1, <1>2, RowWritten DEF Inv, RowsInv, IsAddressed
<1>4. RequestsInv'
  BY <1>2, <1>3 DEF Inv, RequestsInv
<1>5. LinksInv'
  BY <1>2 DEF Inv, RowsInv, LinksInv, IdentitiesAreUnique, ErasedIsUnlinked, IdentitiesOf
<1> QED
  BY <1>3, <1>4, <1>5 DEF Inv

\* The row a link writes: verified, if its address is the one that is claimed.
LEMMA VerifiedRow ==
    ASSUME NoneIsNoClaim, Inv, NEW p \in Procs, req[p].pc \in {"verify", "insert"},
           account' = [account EXCEPT ![req[p].user] = Verified(p, @)],
           Proves(req[p].user, req[p].email)
    PROVE  RowsInv' /\ \A r : InFlight(r, account) => InFlight(r, account')
<1> DEFINE u == req[p].user
           a == Verified(p, account[u])
<1>1. /\ u \in Users /\ account[u] \in Account /\ account[u].status # "none"
      /\ req[p].email \in Emails /\ IsAddressed(account[u])
      /\ account[u].email \in {req[p].seen.email, None}
  BY DEF Inv, RowsInv, RequestsInv, InFlight
<1>2. /\ a \in Account /\ a.status = account[u].status /\ a.email = account[u].email
      /\ \/ a = account[u] \/ account[u].email \in {req[p].email, None}
  BY <1>1, WrittenRow DEF Verified, Matches
<1>3. account' = [account EXCEPT ![u] = a] /\ proven' = proven \cup {<<u, req[p].email>>}
  BY DEF Proves
<1> HIDE DEF a
<1>4. a.status \in {"ACTIVE", "SUSPENDED"} /\ a.verified => <<u, a.email>> \in proven'
  <2>1. CASE a = account[u]
    BY <1>1, <1>3, <2>1, Zenon DEF Inv, RowsInv, RowsAreProven
  <2>2. CASE account[u].email \in {req[p].email, None}
    BY <1>1, <1>2, <1>3, <2>2 DEF IsAddressed
  <2> QED
    BY <1>2, <2>1, <2>2
<1>5. proven \subseteq proven' /\ proven' \subseteq Users \X Emails
  BY <1>1, <1>3 DEF Inv, RowsInv
<1>6. IsAddressed(a) /\ a.status # "none"
  BY <1>1, <1>2 DEF IsAddressed
<1> QED
  BY <1>1, <1>2, <1>3, <1>4, <1>5, <1>6, RowWritten DEF Inv

\* The steps that write an identity, or a row for one.
LEMMA LinkStep ==
    ASSUME NoneIsNoClaim, Inv, NEW p \in Procs, AlreadyLinked(p) \/ Link(p) PROVE Inv'
<1> DEFINE u == req[p].user
<1>1. req[p].pc \in {"verify", "insert"}
  BY DEF AlreadyLinked, Link
<1>2. RowsInv' /\ \A r : InFlight(r, account) => InFlight(r, account')
  BY <1>1, VerifiedRow DEF AlreadyLinked, Link
<1>3. RequestsInv'
  BY <1>2, RequestEnds DEF Inv, AlreadyLinked, Link
<1>4. /\ u \in Users /\ req[p].subject \in Subjects
      /\ \A v \in Users : account'[v].status = account[v].status
  <2>1. u \in Users /\ req[p].subject \in Subjects /\ account[u] \in Account
    BY <1>1 DEF Inv, RowsInv, RequestsInv, InFlight
  <2>2. account' = [account EXCEPT ![u] = Verified(p, account[u])]
    BY DEF AlreadyLinked, Link
  <2>3. Verified(p, account[u]).status = account[u].status
    BY <2>1, WrittenRow DEF Verified
  <2> QED
    BY <2>1, <2>2, <2>3 DEF Inv, RowsInv
<1>5. CASE AlreadyLinked(p)
  <2>1. LinksInv'
    BY <1>4, <1>5
       DEF AlreadyLinked, Inv, LinksInv, IdentitiesAreUnique, ErasedIsUnlinked, Identity
  <2> QED
    BY <1>2, <1>3, <2>1 DEF Inv
<1>6. CASE Link(p)
  <2> DEFINE row == [user |-> u, subject |-> req[p].subject]
  <2>1. row \in Identity /\ row.user = u /\ row.subject = req[p].subject
    BY <1>4 DEF Identity
  <2>2. /\ identity' = identity \cup {row}
        /\ \A r \in identity : r.subject # row.subject /\ r.user # u
        /\ late' = IF Live(u) THEN late ELSE late \cup {u}
    BY <1>6, <2>1 DEF Link
  <2> HIDE DEF row
  <2>3. identity' \subseteq Identity /\ late' \subseteq Users
    BY <1>4, <2>1, <2>2 DEF Inv, LinksInv
  <2>4. IdentitiesAreUnique(identity')
    BY <2>1, <2>2 DEF Inv, LinksInv, IdentitiesAreUnique
  <2>5. ErasedIsUnlinked'
    BY <1>4, <2>1, <2>2 DEF Inv, LinksInv, ErasedIsUnlinked, Live
  <2>6. \A r \in identity' : account'[r.user].status # "none"
    <3>1. account[u].status # "none"
      BY <1>1 DEF Inv, RequestsInv, InFlight
    <3> QED
      BY <1>4, <2>1, <2>2, <3>1 DEF Inv, LinksInv, Identity
  <2> QED
    BY <1>2, <1>3, <2>3, <2>4, <2>5, <2>6 DEF Inv, LinksInv
<1> QED
  BY <1>5, <1>6

\* A new user with an identity.
LEMMA CreateStep ==
    ASSUME NoneIsNoClaim, Inv, NEW p \in Procs, NEW u \in Users, CreateUser(p, u) PROVE Inv'
<1> DEFINE a == NewAccount(req[p].email, TRUE, FALSE)
           row == [user |-> u, subject |-> req[p].subject]
<1>1. /\ req[p].email \in Emails /\ req[p].subject \in Subjects
      /\ account[u].status = "none" /\ ~EmailTaken(req[p].email) /\ ~Linked(req[p].subject)
  BY DEF CreateUser, NothingIsTaken, Inv, RequestsInv, InFlight
<1>2. a \in Account /\ a.status = "ACTIVE" /\ a.email = req[p].email
  BY <1>1, NewAccountIsARow
<1>3. row \in Identity /\ row.user = u /\ row.subject = req[p].subject
  BY <1>1 DEF Identity
<1>4. /\ account' = [account EXCEPT ![u] = a] /\ identity' = identity \cup {row}
      /\ proven' = proven \cup {<<u, req[p].email>>} /\ late' = late /\ Ends(p)
  BY DEF CreateUser, NewIdentity, Proves
<1> HIDE DEF a, row
<1>5. IsAddressed(a) /\ proven \subseteq proven' /\ proven' \subseteq Users \X Emails
  BY <1>1, <1>2, <1>4 DEF IsAddressed, NoneIsNoClaim, Inv, RowsInv
<1>6. RowsInv' /\ \A r : InFlight(r, account) => InFlight(r, account')
  BY <1>1, <1>2, <1>4, <1>5, RowWritten DEF Inv
<1>7. RequestsInv'
  BY <1>4, <1>6, RequestEnds DEF Inv
<1>8. \A r \in identity : r.subject # row.subject
  BY <1>1, <1>3 DEF Linked
<1>9. \A r \in identity : r.user # u
  BY <1>1 DEF Inv, LinksInv
<1>10. LinksInv'
  <2>1. identity' \subseteq Identity /\ late' \subseteq Users
    BY <1>3, <1>4 DEF Inv, LinksInv
  <2>2. IdentitiesAreUnique(identity')
    BY <1>3, <1>4, <1>8, <1>9 DEF Inv, LinksInv, IdentitiesAreUnique
  <2>3. ErasedIsUnlinked' /\ \A r \in identity' : account'[r.user].status # "none"
    BY <1>2, <1>3, <1>4 DEF Inv, RowsInv, LinksInv, ErasedIsUnlinked
  <2> QED
    BY <2>1, <2>2, <2>3 DEF LinksInv
<1> QED
  BY <1>6, <1>7, <1>10 DEF Inv

\* A request begins.
LEMMA BeginStep ==
    ASSUME NoneIsNoClaim, Inv, NEW p \in Procs, NEW s \in Subjects, NEW e \in Emails,
           Exchange(p, s, e) \/ \E u \in Users : Connect(p, u, s, e)
    PROVE  Inv'
<1>1. UNCHANGED <<account, identity, proven, late>>
  BY DEF Exchange, Connect
<1>2. RowsInv' /\ LinksInv'
  BY <1>1 DEF Inv, RowsInv, LinksInv, AddressesAreUnique, RowsAreProven,
              IdentitiesAreUnique, ErasedIsUnlinked
<1>3. ASSUME NEW r \in Request, InFlight(r, account), req' = [req EXCEPT ![p] = r]
      PROVE  RequestsInv'
  BY <1>1, <1>3, RequestGoesOn DEF Inv
<1>4. ASSUME Exchange(p, s, e) PROVE RequestsInv'
  <2> DEFINE r == Asking("identity", s, e, None)
  <2>1. r \in Request /\ InFlight(r, account)
    BY AskingIsARequest DEF InFlight
  <2> QED
    BY <1>3, <1>4, <2>1 DEF Exchange
<1>5. ASSUME NEW u \in Users, Connect(p, u, s, e) PROVE RequestsInv'
  <2> DEFINE r == Asking("require", s, e, u)
  <2>1. r \in Request /\ InFlight(r, account)
    BY <1>5, AskingIsARequest DEF Connect, InFlight
  <2> QED
    BY <1>3, <1>5, <2>1 DEF Connect
<1> QED
  BY <1>2, <1>4, <1>5 DEF Inv

-----------------------------------------------------------------------------
(* The theorems. *)

LEMMA InvInit == ASSUME Init PROVE Inv
<1>1. RequestsInv
  BY EmptyRecords DEF Init, RequestsInv, InFlight
<1>2. RowsInv /\ LinksInv
  BY EmptyRecords DEF Init, RowsInv, LinksInv, IsAddressed, AddressesAreUnique,
                      RowsAreProven, IdentitiesAreUnique, ErasedIsUnlinked
<1> QED
  BY <1>1, <1>2 DEF Inv

LEMMA InvNext == ASSUME NoneIsNoClaim, Inv, [Next]_vars PROVE Inv'
<1>1. ASSUME NEW u \in Users,
             \/ \E e \in Emails : Register(u, e)
             \/ \E s \in {"ACTIVE", "SUSPENDED"} : SetStatus(u, s)
             \/ VerifyByMail(u)
      PROVE  Inv'
  BY <1>1, RowStep
<1>2. ASSUME NEW u \in Users, Erase(u) PROVE Inv'
  BY <1>2, EraseStep
<1>3. ASSUME NEW p \in Procs, NEW s \in Subjects, NEW e \in Emails,
             Exchange(p, s, e) \/ \E u \in Users : Connect(p, u, s, e)
      PROVE  Inv'
  BY <1>3, BeginStep
<1>4. ASSUME NEW p \in Procs, Proceed(p) PROVE Inv'
  BY <1>4, ReadOnlyStep, LinkStep, CreateStep DEF Proceed, ReadOnly
<1>5. CASE UNCHANGED vars
  BY <1>5 DEF vars, Inv, RowsInv, RequestsInv, LinksInv, AddressesAreUnique, RowsAreProven,
              IdentitiesAreUnique, ErasedIsUnlinked
<1> QED
  BY <1>1, <1>2, <1>3, <1>4, <1>5 DEF Next

LEMMA InvHolds == Spec => []Inv
<1>1. Init => Inv
  BY InvInit
<1>2. Inv /\ [Next]_vars => Inv'
  BY InvNext, NoneIsNoClaim
<1> QED
  BY <1>1, <1>2, PTL DEF Spec

\* Every variable has its type in every reachable state.
LEMMA IdentitiesTyped == Spec => []TypeOK
<1>1. Inv => TypeOK
  BY DEF Inv, RowsInv, RequestsInv, LinksInv, TypeOK
<1> QED
  BY <1>1, InvHolds, PTL

\* However many registrations, exchanges and links race, no address and no subject belongs
\* to two accounts, and no account has two identities.
THEOREM AccountsStayUnique == Spec => []AccountsAreUnique
<1>1. Inv => AccountsAreUnique
  BY DEF Inv, RowsInv, LinksInv, AddressesAreUnique, IdentitiesAreUnique, AccountsAreUnique
<1> QED
  BY <1>1, InvHolds, PTL

\* An address is verified only if its owner has vouched for it.
THEOREM VerifiedAddressesAreProven == Spec => []VerifiedIsProven
<1>1. Inv => VerifiedIsProven
  BY Zenon DEF Inv, RowsInv, RowsAreProven, VerifiedIsProven, Live
<1> QED
  BY <1>1, InvHolds, PTL

\* An erased account keeps no identity, but for one whose link was under way.
THEOREM ErasedAccountsAreUnlinked == Spec => []ErasedIsUnlinked
<1>1. Inv => ErasedIsUnlinked
  BY DEF Inv, LinksInv
<1> QED
  BY <1>1, InvHolds, PTL

-----------------------------------------------------------------------------
(* The mails: types. *)

LEMMA MailsAreSound == JobAttempts \in Nat \ {0} /\ None \notin Tokens \cup mails!Kinds
BY AttemptsAreAllowed, NoneIsNoToken DEF mails!Kinds

\* A token row has a kind, and a job in progress has one too; a job that sends has
\* created a token of its kind.
Issued ==
    /\ \A t \in Tokens : token[t].kind = None => token[t] = mails!NoToken
    /\ \A i \in Jobs : job[i].state # "none" => job[i].kind \in mails!Kinds
    /\ \A i \in Jobs : job[i].state = "send" =>
           job[i].token \in Tokens /\ token[job[i].token].kind # None

MailsTyped == mails!TypeOK /\ Issued

\* A job that is put off, or ends, is a job.
LEMMA RetriedIsAJob ==
    ASSUME NEW j \in mails!Job
    PROVE  /\ mails!Retried(j) \in mails!Job
           /\ mails!Retried(j).kind = j.kind /\ mails!Retried(j).state \in {"queued", "failed"}
           /\ \A s \in {"done", "failed"} :
                 /\ mails!Over(j, s) \in mails!Job
                 /\ mails!Over(j, s).kind = j.kind /\ mails!Over(j, s).state = s
BY MailsAreSound DEF mails!Retried, mails!Over, mails!InState, mails!Job

\* A row that is written in part is a row, and keeps its kind.
LEMMA WrittenToken ==
    ASSUME NEW r \in mails!Token
    PROVE  /\ \A s \in {"none", "used", "revoked"} :
                  /\ [r EXCEPT !.state = s] \in mails!Token
                  /\ [r EXCEPT !.state = s].kind = r.kind
           /\ [r EXCEPT !.expired = TRUE] \in mails!Token
           /\ [r EXCEPT !.expired = TRUE].kind = r.kind
           /\ \A b \in BOOLEAN :
                  /\ [r EXCEPT !.mailed = b] \in mails!Token
                  /\ [r EXCEPT !.mailed = b].kind = r.kind
BY DEF mails!Token

\* The initial states satisfy the invariant.
LEMMA MailsTypedInit == ASSUME mails!Init PROVE MailsTyped
<1>1. erased \in BOOLEAN /\ verified \in BOOLEAN /\ hasPassword \in BOOLEAN
  BY DEF mails!Init
<1>2. mails!NoToken \in mails!Token
  BY DEF mails!NoToken, mails!Token, mails!Kinds
<1>3. mails!NoJob \in mails!Job
  BY MailsAreSound DEF mails!NoJob, mails!InState, mails!Job, mails!Kinds
<1>4. Issued
  BY DEF mails!Init, Issued, mails!NoJob, mails!InState
<1> QED
  BY <1>1, <1>2, <1>3, <1>4 DEF mails!Init, MailsTyped, mails!TypeOK

\* Every step of a job preserves the invariant.
LEMMA MailsTypedWork ==
    ASSUME MailsTyped, NEW i \in Jobs, mails!Work(i) PROVE MailsTyped'
<1> USE DEF MailsTyped
<1>1. CASE mails!ReadUser(i)
  <2>1. job[i] \in mails!Job
    BY DEF mails!TypeOK
  <2> QED
    BY <1>1, <2>1, RetriedIsAJob DEF mails!ReadUser, mails!TypeOK, Issued, mails!Job
<1>2. ASSUME NEW t \in Tokens, mails!InsertToken(i, t) PROVE MailsTyped'
  <2>1. job[i] \in mails!Job /\ job[i].kind \in mails!Kinds
    BY <1>2 DEF mails!InsertToken, mails!TypeOK, Issued
  <2>2. /\ mails!NewToken(job[i].kind) \in mails!Token
        /\ mails!NewToken(job[i].kind).kind \in mails!Kinds
    BY <2>1 DEF mails!NewToken, mails!Token
  <2>3. /\ job' \in [Jobs -> mails!Job] /\ job'[i].kind = job[i].kind /\ job'[i].token = t
        /\ \A k \in Jobs \ {i} : job'[k] = job[k]
    BY <1>2, <2>1 DEF mails!InsertToken, mails!TypeOK, mails!Job
  <2>4. mails!TypeOK'
    BY <1>2, <2>2, <2>3 DEF mails!InsertToken, mails!TypeOK
  <2>5. Issued'
    BY <1>2, <2>1, <2>2, <2>3, MailsAreSound DEF mails!InsertToken, mails!TypeOK, Issued
  <2> QED
    BY <2>4, <2>5
<1>3. CASE mails!SendEmail(i)
  <2> DEFINE t == job[i].token
  <2>1. /\ t \in Tokens /\ token[t] \in mails!Token /\ token[t].kind # None
        /\ job[i] \in mails!Job
    BY <1>3 DEF mails!SendEmail, mails!TypeOK, Issued
  <2>2. /\ job' \in [Jobs -> mails!Job] /\ job'[i].kind = job[i].kind /\ job'[i].state = "sent"
        /\ \A k \in Jobs \ {i} : job'[k] = job[k]
    BY <1>3, <2>1 DEF mails!SendEmail, mails!TypeOK, mails!Job
  <2>3. token' = [token EXCEPT ![t] = [@ EXCEPT !.mailed = token[t].state # "none"]]
    BY <1>3 DEF mails!SendEmail
  <2>4. mails!TypeOK'
    BY <1>3, <2>1, <2>2, <2>3, WrittenToken DEF mails!SendEmail, mails!TypeOK
  <2>5. Issued'
    BY <1>3, <2>1, <2>2, <2>3, WrittenToken DEF mails!SendEmail, mails!TypeOK, Issued
  <2> QED
    BY <2>4, <2>5
<1>4. CASE mails!Complete(i) \/ mails!JobFails(i)
  <2>1. job[i] \in mails!Job
    BY DEF mails!TypeOK
  <2> QED
    BY <1>4, <2>1, RetriedIsAJob
       DEF mails!Complete, mails!JobFails, mails!TypeOK, Issued, mails!Job
<1> QED
  BY <1>1, <1>2, <1>3, <1>4 DEF mails!Work

\* Every step preserves the invariant.
LEMMA MailsTypedNext ==
    ASSUME MailsTyped, [mails!Next]_mails!vars PROVE MailsTyped'
<1> USE DEF MailsTyped
<1>1. ASSUME NEW i \in Jobs, NEW kind \in mails!Kinds, mails!Enqueue(kind, i) PROVE MailsTyped'
  BY <1>1, MailsAreSound DEF mails!Enqueue, mails!InState, mails!TypeOK, Issued, mails!Job
<1>2. ASSUME NEW t \in Tokens, mails!Verify(t) \/ mails!Expire(t) PROVE MailsTyped'
  <2>1. token[t] \in mails!Token /\ token[t].kind # None
    BY <1>2, MailsAreSound
       DEF mails!Verify, mails!Expire, mails!TypeOK, Issued, mails!NoToken, mails!Kinds
  <2>2. \/ token' = [token EXCEPT ![t] = [@ EXCEPT !.state = "used"]]
        \/ token' = [token EXCEPT ![t] = [@ EXCEPT !.expired = TRUE]]
    BY <1>2 DEF mails!Verify, mails!Expire
  <2>3. token' \in [Tokens -> mails!Token] /\ token'[t].kind = token[t].kind
    BY <2>1, <2>2, WrittenToken DEF mails!TypeOK
  <2>4. /\ UNCHANGED <<password, job, stale, issuedLate>>
        /\ \A s \in Tokens \ {t} : token'[s] = token[s]
    BY <1>2 DEF mails!Verify, mails!Expire, mails!TypeOK
  <2>5. UNCHANGED <<erased, hasPassword>> /\ verified' \in BOOLEAN
    BY <1>2, Zenon DEF mails!Verify, mails!Expire, mails!TypeOK
  <2>6. mails!TypeOK'
    BY <2>3, <2>4, <2>5 DEF mails!TypeOK
  <2>7. Issued'
    BY <2>1, <2>3, <2>4 DEF mails!TypeOK, Issued
  <2> QED
    BY <2>6, <2>7
<1>3. ASSUME NEW t \in Tokens, mails!Reset(t) PROVE MailsTyped'
  <2>1. \A s \in Tokens : /\ token[s] \in mails!Token
                          /\ token'[s] # token[s] => token[s].kind # None
    BY <1>3, MailsAreSound DEF mails!Reset, mails!Others, mails!TypeOK, Issued, mails!Kinds
  <2>2. \A s \in Tokens : token'[s] \in mails!Token /\ token'[s].kind = token[s].kind
    BY <1>3, <2>1, WrittenToken DEF mails!Reset
  <2>3. token' \in [Tokens -> mails!Token]
    BY <1>3, <2>2 DEF mails!Reset
  <2> QED
    BY <1>3, <2>1, <2>2, <2>3 DEF mails!Reset, mails!TypeOK, Issued
<1>4. CASE mails!ChangePassword
  BY <1>4 DEF mails!ChangePassword, mails!TypeOK, Issued
<1>5. CASE mails!Erase
  <2>1. \A s \in Tokens : token'[s] \in mails!Token /\ token'[s].kind = token[s].kind
    BY <1>5, WrittenToken DEF mails!Erase, mails!TokensDeleted, mails!TypeOK
  <2>2. \A s \in Tokens : token[s] = mails!NoToken => token'[s] = mails!NoToken
    BY <1>5 DEF mails!Erase, mails!TokensDeleted, mails!NoToken
  <2> QED
    BY <1>5, <2>1, <2>2 DEF mails!Erase, mails!TokensDeleted, mails!TypeOK, Issued
<1>6. CASE UNCHANGED mails!vars
  BY <1>6 DEF mails!vars, mails!TypeOK, Issued
<1> QED
  BY <1>1, <1>2, <1>3, <1>4, <1>5, <1>6, MailsTypedWork DEF mails!Next

-----------------------------------------------------------------------------
(* The reset and the erasure. *)

\* What a reset meets are reset tokens.
StaleAreResets == \A t \in stale : token[t].kind = "reset"

MailsInv ==
    MailsTyped /\ StaleAreResets /\ mails!ResetEndsOlderTokens /\ mails!ErasedKeepsNothing

\* A step of a job makes no row usable but one that was not issued, and issues one after
\* an erasure only as a late one.
LEMMA MailsWork ==
    ASSUME MailsTyped, NEW i \in Jobs, mails!Work(i)
    PROVE  /\ UNCHANGED <<erased, verified, hasPassword, stale>>
           /\ \A s \in Tokens :
                 \/ token'[s].state = token[s].state /\ token'[s].kind = token[s].kind
                 \/ token[s].kind = None /\ (erased => issuedLate' # {})
           /\ issuedLate \subseteq issuedLate'
<1>1. ASSUME NEW t \in Tokens, mails!InsertToken(i, t)
      PROVE  /\ UNCHANGED <<erased, verified, hasPassword, stale>>
             /\ issuedLate \subseteq issuedLate'
             /\ erased => issuedLate' # {}
             /\ token[t].kind = None /\ \A s \in Tokens \ {t} : token'[s] = token[s]
  BY <1>1 DEF mails!InsertToken, MailsTyped, mails!TypeOK
<1>2. CASE mails!SendEmail(i)
  <2>1. /\ job[i].token \in Tokens
        /\ token' = [token EXCEPT ![job[i].token] =
                       [@ EXCEPT !.mailed = token[job[i].token].state # "none"]]
    BY <1>2 DEF mails!SendEmail, MailsTyped, Issued
  <2> QED
    BY <1>2, <2>1 DEF mails!SendEmail, MailsTyped, mails!TypeOK, mails!Token
<1>3. CASE mails!ReadUser(i) \/ mails!Complete(i) \/ mails!JobFails(i)
  BY <1>3 DEF mails!ReadUser, mails!Complete, mails!JobFails
<1> QED
  BY <1>1, <1>2, <1>3 DEF mails!Work

\* The initial states satisfy the invariant.
LEMMA MailsInit == ASSUME mails!Init PROVE MailsInv
BY MailsTypedInit
   DEF mails!Init, MailsInv, StaleAreResets, mails!ResetEndsOlderTokens,
       mails!ErasedKeepsNothing

\* Every step preserves the invariant: a reset revokes the others, nothing makes a row
\* usable again, and an erased account has no token to present.
LEMMA MailsNext ==
    ASSUME MailsInv, [mails!Next]_mails!vars PROVE MailsInv'
<1> USE DEF MailsInv
<1> DEFINE Safe == StaleAreResets /\ mails!ResetEndsOlderTokens /\ mails!ErasedKeepsNothing
<1>1. MailsTyped'
  BY MailsTypedNext
<1>2. ASSUME NEW i \in Jobs, mails!Work(i) PROVE Safe'
  <2>1. \A s \in stale : s \in Tokens /\ token[s].kind # None
    BY MailsAreSound DEF MailsTyped, mails!TypeOK, StaleAreResets, mails!Kinds
  <2>2. StaleAreResets' /\ mails!ResetEndsOlderTokens'
    BY <1>2, <2>1, MailsWork DEF StaleAreResets, mails!ResetEndsOlderTokens
  <2>3. mails!ErasedKeepsNothing'
    BY <1>2, MailsWork DEF mails!ErasedKeepsNothing
  <2> QED
    BY <2>2, <2>3
<1>3. ASSUME NEW i \in Jobs, NEW kind \in mails!Kinds, mails!Enqueue(kind, i) PROVE Safe'
  BY <1>3
     DEF mails!Enqueue, StaleAreResets, mails!ResetEndsOlderTokens, mails!ErasedKeepsNothing
<1>4. ASSUME NEW t \in Tokens, mails!Verify(t) \/ mails!Expire(t) PROVE Safe'
  <2>1. /\ \A s \in Tokens \ {t} : token'[s] = token[s]
        /\ token'[t].kind = token[t].kind /\ token'[t].state \in {"used", token[t].state}
        /\ token[t].state # "none" /\ UNCHANGED <<erased, hasPassword, stale, issuedLate>>
    BY <1>4 DEF mails!Verify, mails!Expire, MailsTyped, mails!TypeOK, mails!Token
  <2>2. StaleAreResets' /\ mails!ResetEndsOlderTokens'
    BY <2>1 DEF StaleAreResets, mails!ResetEndsOlderTokens, MailsTyped, mails!TypeOK
  <2>3. mails!ErasedKeepsNothing'
    BY <1>4, <2>1 DEF mails!ErasedKeepsNothing
  <2> QED
    BY <2>2, <2>3
<1>5. ASSUME NEW t \in Tokens, mails!Reset(t) PROVE Safe'
  <2>1. /\ \A s \in mails!Others(t) \cup {t} : token'[s].state # "fresh"
        /\ \A s \in Tokens : token'[s].kind = token[s].kind
        /\ \A s \in Tokens \ (mails!Others(t) \cup {t}) : token'[s] = token[s]
    BY <1>5 DEF mails!Reset, mails!Others, MailsTyped, mails!TypeOK, mails!Token
  <2>2. \A s \in Tokens \ (mails!Others(t) \cup {t}) :
            token[s].kind = "reset" => token[s].state # "fresh"
    BY DEF mails!Others
  <2>3. StaleAreResets' /\ mails!ResetEndsOlderTokens'
    BY <1>5, <2>1, <2>2
       DEF mails!Reset, StaleAreResets, mails!ResetEndsOlderTokens, MailsTyped, mails!TypeOK
  <2>4. mails!ErasedKeepsNothing'
    BY <1>5 DEF mails!Reset, mails!Usable, mails!ErasedKeepsNothing
  <2> QED
    BY <2>3, <2>4
<1>6. CASE mails!ChangePassword
  <2>1. StaleAreResets' /\ mails!ResetEndsOlderTokens'
    BY <1>6 DEF mails!ChangePassword, StaleAreResets, mails!ResetEndsOlderTokens
  <2>2. mails!ErasedKeepsNothing'
    <3>1. ~erased'
      BY <1>6, Zenon DEF mails!ChangePassword
    <3> QED
      BY <3>1, Zenon DEF mails!ErasedKeepsNothing
  <2> QED
    BY <1>1, <2>1, <2>2
<1>7. CASE mails!Erase
  <2>1. \A s \in Tokens : token'[s].kind = token[s].kind /\ token'[s].state = "none"
    BY <1>7 DEF mails!Erase, mails!TokensDeleted, MailsTyped, mails!TypeOK, mails!Token
  <2>2. StaleAreResets' /\ mails!ResetEndsOlderTokens'
    BY <1>7, <2>1
       DEF mails!Erase, StaleAreResets, mails!ResetEndsOlderTokens, MailsTyped, mails!TypeOK
  <2>3. mails!ErasedKeepsNothing'
    <3>1. ~hasPassword' /\ ~verified'
      BY <1>7, Zenon DEF mails!Erase
    <3> QED
      BY <2>1, <3>1, Zenon DEF mails!ErasedKeepsNothing
  <2> QED
    BY <1>1, <2>2, <2>3
<1>8. CASE UNCHANGED mails!vars
  <2>1. StaleAreResets' /\ mails!ResetEndsOlderTokens'
    BY <1>8 DEF mails!vars, StaleAreResets, mails!ResetEndsOlderTokens
  <2>2. mails!ErasedKeepsNothing'
    BY <1>8, Zenon DEF MailsInv, mails!vars, mails!ErasedKeepsNothing
  <2> QED
    BY <1>1, <2>1, <2>2
<1>9. Safe'
  BY <1>2, <1>3, <1>4, <1>5, <1>6, <1>7, <1>8 DEF mails!Next
<1> QED
  BY <1>1, <1>9

\* The invariant holds in every reachable state.
LEMMA MailsAlways == mails!Spec => []MailsInv
<1>1. mails!Init => MailsInv
  BY MailsInit
<1>2. MailsInv /\ [mails!Next]_mails!vars => MailsInv'
  BY MailsNext
<1> QED
  BY <1>1, <1>2, PTL DEF mails!Spec

-----------------------------------------------------------------------------
(* The limits: the inductive invariant. *)

LEMMA LimitsAreSound ==
    MaxAttempts \in Nat \ {0} /\ MaxCount \in Nat /\ IsFiniteSet(Attempts)
BY AttemptsAreAllowed, CountsReachTheLimit

\* Only a bump has steps, and only that of a mail ends with a cooldown.
StepsFit ==
    \A p \in Attempts :
        /\ limited[p].pc # "bump" => limited[p].step = limits!NoSteps
        /\ \A b \in limits!Buckets :
              limited[p].step[b] = "cooldown" => limiter = "mail" /\ b = "own"

\* The request has counted over the limit and is to set the block.
WillBlock(r, b) == r.step[b] = "block" \/ (r.step[b] = "expire" /\ MaxAttempts = 1)

\* The request may count without another look at the block.
WillCount(r, b) ==
    \/ /\ r.pc = "check" /\ b \in r.buckets \ r.left /\ ~r.refused
       /\ ~(limiter = "mail" /\ b = "own")
    \/ r.pc = "password" /\ b \in r.buckets
    \/ r.step[b] = "incr"

Blocking(b) == {p \in Attempts : WillBlock(limited[p], b)}
Counting(b) == {p \in Attempts : WillCount(limited[p], b)}

\* Each count over the limit belongs to a request that is to set the block; once it is
\* set, only those that have looked already may count.
CountFits(b) ==
    IF b \in block
    THEN counter[b].n + Cardinality(Counting(b)) < MaxAttempts + Cardinality(Attempts)
    ELSE counter[b].n < MaxAttempts + Cardinality(Blocking(b))

CountsFit == \A b \in limits!Buckets \ loose : CountFits(b)

LimitsInv == limits!TypeOK /\ StepsFit /\ limits!CountersExpire /\ CountsFit

-----------------------------------------------------------------------------
(* The helpers, and the initial states. *)

LEMMA IdleIs ==
    /\ limits!IdleRequest \in limits!Request
    /\ limits!IdleRequest.step = limits!NoSteps /\ limits!IdleRequest.pc = "idle"
BY DEF limits!IdleRequest, limits!Request, limits!NoSteps

\* A bump counts in the buckets of its request, except that a mail ends with a cooldown.
LEMMA BumpingIs ==
    ASSUME NEW r \in limits!Request
    PROVE  /\ limits!Bumping(r) \in limits!Request /\ limits!Bumping(r).pc = "bump"
           /\ \A b \in limits!Buckets :
                 /\ limits!Bumping(r).step[b] \in {"no", "incr", "cooldown"}
                 /\ limits!Bumping(r).step[b] = "incr" =>
                       b \in r.buckets /\ ~(limiter = "mail" /\ b = "own")
                 /\ limits!Bumping(r).step[b] = "cooldown" => limiter = "mail" /\ b = "own"
<1> DEFINE s == [b \in limits!Buckets |->
                    CASE b \notin r.buckets -> "no"
                      [] b \in r.buckets /\ b = "own" /\ limiter = "mail" -> "cooldown"
                      [] b \in r.buckets /\ (b # "own" \/ limiter # "mail") -> "incr"]
<1>1. limits!Bumping(r) = [r EXCEPT !.pc = "bump", !.left = {}, !.step = s]
  BY DEF limits!Bumping
<1>2. \A b \in limits!Buckets :
         /\ s[b] \in {"no", "incr", "cooldown"}
         /\ s[b] = "incr" => b \in r.buckets /\ ~(limiter = "mail" /\ b = "own")
         /\ s[b] = "cooldown" => limiter = "mail" /\ b = "own"
  OBVIOUS
<1>3. s \in [limits!Buckets -> {"no", "incr", "expire", "block", "cooldown"}]
  BY <1>2
<1> HIDE DEF s
<1>4. limits!Bumping(r) \in limits!Request
  BY <1>1, <1>3 DEF limits!Request
<1>5. limits!Bumping(r).pc = "bump" /\ limits!Bumping(r).step = s
  BY <1>1 DEF limits!Request
<1> QED
  BY <1>2, <1>4, <1>5

\* A bump that goes on keeps its steps, and one that is over has none.
LEMMA DoneIs ==
    ASSUME NEW r \in limits!Request, r.pc = "bump"
    PROVE  /\ limits!Done(r) \in limits!Request /\ limits!Done(r).step = r.step
           /\ \/ limits!Done(r).pc = "bump"
              \/ limits!Done(r).pc = "idle" /\ limits!Done(r).step = limits!NoSteps
BY IdleIs DEF limits!Done

\* The initial states satisfy the invariant.
LEMMA LimitsInit == ASSUME limits!Init PROVE LimitsInv
<1>1. limits!TypeOK
  <2>1. limits!NoCounter \in limits!Counter
    BY LimitsAreSound DEF limits!NoCounter, limits!Counter
  <2> QED
    BY <2>1, IdleIs DEF limits!Init, limits!TypeOK
<1>2. StepsFit
  <2>1. \A p \in Attempts : limited[p].step = limits!NoSteps
    BY IdleIs DEF limits!Init
  <2> QED
    BY <2>1 DEF StepsFit, limits!NoSteps
<1>3. limits!CountersExpire
  BY DEF limits!Init, limits!CountersExpire, limits!NoCounter
<1>4. CountsFit
  <2> SUFFICES ASSUME NEW b \in limits!Buckets PROVE CountFits(b)
    BY DEF CountsFit
  <2>1. Cardinality(Blocking(b)) \in Nat
    BY FS_Subset, FS_CardinalityType, LimitsAreSound DEF Blocking
  <2> QED
    BY <2>1, LimitsAreSound DEF limits!Init, CountFits, limits!NoCounter
<1> QED
  BY <1>1, <1>2, <1>3, <1>4 DEF LimitsInv
-----------------------------------------------------------------------------
(* What becomes of the count of one bucket. *)

LEMMA SetsAreFinite ==
    ASSUME NEW b
    PROVE  /\ Cardinality(Attempts) \in Nat
           /\ \A S \in SUBSET Attempts : IsFiniteSet(S) /\ Cardinality(S) \in Nat
                                      /\ Cardinality(S) <= Cardinality(Attempts)
           /\ Blocking(b) \in SUBSET Attempts /\ Blocking(b)' \in SUBSET Attempts
           /\ Counting(b) \in SUBSET Attempts /\ Counting(b)' \in SUBSET Attempts
<1>1. \A S \in SUBSET Attempts : IsFiniteSet(S) /\ Cardinality(S) <= Cardinality(Attempts)
  BY FS_Subset, LimitsAreSound
<1>2. \A S \in SUBSET Attempts : Cardinality(S) \in Nat
  BY <1>1, FS_CardinalityType
<1> QED
  BY <1>1, <1>2 DEF Blocking, Counting

\* A request that is to set the block is not one that may count.
LEMMA BlockingDoesNotCount ==
    ASSUME StepsFit, NEW b \in limits!Buckets PROVE Blocking(b) \cap Counting(b) = {}
BY DEF StepsFit, limits!NoSteps, Blocking, Counting, WillBlock, WillCount

\* The count is reset.
LEMMA CountReset ==
    ASSUME NEW b \in limits!Buckets, counter'[b].n = 0 PROVE CountFits(b)'
<1>1. Cardinality(Counting(b)') <= Cardinality(Attempts) /\ Cardinality(Counting(b)') \in Nat
  BY SetsAreFinite
<1>2. Cardinality(Blocking(b)') \in Nat /\ Cardinality(Attempts) \in Nat
  BY SetsAreFinite
<1> QED
  BY <1>1, <1>2, LimitsAreSound DEF CountFits

\* Nothing is counted, and no request may count that might not before.
LEMMA CountKept ==
    ASSUME NEW b \in limits!Buckets, CountFits(b), counter[b].n \in Nat,
           counter'[b].n = counter[b].n, b \in block' <=> b \in block,
           b \in block => Counting(b)' \subseteq Counting(b),
           b \notin block => Blocking(b) \subseteq Blocking(b)'
    PROVE  CountFits(b)'
<1>1. CASE b \in block
  <2>1. Cardinality(Counting(b)') <= Cardinality(Counting(b))
    BY <1>1, SetsAreFinite, FS_Subset
  <2> QED
    BY <1>1, <2>1, SetsAreFinite, LimitsAreSound DEF CountFits
<1>2. CASE b \notin block
  <2>1. Cardinality(Blocking(b)) <= Cardinality(Blocking(b)')
    BY <1>2, SetsAreFinite, FS_Subset
  <2> QED
    BY <1>2, <2>1, SetsAreFinite, LimitsAreSound DEF CountFits
<1> QED
  BY <1>1, <1>2

\* A request counts, which it may, and goes over the limit only if it is to set the block.
LEMMA CountRises ==
    ASSUME NEW b \in limits!Buckets, NEW p \in Attempts, CountFits(b), counter[b].n \in Nat,
           counter'[b].n \in Nat, counter'[b].n <= counter[b].n + 1,
           b \in block' <=> b \in block,
           p \in Counting(b), Counting(b)' \subseteq Counting(b) \ {p},
           p \notin Blocking(b), Blocking(b) \subseteq Blocking(b)',
           counter[b].n + 1 >= MaxAttempts => p \in Blocking(b)'
    PROVE  CountFits(b)'
<1>1. CASE b \in block
  <2>1. Cardinality(Counting(b) \ {p}) = Cardinality(Counting(b)) - 1
    BY SetsAreFinite, FS_RemoveElement
  <2>2. Cardinality(Counting(b)') <= Cardinality(Counting(b) \ {p})
    BY SetsAreFinite, FS_Subset
  <2> QED
    BY <1>1, <2>1, <2>2, SetsAreFinite, LimitsAreSound DEF CountFits
<1>2. CASE b \notin block /\ counter[b].n + 1 >= MaxAttempts
  <2>1. Cardinality(Blocking(b) \cup {p}) = Cardinality(Blocking(b)) + 1
    BY SetsAreFinite, FS_AddElement
  <2>2. Cardinality(Blocking(b) \cup {p}) <= Cardinality(Blocking(b)')
    BY <1>2, SetsAreFinite, FS_Subset
  <2> QED
    BY <1>2, <2>1, <2>2, SetsAreFinite, LimitsAreSound DEF CountFits
<1>3. CASE b \notin block /\ ~(counter[b].n + 1 >= MaxAttempts)
  BY <1>3, SetsAreFinite, LimitsAreSound DEF CountFits
<1> QED
  BY <1>1, <1>2, <1>3

\* The block is set: those that made the count exceed the limit and those that may still
\* count are different requests.
LEMMA CountBlocked ==
    ASSUME StepsFit, NEW b \in limits!Buckets, CountFits(b), counter[b].n \in Nat,
           counter'[b].n = counter[b].n, b \notin block, b \in block',
           Counting(b)' \subseteq Counting(b)
    PROVE  CountFits(b)'
<1>1. Cardinality(Counting(b)') <= Cardinality(Counting(b))
  BY SetsAreFinite, FS_Subset
<1>2. /\ Cardinality(Blocking(b) \cup Counting(b))
         = Cardinality(Blocking(b)) + Cardinality(Counting(b))
           - Cardinality(Blocking(b) \cap Counting(b))
      /\ Cardinality(Blocking(b) \cap Counting(b)) = 0
  <2>1. IsFiniteSet(Blocking(b)) /\ IsFiniteSet(Counting(b))
    BY SetsAreFinite
  <2> QED
    BY <2>1, BlockingDoesNotCount, FS_Union, FS_EmptySet
<1>3. Blocking(b) \cup Counting(b) \in SUBSET Attempts
  BY SetsAreFinite
<1>4. Cardinality(Blocking(b) \cup Counting(b)) <= Cardinality(Attempts)
  BY <1>3, SetsAreFinite
<1>5. /\ Cardinality(Blocking(b)) \in Nat /\ Cardinality(Counting(b)) \in Nat
      /\ Cardinality(Counting(b)') \in Nat /\ Cardinality(Attempts) \in Nat
  BY SetsAreFinite
<1> QED
  BY <1>1, <1>2, <1>4, <1>5, LimitsAreSound DEF CountFits
-----------------------------------------------------------------------------
(* The steps. *)

\* A step of a request leaves the others alone.
LEMMA LimitedStep ==
    ASSUME limits!TypeOK, StepsFit, NEW p \in Attempts, NEW r \in limits!Request,
           limits!Becomes(p, r), limiter' = limiter,
           r.pc # "bump" => r.step = limits!NoSteps,
           \A b \in limits!Buckets : r.step[b] = "cooldown" => limiter = "mail" /\ b = "own"
    PROVE  /\ limited' \in [Attempts -> limits!Request] /\ StepsFit'
           /\ limited'[p] = r /\ \A q \in Attempts \ {p} : limited'[q] = limited[q]
<1>1. /\ limited' \in [Attempts -> limits!Request]
      /\ limited'[p] = r /\ \A q \in Attempts \ {p} : limited'[q] = limited[q]
  BY DEF limits!TypeOK, limits!Becomes
<1>2. ASSUME NEW q \in Attempts
      PROVE  /\ limited'[q].pc # "bump" => limited'[q].step = limits!NoSteps
             /\ \A b \in limits!Buckets :
                   limited'[q].step[b] = "cooldown" => limiter' = "mail" /\ b = "own"
  <2>1. CASE q = p
    BY <1>1, <2>1
  <2>2. CASE q # p
    BY <1>1, <2>2 DEF StepsFit
  <2> QED
    BY <2>1, <2>2
<1> QED
  BY <1>1, <1>2 DEF StepsFit

\* What a step of a request does to who may count and who is to set the block.
LEMMA SetsStep ==
    ASSUME NEW p \in Attempts, NEW b \in limits!Buckets, limiter' = limiter,
           \A q \in Attempts \ {p} : limited'[q] = limited[q]
    PROVE  /\ (WillCount(limited'[p], b) => WillCount(limited[p], b))
              => Counting(b)' \subseteq Counting(b)
           /\ ~WillCount(limited'[p], b) => Counting(b)' \subseteq Counting(b) \ {p}
           /\ (WillBlock(limited[p], b) => WillBlock(limited'[p], b))
              => Blocking(b) \subseteq Blocking(b)'
BY DEF Counting, Blocking, WillCount, WillBlock

\* A request looks at a block, or goes on to its bump: nothing is written.
Looks(p, r) ==
    /\ limits!Becomes(p, r) /\ UNCHANGED <<limiter, counter, block, cooldown, orphaned, loose>>
    /\ limited[p].step = limits!NoSteps
    /\ r.pc # "bump" => r.step = limits!NoSteps
    /\ \A b \in limits!Buckets :
          /\ r.step[b] \in {"no", "incr", "cooldown"}
          /\ r.step[b] = "cooldown" => limiter = "mail" /\ b = "own"
          /\ b \in block /\ WillCount(r, b) => WillCount(limited[p], b)

LEMMA LooksStep ==
    ASSUME LimitsInv, NEW p \in Attempts, NEW r \in limits!Request, Looks(p, r)
    PROVE  LimitsInv'
<1>1. /\ limited' \in [Attempts -> limits!Request] /\ StepsFit'
      /\ limited'[p] = r /\ \A q \in Attempts \ {p} : limited'[q] = limited[q]
  BY LimitedStep DEF Looks, LimitsInv
<1>2. limits!TypeOK'
  BY <1>1 DEF Looks, LimitsInv, limits!TypeOK
<1>3. limits!CountersExpire'
  <2>1. \A b \in limits!Buckets : limited[p].step[b] # "expire"
    BY DEF Looks, limits!NoSteps
  <2> QED
    BY <1>1, <2>1 DEF Looks, LimitsInv, limits!CountersExpire
<1>4. CountsFit'
  <2> SUFFICES ASSUME NEW b \in limits!Buckets \ loose PROVE CountFits(b)'
    BY DEF Looks, CountsFit
  <2>1. ~WillBlock(limited[p], b)
    BY DEF Looks, limits!NoSteps, WillBlock
  <2>2. /\ b \in block => Counting(b)' \subseteq Counting(b)
        /\ Blocking(b) \subseteq Blocking(b)'
    BY <1>1, <2>1, SetsStep DEF Looks
  <2>3. counter[b].n \in Nat /\ CountFits(b)
    BY DEF LimitsInv, limits!TypeOK, limits!Counter, CountsFit
  <2> QED
    BY <2>2, <2>3, CountKept DEF Looks
<1> QED
  BY <1>1, <1>2, <1>3, <1>4 DEF LimitsInv

LEMMA AttemptStep ==
    ASSUME LimitsInv, NEW p \in Attempts, NEW bs \in SUBSET limits!Buckets,
           limits!Attempt(p, bs)
    PROVE  LimitsInv'
<1> DEFINE r == [limits!IdleRequest EXCEPT !.pc = "check", !.buckets = bs,
                                    !.left = IF limiter = "mail" THEN bs \ {"own"} ELSE bs]
           s == IF r.left = {} THEN limits!Bumping(r) ELSE r
<1>1. /\ r \in limits!Request /\ r.pc = "check" /\ r.buckets = bs /\ r.step = limits!NoSteps
      /\ r.left = IF limiter = "mail" THEN bs \ {"own"} ELSE bs
  BY DEF limits!IdleRequest, limits!Request, limits!NoSteps
<1>2. limits!Becomes(p, s) /\ UNCHANGED <<limiter, counter, block, cooldown, orphaned, loose>>
  BY DEF limits!Attempt
<1>3. limited[p].step = limits!NoSteps
  BY DEF limits!Attempt, LimitsInv, StepsFit
<1> HIDE DEF r
<1>4. s \in limits!Request /\ (s.pc # "bump" => s.step = limits!NoSteps)
  BY <1>1, BumpingIs
<1>5. ASSUME NEW b \in limits!Buckets
      PROVE  /\ s.step[b] \in {"no", "incr", "cooldown"}
             /\ s.step[b] = "cooldown" => limiter = "mail" /\ b = "own"
             /\ ~WillCount(s, b)
  <2>1. CASE r.left = {}
    <3>1. s = limits!Bumping(r) /\ (b \in bs => limiter = "mail" /\ b = "own")
      BY <1>1, <2>1 DEF limits!Buckets
    <3> QED
      BY <1>1, <3>1, BumpingIs DEF WillCount
  <2>2. CASE r.left # {}
    BY <1>1, <2>2 DEF WillCount, limits!NoSteps
  <2> QED
    BY <2>1, <2>2
<1> HIDE DEF s
<1> QED
  BY <1>2, <1>3, <1>4, <1>5, LooksStep DEF Looks

LEMMA GetBlockStep ==
    ASSUME LimitsInv, NEW p \in Attempts, NEW c \in limits!Buckets, limits!GetBlock(p, c)
    PROVE  LimitsInv'
<1> DEFINE r == [limited[p] EXCEPT !.left = @ \ {c}, !.refused = @ \/ c \in block]
           s == IF r.left = {} THEN limits!Passed(r) ELSE r
           t == [r EXCEPT !.pc = "password"]
<1>1. /\ limited[p] \in limits!Request
      /\ limited[p].pc = "check" /\ limited[p].step = limits!NoSteps
  BY DEF limits!GetBlock, LimitsInv, limits!TypeOK, StepsFit
<1>2. limits!Becomes(p, s) /\ UNCHANGED <<limiter, counter, block, cooldown, orphaned, loose>>
  BY DEF limits!GetBlock
<1>3. /\ r \in limits!Request /\ r.pc = "check" /\ r.step = limits!NoSteps
      /\ r.buckets = limited[p].buckets
      /\ r.left = limited[p].left \ {c} /\ r.refused = (limited[p].refused \/ c \in block)
  <2>1. (limited[p].refused \/ c \in block) \in BOOLEAN
    BY <1>1 DEF limits!Request
  <2> QED
    BY <1>1, <2>1 DEF limits!Request
<1> HIDE DEF r
<1>4. \/ s = r
      \/ s = limits!IdleRequest
      \/ ~r.refused /\ r.left = {} /\ s = t /\ limiter = "login"
      \/ ~r.refused /\ r.left = {} /\ s = limits!Bumping(r) /\ limiter # "login"
  BY DEF limits!Passed
<1>5. /\ t \in limits!Request /\ t.pc = "password" /\ t.step = limits!NoSteps
      /\ t.buckets = r.buckets
  BY <1>3 DEF limits!Request
<1> HIDE DEF s, t
<1>6. s \in limits!Request /\ (s.pc # "bump" => s.step = limits!NoSteps)
  BY <1>3, <1>4, <1>5, IdleIs, BumpingIs
<1>7. ASSUME NEW b \in limits!Buckets
      PROVE  /\ s.step[b] \in {"no", "incr", "cooldown"}
             /\ s.step[b] = "cooldown" => limiter = "mail" /\ b = "own"
             /\ b \in block /\ WillCount(s, b) => WillCount(limited[p], b)
  <2>1. CASE s = r
    BY <1>1, <1>3, <2>1 DEF WillCount, limits!NoSteps
  <2>2. CASE s = limits!IdleRequest
    BY <2>2, IdleIs DEF WillCount, limits!NoSteps
  <2>3. CASE ~r.refused /\ r.left = {} /\ s = t /\ limiter = "login"
    <3>1. b \in block => b \notin limited[p].left /\ ~limited[p].refused
      BY <1>1, <1>3, <2>3 DEF limits!Request
    <3>2. ~(limiter = "mail" /\ b = "own") /\ s.step[b] = "no"
      BY <1>5, <2>3 DEF limits!NoSteps
    <3>3. WillCount(s, b) => b \in limited[p].buckets
      BY <1>3, <1>5, <2>3, <3>2 DEF WillCount
    <3> QED
      BY <1>1, <3>1, <3>2, <3>3 DEF WillCount
  <2>4. CASE ~r.refused /\ r.left = {} /\ s = limits!Bumping(r) /\ limiter # "login"
    <3>1. b \in block => b \notin limited[p].left /\ ~limited[p].refused
      BY <1>1, <1>3, <2>4 DEF limits!Request
    <3>2. /\ s.step[b] \in {"no", "incr", "cooldown"} /\ s.pc = "bump"
          /\ s.step[b] = "cooldown" => limiter = "mail" /\ b = "own"
          /\ s.step[b] = "incr" => b \in r.buckets /\ ~(limiter = "mail" /\ b = "own")
      BY <1>3, <2>4, BumpingIs
    <3> QED
      BY <1>1, <1>3, <3>1, <3>2 DEF WillCount
  <2> QED
    BY <1>4, <2>1, <2>2, <2>3, <2>4
<1> QED
  BY <1>1, <1>2, <1>6, <1>7, LooksStep DEF Looks

LEMMA PasswordFailsStep ==
    ASSUME LimitsInv, NEW p \in Attempts, limits!PasswordFails(p) PROVE LimitsInv'
<1> DEFINE s == limits!Bumping(limited[p])
<1>1. /\ limited[p] \in limits!Request
      /\ limited[p].pc = "password" /\ limited[p].step = limits!NoSteps
  BY DEF limits!PasswordFails, LimitsInv, limits!TypeOK, StepsFit
<1>2. s \in limits!Request /\ s.pc = "bump" /\ \A b \in limits!Buckets :
         /\ s.step[b] \in {"no", "incr", "cooldown"}
         /\ s.step[b] = "cooldown" => limiter = "mail" /\ b = "own"
         /\ WillCount(s, b) => WillCount(limited[p], b)
  BY <1>1, BumpingIs DEF WillCount
<1> QED
  BY <1>1, <1>2, LooksStep DEF limits!PasswordFails, Looks
\* A bump goes on: one of its steps is done, or two are given up.
Bumps(p, r) ==
    /\ limits!Becomes(p, limits!Done(r)) /\ limited[p].pc = "bump"
    /\ r \in limits!Request /\ r.pc = "bump"
    /\ \A b \in limits!Buckets :
          /\ r.step[b] = "cooldown" => limited[p].step[b] = "cooldown"
          /\ r.step[b] = "incr" => limited[p].step[b] = "incr"
    /\ UNCHANGED <<limiter, cooldown>>

LEMMA BumpsStep ==
    ASSUME LimitsInv, NEW p \in Attempts, NEW r, Bumps(p, r)
    PROVE  /\ limited' \in [Attempts -> limits!Request] /\ StepsFit'
           /\ limited'[p].step = r.step /\ \A q \in Attempts \ {p} : limited'[q] = limited[q]
           /\ \A b \in limits!Buckets :
                 /\ WillCount(limited'[p], b) <=> r.step[b] = "incr"
                 /\ WillBlock(limited'[p], b) <=> WillBlock(r, b)
                 /\ WillCount(limited[p], b) <=> limited[p].step[b] = "incr"
<1>1. /\ limits!Done(r) \in limits!Request /\ limits!Done(r).step = r.step
      /\ \/ limits!Done(r).pc = "bump"
         \/ limits!Done(r).pc = "idle" /\ limits!Done(r).step = limits!NoSteps
  BY DoneIs DEF Bumps
<1>2. \A b \in limits!Buckets : r.step[b] = "cooldown" => limiter = "mail" /\ b = "own"
  BY DEF Bumps, LimitsInv, StepsFit
<1>3. /\ limited' \in [Attempts -> limits!Request] /\ StepsFit'
      /\ limited'[p] = limits!Done(r) /\ \A q \in Attempts \ {p} : limited'[q] = limited[q]
  <2>1. limits!TypeOK /\ StepsFit /\ limits!Becomes(p, limits!Done(r)) /\ limiter' = limiter
    BY DEF LimitsInv, Bumps
  <2>2. /\ limits!Done(r).pc # "bump" => limits!Done(r).step = limits!NoSteps
        /\ \A b \in limits!Buckets :
              limits!Done(r).step[b] = "cooldown" => limiter = "mail" /\ b = "own"
    BY <1>1, <1>2
  <2> QED
    BY <1>1, <2>1, <2>2, LimitedStep
<1>4. \A b \in limits!Buckets :
         /\ WillCount(limited'[p], b) <=> r.step[b] = "incr"
         /\ WillBlock(limited'[p], b) <=> WillBlock(r, b)
         /\ WillCount(limited[p], b) <=> limited[p].step[b] = "incr"
  BY <1>1, <1>3 DEF WillCount, WillBlock, Bumps
<1> QED
  BY <1>1, <1>3, <1>4

LEMMA IncrStep ==
    ASSUME LimitsInv, NEW p \in Attempts, NEW c \in limits!Buckets, limits!Incr(p, c)
    PROVE  LimitsInv'
<1> DEFINE n == counter[c].n + 1
           x == IF limits!SetsExpiry(n) THEN "expire"
                ELSE IF limits!AtLimit(n) THEN "block" ELSE "no"
           r == [limited[p] EXCEPT !.step[c] = x]
<1>1. limited[p] \in limits!Request /\ limited[p].pc = "bump" /\ limited[p].step[c] = "incr"
  BY DEF limits!Incr, LimitsInv, limits!TypeOK, StepsFit, limits!NoSteps
<1>2. /\ x \in {"expire", "block", "no"} /\ (n = 1 => x = "expire")
      /\ n # 1 /\ n >= MaxAttempts => x = "block"
  BY DEF limits!SetsExpiry, limits!AtLimit
<1> HIDE DEF x
<1>3. /\ r \in limits!Request /\ r.pc = "bump" /\ r.step[c] = x
      /\ \A b \in limits!Buckets \ {c} : r.step[b] = limited[p].step[b]
  BY <1>1, <1>2 DEF limits!Request
<1>4. /\ limits!Becomes(p, limits!Done(r))
      /\ UNCHANGED <<limiter, block, cooldown, orphaned, loose>>
  BY DEF limits!Incr, x
<1> HIDE DEF r
<1>5. Bumps(p, r)
  BY <1>1, <1>2, <1>3, <1>4 DEF Bumps
<1>6. /\ limited' \in [Attempts -> limits!Request] /\ StepsFit'
      /\ limited'[p].step = r.step /\ \A q \in Attempts \ {p} : limited'[q] = limited[q]
      /\ \A b \in limits!Buckets :
            /\ WillCount(limited'[p], b) <=> r.step[b] = "incr"
            /\ WillBlock(limited'[p], b) <=> WillBlock(r, b)
            /\ WillCount(limited[p], b) <=> limited[p].step[b] = "incr"
  BY <1>5, BumpsStep
<1>7. /\ counter' \in [limits!Buckets -> limits!Counter]
      /\ counter'[c].expires = counter[c].expires
      /\ counter'[c].n <= counter[c].n + 1 /\ counter[c].n \in Nat /\ counter'[c].n \in Nat
      /\ counter'[c].n > 0 => counter[c].n > 0 \/ n = 1
      /\ \A b \in limits!Buckets \ {c} : counter'[b] = counter[b]
  <2> DEFINE m == IF n > MaxCount THEN MaxCount ELSE n
  <2>1. /\ counter \in [limits!Buckets -> limits!Counter]
        /\ counter[c] \in limits!Counter /\ counter[c].n \in Nat
    BY DEF LimitsInv, limits!TypeOK, limits!Counter
  <2>2. m \in 0 .. MaxCount /\ m <= counter[c].n + 1
    BY <2>1, LimitsAreSound
  <2>3. counter' = [counter EXCEPT ![c] = [@ EXCEPT !.n = m]]
    BY DEF limits!Incr
  <2> HIDE DEF m
  <2>4. [counter[c] EXCEPT !.n = m] \in limits!Counter
    BY <2>1, <2>2 DEF limits!Counter
  <2>5. /\ [counter[c] EXCEPT !.n = m].n = m
        /\ [counter[c] EXCEPT !.n = m].expires = counter[c].expires
    BY <2>1 DEF limits!Counter
  <2>6. counter' \in [limits!Buckets -> limits!Counter]
    BY <2>1, <2>3, <2>4
  <2>7. /\ counter'[c] = [counter[c] EXCEPT !.n = m]
        /\ \A b \in limits!Buckets \ {c} : counter'[b] = counter[b]
    BY <2>1, <2>3
  <2> QED
    BY <2>1, <2>2, <2>5, <2>6, <2>7, LimitsAreSound
<1>8. limits!TypeOK'
  BY <1>4, <1>6, <1>7 DEF LimitsInv, limits!TypeOK
<1>9. limits!CountersExpire'
  <2> SUFFICES ASSUME NEW b \in limits!Buckets \ orphaned,
                      counter'[b].n > 0, ~counter'[b].expires
               PROVE  \E q \in Attempts : limited'[q].step[b] = "expire"
    BY <1>4 DEF limits!CountersExpire
  <2>1. CASE counter[b].n > 0 /\ ~counter[b].expires
    <3>1. PICK q \in Attempts : limited[q].step[b] = "expire"
      BY <2>1 DEF LimitsInv, limits!CountersExpire
    <3> QED
      BY <1>1, <1>3, <1>6, <3>1
  <2>2. CASE b = c /\ n = 1
    BY <1>2, <1>3, <1>6, <2>2
  <2> QED
    BY <1>7, <2>1, <2>2
<1>10. CountsFit'
  <2> SUFFICES ASSUME NEW b \in limits!Buckets \ loose PROVE CountFits(b)'
    BY <1>4 DEF CountsFit
  <2>1. CountFits(b) /\ counter[b].n \in Nat
    BY DEF LimitsInv, CountsFit, limits!TypeOK, limits!Counter
  <2>2. CASE b # c
    <3>1. Counting(b)' \subseteq Counting(b) /\ Blocking(b) \subseteq Blocking(b)'
      <4>1. r.step[b] = limited[p].step[b]
        BY <1>3, <2>2
      <4> QED
        BY <1>4, <1>6, <4>1, SetsStep DEF WillBlock
    <3> QED
      BY <1>4, <1>7, <2>1, <2>2, <3>1, CountKept
  <2>3. CASE b = c
    <3>1. p \in Counting(b) /\ p \notin Blocking(b)
      BY <1>1, <2>3 DEF Counting, Blocking, WillCount, WillBlock
    <3>2. Counting(b)' \subseteq Counting(b) \ {p} /\ Blocking(b) \subseteq Blocking(b)'
      <4>1. ~WillCount(limited'[p], b)
        BY <1>2, <1>3, <1>6, <2>3
      <4>2. ~WillBlock(limited[p], b)
        BY <3>1 DEF Blocking
      <4> QED
        BY <1>4, <1>6, <4>1, <4>2, SetsStep
    <3>3. n >= MaxAttempts => p \in Blocking(b)'
      <4>1. n >= MaxAttempts => WillBlock(r, b)
        BY <1>2, <1>3, <1>7, <2>3, LimitsAreSound DEF WillBlock
      <4> QED
        BY <1>6, <4>1 DEF Blocking, WillBlock
    <3> QED
      BY <1>4, <1>7, <2>1, <2>3, <3>1, <3>2, <3>3, CountRises
  <2> QED
    BY <2>2, <2>3
<1> QED
  BY <1>6, <1>8, <1>9, <1>10 DEF LimitsInv
LEMMA ExpireCounterStep ==
    ASSUME LimitsInv, NEW p \in Attempts, NEW c \in limits!Buckets, limits!ExpireCounter(p, c)
    PROVE  LimitsInv'
<1> DEFINE x == IF limits!AtLimit(1) THEN "block" ELSE "no"
           r == [limited[p] EXCEPT !.step[c] = x]
<1>1. limited[p] \in limits!Request /\ limited[p].pc = "bump" /\ limited[p].step[c] = "expire"
  BY DEF limits!ExpireCounter, LimitsInv, limits!TypeOK, StepsFit, limits!NoSteps
<1>2. x \in {"block", "no"} /\ (MaxAttempts = 1 => x = "block")
  BY DEF limits!AtLimit
<1> HIDE DEF x
<1>3. /\ r \in limits!Request /\ r.pc = "bump" /\ r.step[c] = x
      /\ \A b \in limits!Buckets \ {c} : r.step[b] = limited[p].step[b]
  BY <1>1, <1>2 DEF limits!Request
<1>4. limits!Becomes(p, limits!Done(r)) /\ UNCHANGED <<limiter, block, cooldown, orphaned>>
  BY DEF limits!ExpireCounter, x
<1> HIDE DEF r
<1>5. Bumps(p, r)
  BY <1>1, <1>2, <1>3, <1>4 DEF Bumps
<1>6. /\ limited' \in [Attempts -> limits!Request] /\ StepsFit'
      /\ limited'[p].step = r.step /\ \A q \in Attempts \ {p} : limited'[q] = limited[q]
      /\ \A b \in limits!Buckets :
            /\ WillCount(limited'[p], b) <=> r.step[b] = "incr"
            /\ WillBlock(limited'[p], b) <=> WillBlock(r, b)
            /\ WillCount(limited[p], b) <=> limited[p].step[b] = "incr"
  BY <1>5, BumpsStep
<1>7. /\ counter' \in [limits!Buckets -> limits!Counter] /\ counter'[c].n = counter[c].n
      /\ counter'[c].n > 0 => counter'[c].expires
      /\ \A b \in limits!Buckets \ {c} : counter'[b] = counter[b]
  <2>1. counter \in [limits!Buckets -> limits!Counter] /\ counter[c] \in limits!Counter
    BY DEF LimitsInv, limits!TypeOK
  <2> DEFINE e == counter[c].expires \/ counter[c].n > 0
  <2>2. counter' = [counter EXCEPT ![c] = [@ EXCEPT !.expires = e]]
    BY DEF limits!ExpireCounter
  <2>3. e \in BOOLEAN /\ (counter[c].n > 0 => e)
    BY <2>1 DEF limits!Counter
  <2> HIDE DEF e
  <2>4. /\ [counter[c] EXCEPT !.expires = e] \in limits!Counter
        /\ [counter[c] EXCEPT !.expires = e].n = counter[c].n
        /\ [counter[c] EXCEPT !.expires = e].expires = e
    BY <2>1, <2>3 DEF limits!Counter
  <2>5. /\ counter' \in [limits!Buckets -> limits!Counter]
        /\ counter'[c] = [counter[c] EXCEPT !.expires = e]
        /\ \A b \in limits!Buckets \ {c} : counter'[b] = counter[b]
    BY <2>1, <2>2, <2>4
  <2> QED
    BY <2>3, <2>4, <2>5
<1>8. loose \subseteq loose' /\ loose' \subseteq limits!Buckets
  BY DEF limits!ExpireCounter, LimitsInv, limits!TypeOK
<1>9. limits!TypeOK'
  BY <1>4, <1>6, <1>7, <1>8 DEF LimitsInv, limits!TypeOK
<1>10. limits!CountersExpire'
  BY <1>1, <1>3, <1>4, <1>6, <1>7 DEF LimitsInv, limits!CountersExpire
<1>11. CountsFit'
  <2> SUFFICES ASSUME NEW b \in limits!Buckets \ loose' PROVE CountFits(b)'
    BY DEF CountsFit
  <2>1. CountFits(b) /\ counter[b].n \in Nat
    BY <1>8 DEF LimitsInv, CountsFit, limits!TypeOK, limits!Counter
  <2>2. Counting(b)' \subseteq Counting(b)
    <3>1. WillCount(limited'[p], b) => WillCount(limited[p], b)
      BY <1>5, <1>6 DEF Bumps
    <3> QED
      BY <1>4, <1>6, <3>1, SetsStep
  <2>3. Blocking(b) \subseteq Blocking(b)'
    <3>1. WillBlock(limited[p], b) => WillBlock(r, b)
      BY <1>1, <1>2, <1>3 DEF WillBlock
    <3> QED
      BY <1>4, <1>6, <3>1, SetsStep
  <2> QED
    BY <1>4, <1>7, <2>1, <2>2, <2>3, CountKept
<1> QED
  BY <1>6, <1>9, <1>10, <1>11 DEF LimitsInv

LEMMA SetBlockStep ==
    ASSUME LimitsInv, NEW p \in Attempts, NEW c \in limits!Buckets, limits!SetBlock(p, c)
    PROVE  LimitsInv'
<1> DEFINE r == [limited[p] EXCEPT !.step[c] = "no"]
<1>1. limited[p] \in limits!Request /\ limited[p].pc = "bump" /\ limited[p].step[c] = "block"
  BY DEF limits!SetBlock, LimitsInv, limits!TypeOK, StepsFit, limits!NoSteps
<1>2. /\ r \in limits!Request /\ r.pc = "bump" /\ r.step[c] = "no"
      /\ \A b \in limits!Buckets \ {c} : r.step[b] = limited[p].step[b]
  BY <1>1 DEF limits!Request
<1>3. /\ limits!Becomes(p, limits!Done(r))
      /\ UNCHANGED <<limiter, counter, cooldown, orphaned, loose>>
      /\ block' = block \cup {c}
  BY DEF limits!SetBlock
<1> HIDE DEF r
<1>4. Bumps(p, r)
  BY <1>1, <1>2, <1>3 DEF Bumps
<1>5. /\ limited' \in [Attempts -> limits!Request] /\ StepsFit'
      /\ limited'[p].step = r.step /\ \A q \in Attempts \ {p} : limited'[q] = limited[q]
      /\ \A b \in limits!Buckets :
            /\ WillCount(limited'[p], b) <=> r.step[b] = "incr"
            /\ WillBlock(limited'[p], b) <=> WillBlock(r, b)
            /\ WillCount(limited[p], b) <=> limited[p].step[b] = "incr"
  BY <1>4, BumpsStep
<1>6. limits!TypeOK'
  BY <1>3, <1>5 DEF LimitsInv, limits!TypeOK
<1>7. limits!CountersExpire'
  BY <1>1, <1>2, <1>3, <1>5 DEF LimitsInv, limits!CountersExpire
<1>8. CountsFit'
  <2> SUFFICES ASSUME NEW b \in limits!Buckets \ loose PROVE CountFits(b)'
    BY <1>3 DEF CountsFit
  <2>1. CountFits(b) /\ counter[b].n \in Nat /\ counter' = counter
    BY <1>3 DEF LimitsInv, CountsFit, limits!TypeOK, limits!Counter
  <2>2. Counting(b)' \subseteq Counting(b)
    <3>1. WillCount(limited'[p], b) => WillCount(limited[p], b)
      BY <1>4, <1>5 DEF Bumps
    <3> QED
      BY <1>3, <1>5, <3>1, SetsStep
  <2>3. CASE b = c /\ b \notin block
    BY <1>3, <2>1, <2>2, <2>3, CountBlocked DEF LimitsInv
  <2>4. CASE b = c /\ b \in block
    BY <1>3, <2>1, <2>2, <2>4, CountKept
  <2>5. CASE b # c
    <3>1. Blocking(b) \subseteq Blocking(b)'
      <4>1. WillBlock(limited[p], b) => WillBlock(r, b)
        BY <1>2, <2>5 DEF WillBlock
      <4> QED
        BY <1>3, <1>5, <4>1, SetsStep
    <3> QED
      BY <1>3, <2>1, <2>2, <2>5, <3>1, CountKept
  <2> QED
    BY <2>3, <2>4, <2>5
<1> QED
  BY <1>5, <1>6, <1>7, <1>8 DEF LimitsInv

\* A request ends: by a match, a cooldown or a cut.
LEMMA EndStep ==
    ASSUME LimitsInv, NEW p \in Attempts,
           limits!PasswordMatches(p) \/ limits!SetCooldown(p) \/ limits!Cut(p, limits!Buckets)
    PROVE  LimitsInv'
<1>1. limits!Becomes(p, limits!IdleRequest) /\ UNCHANGED <<limiter, block>>
  BY DEF limits!PasswordMatches, limits!SetCooldown, limits!Cut
<1>2. /\ limited' \in [Attempts -> limits!Request] /\ StepsFit'
      /\ limited'[p] = limits!IdleRequest /\ \A q \in Attempts \ {p} : limited'[q] = limited[q]
  <2>1. \A b \in limits!Buckets : limits!IdleRequest.step[b] # "cooldown"
    BY IdleIs DEF limits!NoSteps
  <2> QED
    BY <1>1, <2>1, IdleIs, LimitedStep DEF LimitsInv
<1>3. \A b \in limits!Buckets : Counting(b)' \subseteq Counting(b)
  <2>1. \A b \in limits!Buckets : ~WillCount(limits!IdleRequest, b)
    BY IdleIs DEF WillCount, limits!NoSteps
  <2> QED
    BY <1>1, <1>2, <2>1, SetsStep
<1>4. /\ counter' \in [limits!Buckets -> limits!Counter] /\ orphaned \subseteq orphaned'
      /\ \A b \in limits!Buckets : counter'[b] = counter[b] \/ counter'[b].n = 0
      /\ \A b \in limits!Buckets \ orphaned' : limited[p].step[b] # "expire"
      /\ \A b \in limits!Buckets \ loose' :
            \/ counter'[b].n = 0
            \/ b \notin loose /\ counter'[b] = counter[b] /\ ~WillBlock(limited[p], b)
      /\ orphaned' \cup loose' \subseteq limits!Buckets /\ cooldown' \in BOOLEAN
  <2>1. CASE limits!PasswordMatches(p)
    <3>1. limits!NoCounter \in limits!Counter /\ limits!NoCounter.n = 0
      BY LimitsAreSound DEF limits!NoCounter, limits!Counter
    <3>2. \A b \in limits!Buckets : limited[p].step[b] = "no"
      BY <2>1 DEF limits!PasswordMatches, LimitsInv, StepsFit, limits!NoSteps
    <3> QED
      BY <2>1, <3>1, <3>2 DEF limits!PasswordMatches, LimitsInv, limits!TypeOK, WillBlock
  <2>2. CASE limits!SetCooldown(p)
    <3>1. /\ limiter = "mail"
          /\ limited[p].step["own"] = "cooldown" /\ limited[p].step["ip"] = "no"
      BY <2>2 DEF limits!SetCooldown, limits!IsTurn, LimitsInv, StepsFit, limits!Buckets
    <3>2. \A b \in limits!Buckets : limited[p].step[b] \in {"cooldown", "no"}
      BY <3>1 DEF limits!Buckets
    <3> QED
      BY <2>2, <3>2 DEF limits!SetCooldown, LimitsInv, limits!TypeOK, WillBlock
  <2>3. CASE limits!Cut(p, limits!Buckets)
    BY <2>3 DEF limits!Cut, LimitsInv, limits!TypeOK, WillBlock
  <2> QED
    BY <2>1, <2>2, <2>3
<1>5. limits!TypeOK'
  BY <1>1, <1>2, <1>4 DEF LimitsInv, limits!TypeOK
<1>6. limits!CountersExpire'
  <2> SUFFICES ASSUME NEW b \in limits!Buckets \ orphaned',
                      counter'[b].n > 0, ~counter'[b].expires
               PROVE  \E q \in Attempts : limited'[q].step[b] = "expire"
    BY DEF limits!CountersExpire
  <2>1. PICK q \in Attempts : limited[q].step[b] = "expire"
    BY <1>4 DEF LimitsInv, limits!CountersExpire
  <2> QED
    BY <1>2, <1>4, <2>1
<1>7. CountsFit'
  <2> SUFFICES ASSUME NEW b \in limits!Buckets \ loose' PROVE CountFits(b)'
    BY DEF CountsFit
  <2>1. CASE counter'[b].n = 0
    BY <2>1, CountReset
  <2>2. CASE b \notin loose /\ counter'[b] = counter[b] /\ ~WillBlock(limited[p], b)
    <3>1. Blocking(b) \subseteq Blocking(b)'
      BY <1>1, <1>2, <2>2, SetsStep
    <3>2. CountFits(b) /\ counter[b].n \in Nat
      BY <2>2 DEF LimitsInv, CountsFit, limits!TypeOK, limits!Counter
    <3> QED
      BY <1>1, <1>3, <2>2, <3>1, <3>2, CountKept
  <2> QED
    BY <1>4, <2>1, <2>2
<1> QED
  BY <1>2, <1>5, <1>6, <1>7 DEF LimitsInv
\* The login limiter goes on with the other bucket.
LEMMA PartialCutStep ==
    ASSUME LimitsInv, NEW p \in Attempts, NEW bs \in SUBSET limits!Buckets, limits!Cut(p, bs),
           bs # limits!Buckets
    PROVE  LimitsInv'
<1> DEFINE s == [b \in limits!Buckets |-> IF b \in bs THEN "no" ELSE limited[p].step[b]]
           r == [limited[p] EXCEPT !.step = s]
<1>1. limited[p] \in limits!Request /\ limited[p].pc = "bump"
  BY DEF limits!Cut, LimitsInv, limits!TypeOK
<1>2. /\ s \in [limits!Buckets -> {"no", "incr", "expire", "block", "cooldown"}]
      /\ \A b \in bs : s[b] = "no"
      /\ \A b \in limits!Buckets \ bs : s[b] = limited[p].step[b]
  BY <1>1 DEF limits!Request
<1>3. limits!Becomes(p, limits!Done(r)) /\ UNCHANGED <<limiter, counter, block, cooldown>>
  BY DEF limits!Cut
<1> HIDE DEF s
<1>4. r \in limits!Request /\ r.pc = "bump" /\ r.step = s
  BY <1>1, <1>2 DEF limits!Request
<1> HIDE DEF r
<1>5. Bumps(p, r)
  BY <1>1, <1>2, <1>3, <1>4 DEF Bumps
<1>6. /\ limited' \in [Attempts -> limits!Request] /\ StepsFit'
      /\ limited'[p].step = r.step /\ \A q \in Attempts \ {p} : limited'[q] = limited[q]
      /\ \A b \in limits!Buckets :
            /\ WillCount(limited'[p], b) <=> r.step[b] = "incr"
            /\ WillBlock(limited'[p], b) <=> WillBlock(r, b)
            /\ WillCount(limited[p], b) <=> limited[p].step[b] = "incr"
  BY <1>5, BumpsStep
<1>7. /\ orphaned' = orphaned \cup {b \in bs : limited[p].step[b] = "expire"}
      /\ loose' = loose \cup {b \in bs : limited[p].step[b] \in {"expire", "block"}}
  BY DEF limits!Cut
<1>8. limits!TypeOK'
  BY <1>3, <1>6, <1>7 DEF LimitsInv, limits!TypeOK
<1>9. limits!CountersExpire'
  <2> SUFFICES ASSUME NEW b \in limits!Buckets \ orphaned',
                      counter'[b].n > 0, ~counter'[b].expires
               PROVE  \E q \in Attempts : limited'[q].step[b] = "expire"
    BY DEF limits!CountersExpire
  <2>1. PICK q \in Attempts : limited[q].step[b] = "expire"
    BY <1>3, <1>7 DEF LimitsInv, limits!CountersExpire
  <2>2. b \in bs => limited[p].step[b] # "expire"
    BY <1>7
  <2> QED
    BY <1>2, <1>4, <1>6, <2>1, <2>2
<1>10. CountsFit'
  <2> SUFFICES ASSUME NEW b \in limits!Buckets \ loose' PROVE CountFits(b)'
    BY DEF CountsFit
  <2>1. CountFits(b) /\ counter[b].n \in Nat
    BY <1>7 DEF LimitsInv, CountsFit, limits!TypeOK, limits!Counter
  <2>2. Counting(b)' \subseteq Counting(b)
    <3>1. WillCount(limited'[p], b) => WillCount(limited[p], b)
      BY <1>5, <1>6 DEF Bumps
    <3> QED
      BY <1>3, <1>6, <3>1, SetsStep
  <2>3. Blocking(b) \subseteq Blocking(b)'
    <3>1. b \in bs => ~WillBlock(limited[p], b)
      BY <1>7 DEF WillBlock
    <3>2. WillBlock(limited[p], b) => WillBlock(r, b)
      BY <1>2, <1>4, <3>1 DEF WillBlock
    <3> QED
      BY <1>3, <1>6, <3>2, SetsStep
  <2> QED
    BY <1>3, <2>1, <2>2, <2>3, CountKept
<1> QED
  BY <1>6, <1>8, <1>9, <1>10 DEF LimitsInv

LEMMA TimeStep ==
    ASSUME LimitsInv, NEW c \in limits!Buckets,
           \/ limits!WindowEnds(c) \/ limits!BlockEnds(c) \/ limits!CooldownEnds
           \/ UNCHANGED limits!vars
    PROVE  LimitsInv'
<1>1. UNCHANGED <<limiter, limited, orphaned>>
  BY DEF limits!WindowEnds, limits!BlockEnds, limits!CooldownEnds, limits!vars
<1>2. /\ counter' \in [limits!Buckets -> limits!Counter]
      /\ \A b \in limits!Buckets : counter'[b] = counter[b] \/ counter'[b].n = 0
      /\ \A b \in limits!Buckets \ loose' :
            counter'[b].n = 0 \/ (/\ b \notin loose /\ counter'[b] = counter[b]
                                  /\ b \in block' <=> b \in block)
      /\ block' \cup loose' \subseteq limits!Buckets /\ cooldown' \in BOOLEAN
  <2>1. CASE limits!WindowEnds(c)
    <3>1. limits!NoCounter \in limits!Counter /\ limits!NoCounter.n = 0
      BY LimitsAreSound DEF limits!NoCounter, limits!Counter
    <3> QED
      BY <2>1, <3>1 DEF limits!WindowEnds, LimitsInv, limits!TypeOK
  <2>2. CASE limits!BlockEnds(c)
    BY <2>2 DEF limits!BlockEnds, LimitsInv, limits!TypeOK
  <2>3. CASE limits!CooldownEnds \/ UNCHANGED limits!vars
    BY <2>3 DEF limits!CooldownEnds, limits!vars, LimitsInv, limits!TypeOK
  <2> QED
    BY <2>1, <2>2, <2>3
<1>3. limits!TypeOK'
  BY <1>1, <1>2 DEF LimitsInv, limits!TypeOK
<1>4. StepsFit'
  BY <1>1 DEF LimitsInv, StepsFit
<1>5. limits!CountersExpire'
  BY <1>1, <1>2 DEF LimitsInv, limits!CountersExpire
<1>6. CountsFit'
  <2> SUFFICES ASSUME NEW b \in limits!Buckets \ loose' PROVE CountFits(b)'
    BY DEF CountsFit
  <2>1. Counting(b)' = Counting(b) /\ Blocking(b)' = Blocking(b)
    BY <1>1 DEF Counting, Blocking, WillCount, WillBlock
  <2>2. CASE counter'[b].n = 0
    BY <2>2, CountReset
  <2>3. CASE b \notin loose /\ counter'[b] = counter[b] /\ (b \in block' <=> b \in block)
    <3>1. CountFits(b) /\ counter[b].n \in Nat
      BY <2>3 DEF LimitsInv, CountsFit, limits!TypeOK, limits!Counter
    <3> QED
      BY <2>1, <2>3, <3>1, CountKept
  <2> QED
    BY <1>2, <2>2, <2>3
<1> QED
  BY <1>3, <1>4, <1>5, <1>6 DEF LimitsInv

\* Every step preserves the invariant.
LEMMA LimitsNext == ASSUME LimitsInv, [limits!Next]_limits!vars PROVE LimitsInv'
<1>1. ASSUME NEW p \in Attempts, limits!Proceed(p) PROVE LimitsInv'
  <2>1. ASSUME NEW bs \in SUBSET limits!Buckets, limits!Attempt(p, bs) PROVE LimitsInv'
    BY <2>1, AttemptStep
  <2>2. ASSUME NEW bs \in SUBSET limits!Buckets, limits!Cut(p, bs) PROVE LimitsInv'
    <3>1. CASE bs = limits!Buckets
      BY <2>2, <3>1, EndStep DEF limits!Cut
    <3>2. CASE bs # limits!Buckets
      BY <2>2, <3>2, PartialCutStep
    <3> QED
      BY <3>1, <3>2
  <2>3. ASSUME NEW b \in limits!Buckets,
               \/ limits!GetBlock(p, b) \/ limits!Incr(p, b)
               \/ limits!ExpireCounter(p, b) \/ limits!SetBlock(p, b)
        PROVE  LimitsInv'
    BY <2>3, GetBlockStep, IncrStep, ExpireCounterStep, SetBlockStep
  <2>4. CASE limits!PasswordFails(p) \/ limits!PasswordMatches(p) \/ limits!SetCooldown(p)
    BY <2>4, PasswordFailsStep, EndStep
  <2> QED
    BY <1>1, <2>1, <2>2, <2>3, <2>4 DEF limits!Proceed
<1>2. ASSUME NEW b \in limits!Buckets, limits!WindowEnds(b) \/ limits!BlockEnds(b)
      PROVE  LimitsInv'
  BY <1>2, TimeStep
<1>3. CASE limits!CooldownEnds \/ UNCHANGED limits!vars
  <2>1. "ip" \in limits!Buckets
    BY DEF limits!Buckets
  <2> QED
    BY <1>3, <2>1, TimeStep
<1> QED
  BY <1>1, <1>2, <1>3 DEF limits!Next

\* The cardinality that RateLimits takes from its own FiniteSets.
LEMMA SameCardinality == limits!Cardinality(Attempts) = Cardinality(Attempts)
BY DEF limits!Cardinality, Cardinality

\* Attempts that run concurrently overshoot a limit by less than their number.
LEMMA CountsAreBounded == ASSUME LimitsInv PROVE limits!OvershootIsBounded
<1> SUFFICES ASSUME NEW b \in limits!Buckets \ loose
             PROVE  counter[b].n < MaxAttempts + Cardinality(Attempts)
  BY SameCardinality DEF limits!OvershootIsBounded
<1>1. CountFits(b) /\ counter[b].n \in Nat
  BY DEF LimitsInv, CountsFit, limits!TypeOK, limits!Counter
<1>2. /\ Cardinality(Blocking(b)) \in Nat /\ Cardinality(Counting(b)) \in Nat
      /\ Cardinality(Attempts) \in Nat /\ Cardinality(Blocking(b)) <= Cardinality(Attempts)
  BY SetsAreFinite
<1> QED
  BY <1>1, <1>2, LimitsAreSound DEF CountFits

LEMMA LimitsAlways == limits!Spec => []LimitsInv
<1>1. limits!Init => LimitsInv
  BY LimitsInit
<1>2. LimitsInv /\ [limits!Next]_limits!vars => LimitsInv'
  BY LimitsNext
<1> QED
  BY <1>1, <1>2, PTL DEF limits!Spec

-----------------------------------------------------------------------------
(* The push tokens: PushTokensProofs is about the same part. *)

pushed == INSTANCE PushTokensProofs WITH
              Requests <- Registrations, MaxAttempts <- TxAttempts, req <- registration

LEMMA PushesAreSound == pushed!Sound
BY AttemptsAreAllowed DEF pushed!Sound

\* The two instances have the same definitions.
LEMMA SameRegistrations ==
    ASSUME NEW p \in Registrations PROVE pushes!Register(p) <=> pushed!Register(p)
BY DEF pushes!Register, pushes!UpsertMyPushToken, pushes!SessionNotFound, pushes!LockSession,
       pushes!CommitUpsert, pushes!RetryUpsert, pushes!UpsertFails, pushes!IsRow, pushes!Live,
       pushes!IsCallersSession, pushes!Locked, pushes!SnapshotIsCurrent, pushes!Waits,
       pushes!Registered, pushes!Deadlocked, pushes!TriedAgain, pushes!Retried, pushes!IdleRequest,
       pushed!Register, pushed!UpsertMyPushToken, pushed!SessionNotFound, pushed!LockSession,
       pushed!CommitUpsert, pushed!RetryUpsert, pushed!UpsertFails, pushed!IsRow, pushed!Live,
       pushed!IsCallersSession, pushed!Locked, pushed!SnapshotIsCurrent, pushed!Waits,
       pushed!Registered, pushed!Deadlocked, pushed!TriedAgain, pushed!Retried, pushed!IdleRequest

LEMMA SamePushes == ASSUME NEW j \in Sends PROVE pushes!Push(j) <=> pushed!Push(j)
BY DEF pushes!Push, pushes!ReadSession, pushes!SendEnds, pushes!InvalidToken,
       pushes!ClearInvalidToken, pushes!HasStillToken, pushes!Outdates, pushes!Locked, pushes!Live,
       pushes!IdleSend,
       pushed!Push, pushed!ReadSession, pushed!SendEnds, pushed!InvalidToken,
       pushed!ClearInvalidToken, pushed!HasStillToken, pushed!Outdates, pushed!Locked, pushed!Live,
       pushed!IdleSend

LEMMA SameSessionSteps ==
    ASSUME NEW x \in Sessions
    PROVE  /\ pushes!Login(x) <=> pushed!Login(x)
           /\ pushes!RevokeMyPushToken(x) <=> pushed!RevokeMyPushToken(x)
           /\ pushes!Revoke(x) <=> pushed!Revoke(x)
           /\ pushes!Suspend(x) <=> pushed!Suspend(x)
           /\ pushes!Expire(x) <=> pushed!Expire(x)
           /\ pushes!Delete(x) <=> pushed!Delete(x)
BY DEF pushes!Login, pushes!RevokeMyPushToken, pushes!Revoke, pushes!Revoked, pushes!Suspend,
       pushes!Expire, pushes!Delete, pushes!IsRow, pushes!Live, pushes!Locked, pushes!Outdates,
       pushed!Login, pushed!RevokeMyPushToken, pushed!Revoke, pushed!Revoked, pushed!Suspend,
       pushed!Expire, pushed!Delete, pushed!IsRow, pushed!Live, pushed!Locked, pushed!Outdates

LEMMA SamePart ==
    /\ pushes!Init => pushed!Init
    /\ pushes!Next => pushed!Next
    /\ UNCHANGED pushes!vars <=> UNCHANGED pushed!vars
<1>1. pushes!Init => pushed!Init
  BY DEF pushes!Init, pushed!Init, pushes!IdleRequest, pushed!IdleRequest, pushes!IdleSend,
         pushed!IdleSend
<1>2. \A t \in PushTokens : pushes!TokenDies(t) <=> pushed!TokenDies(t)
  BY DEF pushes!TokenDies, pushed!TokenDies
<1>3. pushes!Next => pushed!Next
  BY <1>2, SameRegistrations, SamePushes, SameSessionSteps DEF pushes!Next, pushed!Next
<1>4. UNCHANGED pushes!vars <=> UNCHANGED pushed!vars
  BY DEF pushes!vars, pushed!vars
<1> QED
  BY <1>1, <1>3, <1>4

\* What the push tokens' own proofs say, of the part of the sum.
LEMMA PushesAlways ==
    pushed!Spec => [](pushes!TypeOK /\ PushTokensArePlaced) /\ LiveSessionKeepsToken
<1>1. pushed!TypeOK => pushes!TypeOK
  BY DEF pushed!TypeOK, pushes!TypeOK, pushed!Session, pushes!Session, pushed!Status,
         pushes!Status,
         pushed!Request, pushes!Request, pushed!Send, pushes!Send
<1>2. pushed!OneSessionPerToken /\ pushed!RevokedHasNoToken => PushTokensArePlaced
  BY DEF PushTokensArePlaced, pushed!OneSessionPerToken, pushed!RevokedHasNoToken,
         pushes!OneSessionPerToken, pushes!RevokedHasNoToken
<1>3. pushed!Spec => []pushed!TypeOK /\ []pushed!OneSessionPerToken /\ []pushed!RevokedHasNoToken
                     /\ pushed!LiveSessionKeepsToken
  BY PushesAreSound, pushed!TypeCorrect, pushed!TokensHaveOneSession,
     pushed!RevokedSessionsHaveNoToken, pushed!LiveSessionsKeepTokens
<1>4. [pushed!LossesAreDue]_pushed!vars => [pushes!LossesAreDue]_pushes!vars
  <2>1. /\ \A x \in Sessions : pushed!RevokeMyPushToken(x) => pushes!RevokeMyPushToken(x)
        /\ \A p \in Registrations : pushed!CommitUpsert(p) => pushes!CommitUpsert(p)
    BY SameSessionSteps
       DEF pushes!CommitUpsert, pushes!SnapshotIsCurrent, pushes!Waits, pushes!Registered,
           pushes!Locked, pushes!IdleRequest,
           pushed!CommitUpsert, pushed!SnapshotIsCurrent, pushed!Waits, pushed!Registered,
           pushed!Locked, pushed!IdleRequest
  <2>2. pushed!LossesAreDue => pushes!LossesAreDue
    BY <2>1 DEF pushed!LossesAreDue, pushes!LossesAreDue, pushes!Live, pushed!Live
  <2> QED
    BY <2>2, SamePart
<1> QED
  BY <1>1, <1>2, <1>3, <1>4, PTL
     DEF LiveSessionKeepsToken, pushes!LiveSessionKeepsToken, pushed!LiveSessionKeepsToken

-----------------------------------------------------------------------------
(* The sum. *)

\* A behaviour of the sum is a behaviour of each part: the parts share no variable.
THEOREM SumOfParts == SumSpec => Spec /\ mails!Spec /\ pushes!Spec /\ limits!Spec
<1>1. SumInit => Init /\ mails!Init /\ pushes!Init /\ limits!Init
  BY DEF SumInit
<1>2. [SumNext]_sumVars => [Next]_vars
  BY DEF SumNext, sumVars, vars, IdentitiesStay
<1>3. [SumNext]_sumVars => [mails!Next]_mails!vars
  BY DEF SumNext, sumVars, mails!vars, MailsStay
<1>4. [SumNext]_sumVars => [pushes!Next]_pushes!vars
  BY DEF SumNext, sumVars, pushes!vars, PushesStay
<1>5. [SumNext]_sumVars => [limits!Next]_limits!vars
  BY DEF SumNext, sumVars, limits!vars, LimitsStay
<1> QED
  BY <1>1, <1>2, <1>3, <1>4, <1>5, PTL
     DEF SumSpec, Spec, mails!Spec, pushes!Spec, limits!Spec

LEMMA SumOfPushes == SumSpec => pushed!Spec
<1>1. pushes!Init => pushed!Init
  BY SamePart
<1>2. [pushes!Next]_pushes!vars => [pushed!Next]_pushed!vars
  BY SamePart
<1> QED
  BY <1>1, <1>2, SumOfParts, PTL DEF pushes!Spec, pushed!Spec

\* Every variable of every part has its type in every reachable state.
THEOREM TypesAreCorrect == SumSpec => []TypesOK
<1>1. MailsInv => mails!TypeOK
  BY DEF MailsInv, MailsTyped
<1>2. LimitsInv => limits!TypeOK
  BY DEF LimitsInv
<1> QED
  BY <1>1, <1>2, SumOfParts, SumOfPushes, IdentitiesTyped, MailsAlways, PushesAlways,
     LimitsAlways, PTL
     DEF TypesOK

\* An erased account keeps neither identity, nor password, nor token, but for one whose
\* link or job was under way.
THEOREM ErasureCompletes == SumSpec => []ErasureIsComplete
<1>1. MailsInv => mails!ErasedKeepsNothing
  BY DEF MailsInv
<1> QED
  BY <1>1, SumOfParts, ErasedAccountsAreUnlinked, MailsAlways, PTL DEF ErasureIsComplete

\* However many mails went out, a successful reset leaves none of the reset tokens usable
\* that had been issued.
THEOREM ResetsEndOlderTokens == SumSpec => []ResetEndsOlderTokens
<1>1. MailsInv => ResetEndsOlderTokens
  BY DEF MailsInv, ResetEndsOlderTokens
<1> QED
  BY <1>1, SumOfParts, MailsAlways, PTL

\* However registrations race with one another and with revocations, a token is with one
\* session at most, and never with a revoked or deleted one.
THEOREM PushTokensStayPlaced == SumSpec => []PushTokensArePlaced
BY SumOfPushes, PushesAlways, PTL

\* A live session loses its token to its client, to the provider or to another session
\* only.
THEOREM LiveSessionsKeepTokens == SumSpec => LiveSessionKeepsToken
BY SumOfPushes, PushesAlways, PTL

\* However INCR, EXPIRE and DEL of concurrent requests interleave, a counter expires, or is
\* about to get its expiry, unless a request was cut short just there.
THEOREM CountersDoExpire == SumSpec => []CountersExpire
<1>1. LimitsInv => CountersExpire
  BY DEF LimitsInv, CountersExpire
<1> QED
  BY <1>1, SumOfParts, LimitsAlways, PTL

\* However many attempts run at the same time, they overshoot a limit by less than their
\* number.
THEOREM OvershootStaysBounded == SumSpec => []OvershootIsBounded
<1>1. LimitsInv => OvershootIsBounded
  BY CountsAreBounded DEF OvershootIsBounded
<1> QED
  BY <1>1, SumOfParts, LimitsAlways, PTL
=============================================================================

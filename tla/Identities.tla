------------------------------ MODULE Identities ------------------------------
(***************************************************************************)
(* Accounts and the Google identities linked to them: registration with a  *)
(* password, sign-in by OIDC exchange, connecting an identity to the       *)
(* account one is signed in to, and the erasure of an account.             *)
(*                                                                         *)
(* The transaction that links is READ COMMITTED: its reads are one step,   *)
(* its insert and the update that follows another (the insert's foreign    *)
(* key holds the user's row).  A unique violation aborts it.               *)
(***************************************************************************)
EXTENDS Naturals

CONSTANTS
    Users,     \* user rows, used or not
    Emails,    \* normalised addresses
    Subjects,  \* "sub" claims of Google accounts
    Procs,     \* concurrent requests
    None

ASSUME NoneIsNoClaim == None \notin Users \cup Emails \cup Subjects

VARIABLES
    account,   \* each user row
    identity,  \* the ExternalIdentity rows
    req,       \* the local state of each request
    proven,    \* history: the addresses that a user's token, link or mail has vouched for
    late       \* history: users linked by a transaction that read them before their erasure

vars == <<account, identity, req, proven, late>>

Account == [status : {"none", "ACTIVE", "SUSPENDED", "DELETED"}, email : Emails \cup {None},
            verified : BOOLEAN, password : BOOLEAN]

NoAccount == [status |-> "none", email |-> None, verified |-> FALSE, password |-> FALSE]

NewAccount(e, verified, password) ==
    [status |-> "ACTIVE", email |-> e, verified |-> verified, password |-> password]

\* At most one row for each subject and for each user, by unique index.
Identity == [user : Users, subject : Subjects]

\* subject, email: claims of the verified ID token.  user: who connects.  seen: the row
\* that was read.
Request == [pc : {"idle", "identity", "email", "create", "again", "require", "reads",
                  "verify", "insert"},
            subject : Subjects \cup {None}, email : Emails \cup {None},
            user : Users \cup {None}, seen : Account]

Asking(pc, s, e, u) ==
    [pc |-> pc, subject |-> s, email |-> e, user |-> u, seen |-> NoAccount]

IdleRequest == Asking("idle", None, None, None)

Live(u) == account[u].status \in {"ACTIVE", "SUSPENDED"}

EmailTaken(e) == \E u \in Users : account[u].email = e

Linked(s) == \E r \in identity : r.subject = s

OwnerOf(s) == (CHOOSE r \in identity : r.subject = s).user

Goes(p, pc) == req' = [req EXCEPT ![p].pc = pc]

Ends(p) == req' = [req EXCEPT ![p] = IdleRequest]

Proves(u, e) == proven' = proven \cup {<<u, e>>}

(***************************************************************************)
(* registerWithPassword                                                    *)
(***************************************************************************)

\* The create is one transaction; the unique email turns a second one away.
Register(u, e) ==
    /\ account[u].status = "none" /\ ~EmailTaken(e)
    /\ account' = [account EXCEPT ![u] = NewAccount(e, FALSE, TRUE)]
    /\ UNCHANGED <<identity, req, proven, late>>

(***************************************************************************)
(* exchangeOidc                                                            *)
(***************************************************************************)

\* verifyOidcIdentityOrThrow passes tokens that are valid and whose email is verified.
Exchange(p, s, e) ==
    /\ req[p].pc = "idle"
    /\ req' = [req EXCEPT ![p] = Asking("identity", s, e, None)]
    /\ UNCHANGED <<account, identity, proven, late>>

\* findUserByExternalIdentity found an ACTIVE user: tokens for a new session.
SignIn(p) ==
    /\ req[p].pc \in {"identity", "again"} /\ Linked(req[p].subject)
    /\ account[OwnerOf(req[p].subject)].status = "ACTIVE"
    /\ Ends(p)
    /\ UNCHANGED <<account, identity, proven, late>>

\* ...or one that is DELETED or SUSPENDED; or the second search finds nobody.
RefuseSignIn(p) ==
    /\ \/ req[p].pc \in {"identity", "again"} /\ Linked(req[p].subject)
            /\ account[OwnerOf(req[p].subject)].status # "ACTIVE"
       \/ req[p].pc = "again" /\ ~Linked(req[p].subject)
    /\ Ends(p)
    /\ UNCHANGED <<account, identity, proven, late>>

IdentityUnknown(p) ==
    /\ req[p].pc = "identity" /\ ~Linked(req[p].subject)
    /\ Goes(p, "email")
    /\ UNCHANGED <<account, identity, proven, late>>

\* findUserIdByEmail, or the unique email: AUTH_OIDC_LINK_REQUIRED.
RequireLink(p) ==
    /\ req[p].pc \in {"email", "create"} /\ EmailTaken(req[p].email)
    /\ Ends(p)
    /\ UNCHANGED <<account, identity, proven, late>>

EmailUnknown(p) ==
    /\ req[p].pc = "email" /\ ~EmailTaken(req[p].email)
    /\ Goes(p, "create")
    /\ UNCHANGED <<account, identity, proven, late>>

NothingTaken(p) == TRUE

\* The unique indexes, as the insert finds them.
NothingIsTaken(p) == ~EmailTaken(req[p].email) /\ ~Linked(req[p].subject)

NewIdentity(p, u) == {[user |-> u, subject |-> req[p].subject]}

\* createUserWithExternalIdentity: user, profile and identity in one transaction.
CreateUser(p, u) ==
    /\ req[p].pc = "create" /\ account[u].status = "none"
    /\ NothingIsTaken(p)
    /\ account' = [account EXCEPT ![u] = NewAccount(req[p].email, TRUE, FALSE)]
    /\ identity' = identity \cup NewIdentity(p, u)
    /\ Proves(u, req[p].email)
    /\ Ends(p)
    /\ UNCHANGED late

\* The insert of the user comes first: the email is reported before the identity.
IdentityRaced(p) ==
    /\ req[p].pc = "create" /\ ~EmailTaken(req[p].email) /\ Linked(req[p].subject)
    /\ Goes(p, "again")
    /\ UNCHANGED <<account, identity, proven, late>>

(***************************************************************************)
(* connectOidc                                                             *)
(***************************************************************************)

Connect(p, u, s, e) ==
    /\ req[p].pc = "idle" /\ account[u].status # "none"
    /\ req' = [req EXCEPT ![p] = Asking("require", s, e, u)]
    /\ UNCHANGED <<account, identity, proven, late>>

\* requireExistingNonDeletedUser.
RequireUser(p) ==
    /\ req[p].pc = "require"
    /\ IF Live(req[p].user) THEN Goes(p, "reads") ELSE Ends(p)
    /\ UNCHANGED <<account, identity, proven, late>>

AnyEmail(p) == TRUE

\* verifyEmailIfMatching, with the user as it was read.
Matches(p) == req[p].email = req[p].seen.email

Verified(p, a) ==
    IF Matches(p) /\ ~req[p].seen.verified THEN [a EXCEPT !.verified = TRUE] ELSE a

\* The transaction reads the user, the identity and the provider's identity of the user.
LinkReads(p) ==
    LET u == req[p].user
        s == req[p].subject
    IN  /\ req[p].pc = "reads"
        /\ req' = [req EXCEPT ![p] =
             IF Linked(s) /\ OwnerOf(s) = u
             THEN [@ EXCEPT !.pc = "verify", !.seen = account[u]]
             ELSE IF ~Linked(s) /\ \A r \in identity : r.user # u
             THEN [@ EXCEPT !.pc = "insert", !.seen = account[u]]
             ELSE IdleRequest]
        /\ UNCHANGED <<account, identity, proven, late>>

\* Linked already: the address is verified, if it matches.
AlreadyLinked(p) ==
    /\ req[p].pc = "verify"
    /\ account' = [account EXCEPT ![req[p].user] = Verified(p, @)]
    /\ Proves(req[p].user, req[p].email)
    /\ Ends(p)
    /\ UNCHANGED <<identity, late>>

Link(p) ==
    LET u == req[p].user
    IN  /\ req[p].pc = "insert"
        /\ \A r \in identity : r.subject # req[p].subject /\ r.user # u
        /\ identity' = identity \cup {[user |-> u, subject |-> req[p].subject]}
        /\ account' = [account EXCEPT ![u] = Verified(p, @)]
        /\ Proves(u, req[p].email)
        /\ late' = IF Live(u) THEN late ELSE late \cup {u}
        /\ Ends(p)

\* A unique violation aborts the transaction: the queries that would tell which it was
\* fail too.
LinkRaced(p) ==
    /\ req[p].pc = "insert"
    /\ \E r \in identity : r.subject = req[p].subject \/ r.user = req[p].user
    /\ Ends(p)
    /\ UNCHANGED <<account, identity, proven, late>>

\* The database fails or the process dies.
RequestFails(p) ==
    /\ req[p].pc # "idle"
    /\ Ends(p)
    /\ UNCHANGED <<account, identity, proven, late>>

(***************************************************************************)
(* What other parts of the system do to an account                         *)
(***************************************************************************)

\* verifyEmailByTokenHash (OneTimeTokens).
VerifyByMail(u) ==
    /\ Live(u) /\ ~account[u].verified
    /\ account' = [account EXCEPT ![u].verified = TRUE]
    /\ Proves(u, account[u].email)
    /\ UNCHANGED <<identity, req, late>>

\* setUserStatus (UserLifecycle).
SetStatus(u, s) ==
    /\ Live(u)
    /\ account' = [account EXCEPT ![u].status = s]
    /\ UNCHANGED <<identity, req, proven, late>>

KeepsIdentity(u) == {}

IdentitiesOf(u) == {r \in identity : r.user = u}

\* runFinalizeAccountDeletionTx: the address is scrubbed, credential and identities go.
Erase(u) ==
    /\ Live(u)
    /\ account' = [account EXCEPT ![u] = [NoAccount EXCEPT !.status = "DELETED"]]
    /\ identity' = identity \ IdentitiesOf(u)
    /\ UNCHANGED <<req, proven, late>>

Proceed(p) ==
    \/ SignIn(p) \/ RefuseSignIn(p) \/ IdentityUnknown(p)
    \/ RequireLink(p) \/ EmailUnknown(p) \/ IdentityRaced(p)
    \/ \E u \in Users : CreateUser(p, u)
    \/ RequireUser(p) \/ LinkReads(p) \/ AlreadyLinked(p) \/ Link(p) \/ LinkRaced(p)
    \/ RequestFails(p)

Next ==
    \/ \E u \in Users : \/ \E e \in Emails : Register(u, e)
                        \/ VerifyByMail(u)
                        \/ \E s \in {"ACTIVE", "SUSPENDED"} : SetStatus(u, s)
                        \/ Erase(u)
    \/ \E p \in Procs, s \in Subjects, e \in Emails :
          Exchange(p, s, e) \/ \E u \in Users : Connect(p, u, s, e)
    \/ \E p \in Procs : Proceed(p)

Init ==
    /\ account = [u \in Users |-> NoAccount]
    /\ identity = {}
    /\ req = [p \in Procs |-> IdleRequest]
    /\ proven = {}
    /\ late = {}

Spec == Init /\ [][Next]_vars

-----------------------------------------------------------------------------
(***************************************************************************)
(* Properties.                                                             *)
(***************************************************************************)

\* Every variable has its type.
TypeOK ==
    /\ account \in [Users -> Account]
    /\ identity \subseteq Identity
    /\ req \in [Procs -> Request]
    /\ proven \subseteq Users \X Emails
    /\ late \subseteq Users

\* However registrations, exchanges and links race, no address and no subject belongs to
\* two accounts, and no account has two identities of the provider.
AccountsAreUnique ==
    /\ \A u, v \in Users : u # v /\ account[u].email = account[v].email
                             => account[u].email = None
    /\ \A q, r \in identity : q # r => q.user # r.user /\ q.subject # r.subject

\* The address of an account is verified only if its owner has shown a link that was
\* mailed there, or an ID token that has this very address.
VerifiedIsProven ==
    \A u \in Users : Live(u) /\ account[u].verified => <<u, account[u].email>> \in proven

\* An erased account leaves its Google identity free, unless a link that was under way
\* committed after the erasure.
ErasedIsUnlinked ==
    \A u \in Users \ late : account[u].status = "DELETED" => \A r \in identity : r.user # u
=============================================================================

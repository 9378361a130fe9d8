---------------------------- MODULE UserLifecycle ----------------------------
(***************************************************************************)
(* The User row and every transaction that moves its role, its status or   *)
(* its scheduled deletion:                                                 *)
(*                                                                         *)
(*   promote, demote       setUserRole             admin API               *)
(*   suspend, reactivate   setUserStatus           admin API               *)
(*   request, cancel       request-/cancelAccountDeletion   /v1/me API     *)
(*   finalize              runFinalizeAccountDeletionTx     users worker   *)
(*                                                                         *)
(* All of them run concurrently, from any number of API and worker         *)
(* processes, against one Postgres database.  A transaction reads its      *)
(* target WITHOUT a lock, decides, possibly locks every active admin       *)
(* (SELECT ... FOR UPDATE, one row at a time), and then writes.  Each of   *)
(* those statements is a step of its own; the last write and the commit    *)
(* are one step, because no other transaction can see one without the      *)
(* other and the row stays locked in between.                              *)
(***************************************************************************)
EXTENDS Naturals, FiniteSets

CONSTANTS
    Users,        \* rows of the "User" table
    Procs,        \* concurrent transactions (requests and worker jobs)
    Ops,          \* the operations this deployment is exercised with
    MaxAttempts,  \* withTransactionRetry's maxAttempts (3 in the code)
    Nobody        \* no transaction, no user

AllOps == {"promote", "demote", "suspend", "reactivate",
           "request", "cancel", "finalize"}

AdminOps == {"promote", "demote", "suspend", "reactivate"}

ASSUME UsersAssumption == IsFiniteSet(Users) /\ Nobody \notin Users
ASSUME ProcsAssumption == Nobody \notin Procs
ASSUME OpsAssumption == Ops \subseteq AllOps
ASSUME AttemptsAssumption == MaxAttempts \in Nat \ {0}

VARIABLES
    users,  \* the committed rows
    owner,  \* the transaction that holds the row lock of a user
    tx,     \* the local state of each transaction
    audit   \* the audit rows the last step wrote

vars == <<users, owner, tx, audit>>

(***************************************************************************)
(* A row.  schedule abstracts deletionScheduledFor: null, still ahead, or  *)
(* due.  session tells whether deletionRequestedSessionId is set, deleted  *)
(* whether deletedAt is.  The sessions, tokens and credentials that        *)
(* suspension and finalization revoke or delete in the same transaction    *)
(* are the state of module Sessions, which has those commits as actions.   *)
(***************************************************************************)
Row == [role     : {"USER", "ADMIN"},
        status   : {"ACTIVE", "SUSPENDED", "DELETED"},
        schedule : {"none", "future", "past"},
        session  : BOOLEAN,
        deleted  : BOOLEAN]

NoRow == [role |-> "USER", status |-> "DELETED", schedule |-> "none",
          session |-> FALSE, deleted |-> FALSE]

Tx == [pc      : {"idle", "reading", "counting", "locking", "updating"},
       op      : AllOps \cup {"none"},
       target  : Users \cup {Nobody},
       found   : Row,            \* what the unlocked read returned
       pending : SUBSET Users,   \* rows FOR UPDATE has still to lock
       counted : SUBSET Users,   \* rows FOR UPDATE has returned
       attempt : 1 .. MaxAttempts]

IdleTx == [pc |-> "idle", op |-> "none", target |-> Nobody, found |-> NoRow,
           pending |-> {}, counted |-> {}, attempt |-> 1]

AuditValue == {"USER", "ADMIN", "ACTIVE", "SUSPENDED", "DELETED", "none",
               "REQUESTED", "CANCELED", "FINALIZED", "FINALIZE_BLOCKED_LAST_ADMIN"}

AuditRow == [kind : {"ROLE", "STATUS", "DELETION"}, target : Users,
             old : AuditValue, new : AuditValue]

IsActiveAdmin(row) == row.role = "ADMIN" /\ row.status = "ACTIVE"

ActiveAdmins == {u \in Users : IsActiveAdmin(users[u])}

(***************************************************************************)
(* What each operation decides from the row it read.                       *)
(***************************************************************************)

\* The early returns of each operation: nothing to do, or not allowed.
RoleIsSet(role, row) == row.status = "DELETED" \/ row.role = role

StatusIsSet(status, row) == row.status \in {"DELETED", status}

IsAlreadyRequested(row) == row.status = "DELETED" \/ row.schedule # "none"

IsNotRequested(row) == row.status = "DELETED" \/ row.schedule = "none"

IsNotDue(row) == row.status = "DELETED" \/ row.deleted \/ row.schedule # "past"

ReturnsEarly(op, row) ==
    \/ op = "promote" /\ RoleIsSet("ADMIN", row)
    \/ op = "demote" /\ RoleIsSet("USER", row)
    \/ op = "suspend" /\ StatusIsSet("SUSPENDED", row)
    \/ op = "reactivate" /\ StatusIsSet("ACTIVE", row)
    \/ op = "request" /\ IsAlreadyRequested(row)
    \/ op = "cancel" /\ IsNotRequested(row)
    \/ op = "finalize" /\ IsNotDue(row)

\* Only a transaction that believes its target is an active admin counts.
UnguardedFinalizer(op, row) ==
    op \in {"demote", "suspend", "request"} /\ IsActiveAdmin(row)

TakesAdminLock(op, row) ==
    op \in {"demote", "suspend", "request", "finalize"} /\ IsActiveAdmin(row)

\* The last-admin test on the number of locked rows.
OffByOneAdmins(n) == n > 0

EnoughAdmins(n) == n > 1

\* The retry loop: attempts left, and the number of the next one.
OneAttemptTooMany(n) == n <= MaxAttempts

AttemptsLeft(n) == n < MaxAttempts

UncountedAttempt(n) == n

NextAttempt(n) == n + 1

\* The pending-deletion columns are cleared together.
ScheduleClearedOnly(row) == [row EXCEPT !.schedule = "none"]

Cleared(row) == [row EXCEPT !.schedule = "none", !.session = FALSE]

\* The columns the UPDATE of each operation writes, whatever the row holds now.
SetUserRole(role, row) == [row EXCEPT !.role = role]

SetUserStatus(status, row) == [row EXCEPT !.status = status]

RequestAccountDeletion(row) == [row EXCEPT !.schedule = "future", !.session = TRUE]

CancelAccountDeletion(row) == Cleared(row)

FinalizeAccountDeletion(row) ==
    [Cleared(row) EXCEPT !.role = "USER", !.status = "DELETED", !.deleted = TRUE]

Written(op, row) ==
    CASE op = "promote"    -> SetUserRole("ADMIN", row)
      [] op = "demote"     -> SetUserRole("USER", row)
      [] op = "suspend"    -> SetUserStatus("SUSPENDED", row)
      [] op = "reactivate" -> SetUserStatus("ACTIVE", row)
      [] op = "request"    -> RequestAccountDeletion(row)
      [] op = "cancel"     -> CancelAccountDeletion(row)
      [] op = "finalize"   -> FinalizeAccountDeletion(row)

\* The status audit row of a finalization.
UnauditedErasure(op, u, found) == {}

ErasureAudit(op, u, found) ==
    IF op = "finalize"
    THEN {[kind |-> "STATUS", target |-> u, old |-> found.status, new |-> "DELETED"]}
    ELSE {}

\* The audit rows of the same transaction: the old value comes from the read.
Audits(op, u, found) ==
    ErasureAudit(op, u, found) \cup
    CASE op \in {"promote", "demote"} ->
           {[kind |-> "ROLE", target |-> u, old |-> found.role,
             new |-> Written(op, found).role]}
      [] op \in {"suspend", "reactivate"} ->
           {[kind |-> "STATUS", target |-> u, old |-> found.status,
             new |-> Written(op, found).status]}
      [] op = "request" ->
           {[kind |-> "DELETION", target |-> u, old |-> "none", new |-> "REQUESTED"]}
      [] op = "cancel" ->
           {[kind |-> "DELETION", target |-> u, old |-> "REQUESTED", new |-> "CANCELED"]}
      [] op = "finalize" ->
           {[kind |-> "DELETION", target |-> u, old |-> "REQUESTED", new |-> "FINALIZED"]}

(***************************************************************************)
(* Steps of a transaction.                                                 *)
(***************************************************************************)

Unlocked(p) == [u \in Users |-> IF owner[u] = p THEN Nobody ELSE owner[u]]

\* Commit or roll back: the locks go, the request is answered.
Finish(p) ==
    /\ owner' = Unlocked(p)
    /\ tx' = [tx EXCEPT ![p] = IdleTx]

\* A request passes its guards.  An admin operation needs an actor that is an
\* active admin NOW: RbacGuard hydrates role and status from the database.
Begin(p, op, u) ==
    /\ tx[p].pc = "idle"
    /\ op \in AdminOps => ActiveAdmins # {}
    /\ tx' = [tx EXCEPT ![p] = [IdleTx EXCEPT !.pc = "reading", !.op = op, !.target = u]]
    /\ audit' = {}
    /\ UNCHANGED <<users, owner>>

\* tx.user.findUnique: a plain read, and the early returns it leads to.
ReadTarget(p) ==
    /\ tx[p].pc = "reading"
    /\ LET row == users[tx[p].target]
           op  == tx[p].op
       IN  IF ReturnsEarly(op, row)
           THEN Finish(p)
           ELSE /\ tx' = [tx EXCEPT ![p].found = row,
                              ![p].pc = IF TakesAdminLock(op, row)
                                        THEN "counting" ELSE "updating"]
                /\ owner' = owner
    /\ audit' = {}
    /\ users' = users

\* lockActiveAdminInvariant: the rows its WHERE clause matches.
OtherActiveAdmins(p) == ActiveAdmins \ {tx[p].target}

Candidates(p) == ActiveAdmins

\* The statement takes its snapshot of them.
SnapshotAdmins(p) ==
    /\ tx[p].pc = "counting"
    /\ tx' = [tx EXCEPT ![p].pending = Candidates(p), ![p].pc = "locking"]
    /\ audit' = {}
    /\ UNCHANGED <<users, owner>>

\* After a wait, FOR UPDATE evaluates the WHERE clause again.
MatchedBefore(u) == TRUE

StillMatches(u) == IsActiveAdmin(users[u])

\* FOR UPDATE reaches one row of the snapshot, waits until it is free, locks
\* it, and returns it only if it still matches the WHERE clause.
LockRow(p, u) ==
    /\ tx[p].pc = "locking"
    /\ u \in tx[p].pending
    /\ owner[u] \in {Nobody, p}
    /\ owner' = [owner EXCEPT ![u] = p]
    /\ tx' = [tx EXCEPT ![p].pending = @ \ {u},
                        ![p].counted = IF StillMatches(u) THEN @ \cup {u} ELSE @]
    /\ audit' = {}
    /\ users' = users

\* count <= 1: the operation is refused, and the worker leaves an audit row.
RefuseLastAdmin(p) ==
    /\ tx[p].pc = "locking"
    /\ tx[p].pending = {}
    /\ ~EnoughAdmins(Cardinality(tx[p].counted))
    /\ audit' = IF tx[p].op = "finalize"
                THEN {[kind |-> "DELETION", target |-> tx[p].target,
                       old |-> "REQUESTED", new |-> "FINALIZE_BLOCKED_LAST_ADMIN"]}
                ELSE {}
    /\ Finish(p)
    /\ users' = users

\* count > 1: go on to the update.
PassAdminCount(p) ==
    /\ tx[p].pc = "locking"
    /\ tx[p].pending = {}
    /\ EnoughAdmins(Cardinality(tx[p].counted))
    /\ tx' = [tx EXCEPT ![p].pc = "updating"]
    /\ audit' = {}
    /\ UNCHANGED <<users, owner>>

\* Only cancelAccountDeletion is SERIALIZABLE: its update fails when the row
\* changed after its snapshot.  READ COMMITTED updates whatever is there now.
\* (A scheduled date that has come meanwhile is no change of the row.)
Conflicts(p) ==
    LET Version(row) == [row EXCEPT !.schedule = IF @ = "past" THEN "future" ELSE @]
    IN  /\ tx[p].op = "cancel"
        /\ Version(users[tx[p].target]) # Version(tx[p].found)

\* UPDATE ... WHERE id, the audit rows and the commit.
Update(p) ==
    LET u == tx[p].target
    IN  /\ tx[p].pc = "updating"
        /\ owner[u] \in {Nobody, p}
        /\ ~Conflicts(p)
        /\ users' = [users EXCEPT ![u] = Written(tx[p].op, users[u])]
        /\ audit' = Audits(tx[p].op, u, tx[p].found)
        /\ Finish(p)

(***************************************************************************)
(* Failures.                                                               *)
(***************************************************************************)

\* Rows a transaction waits for and cannot get.
Awaits(p) ==
    IF tx[p].pc = "locking" THEN tx[p].pending
    ELSE IF tx[p].pc = "updating" THEN {tx[p].target} ELSE {}

\* The transactions of D wait for each other and for nobody else.
Deadlocked(D) ==
    \A q \in D : /\ Awaits(q) # {}
                 /\ \A u \in Awaits(q) : owner[u] \in D \ {q}

\* A deadlock victim or a serialization failure: withTransactionRetry starts
\* over with a new snapshot, or gives up after maxAttempts.
Retry(p) ==
    /\ \/ \E D \in SUBSET Procs : p \in D /\ Deadlocked(D)
       \/ /\ tx[p].pc = "updating"
          /\ owner[tx[p].target] \in {Nobody, p}
          /\ Conflicts(p)
    /\ owner' = Unlocked(p)
    /\ tx' = [tx EXCEPT ![p] =
                IF AttemptsLeft(@.attempt)
                THEN [IdleTx EXCEPT !.pc = "reading", !.op = tx[p].op,
                          !.target = tx[p].target, !.attempt = NextAttempt(tx[p].attempt)]
                ELSE IdleTx]
    /\ audit' = {}
    /\ users' = users

\* Prisma's transaction timeout, a lost connection or a crash of the process:
\* rolled back and not retried.
Fail(p) ==
    /\ tx[p].pc # "idle"
    /\ Finish(p)
    /\ audit' = {}
    /\ users' = users

(***************************************************************************)
(* The environment.                                                        *)
(***************************************************************************)

\* The grace period of a scheduled deletion ends.
GracePeriodEnds(u) ==
    /\ users[u].schedule = "future"
    /\ users' = [users EXCEPT ![u].schedule = "past"]
    /\ audit' = {}
    /\ UNCHANGED <<owner, tx>>

Step(p) ==
    \/ ReadTarget(p)
    \/ SnapshotAdmins(p)
    \/ \E u \in Users : LockRow(p, u)
    \/ RefuseLastAdmin(p)
    \/ PassAdminCount(p)
    \/ Update(p)
    \/ Retry(p)

Next ==
    \/ \E p \in Procs, op \in Ops, u \in Users : Begin(p, op, u)
    \/ \E p \in Procs : Step(p)
    \/ \E p \in Procs : Fail(p)
    \/ \E u \in Users : GracePeriodEnds(u)

\* Any directory with an active admin in which no deletion is pending.
Init ==
    /\ users \in [Users -> {r \in Row : /\ r.status \in {"ACTIVE", "SUSPENDED"}
                                        /\ r.schedule = "none" /\ ~r.session
                                        /\ ~r.deleted}]
    /\ \E u \in Users : IsActiveAdmin(users[u])
    /\ owner = [u \in Users |-> Nobody]
    /\ tx = [p \in Procs |-> IdleTx]
    /\ audit = {}

\* Postgres queues row-lock waiters first come first served and aborts a
\* deadlock victim, so a step that keeps becoming possible is taken.
Fairness == \A p \in Procs : SF_vars(Step(p))

Spec == Init /\ [][Next]_vars

FairSpec == Spec /\ Fairness

-----------------------------------------------------------------------------
(***************************************************************************)
(* Properties.                                                             *)
(***************************************************************************)

\* Every variable has its type.
TypeOK ==
    /\ users \in [Users -> Row]
    /\ owner \in [Users -> Procs \cup {Nobody}]
    /\ tx \in [Procs -> Tx]
    /\ audit \subseteq AuditRow

\* The system never runs out of active admins: what lockActiveAdminInvariant
\* is for.  It holds as long as nobody becomes an admin (again) concurrently.
SomeActiveAdmin == ActiveAdmins # {}

\* Whatever runs concurrently, a transaction that went through the counting
\* lock and then writes leaves another active admin behind: the rows it
\* counted are still locked, and still active admins, when it commits.
CountedUpdateLeavesAdmin ==
    [][\A p \in Procs : Update(p) /\ TakesAdminLock(tx[p].op, tx[p].found)
                          => ActiveAdmins' # {}]_vars

\* A counted admin cannot be demoted, suspended or deleted under the
\* transaction that counted it.
CountIsStable ==
    \A p \in Procs : \A u \in tx[p].counted :
        owner[u] = p /\ IsActiveAdmin(users[u])

\* A pending deletion always names the session that asked for it, so the
\* finalizer's 'Invariant violated: missing deletionRequestedSessionId' is
\* never thrown, whichever read it acts on.
PendingDeletionIsAttributed ==
    /\ \A u \in Users : users[u].schedule # "none" <=> users[u].session
    /\ \A p \in Procs : tx[p].op = "finalize" /\ tx[p].pc \in {"counting", "locking", "updating"}
                          => tx[p].found.session

\* A refusal is never spurious: when a request is told it would remove the
\* last active admin, at most one active admin exists at that moment.  Like
\* SomeActiveAdmin, for deployments in which nobody becomes an admin meanwhile.
RefusalIsHonest ==
    [][\A p \in Procs : RefuseLastAdmin(p) => Cardinality(ActiveAdmins) <= 1]_vars

\* The finalizer erases only an account whose deletion is still scheduled.
CanceledDeletionIsSkipped ==
    [][\A p \in Procs : Update(p) /\ tx[p].op = "finalize"
                          => users[tx[p].target].schedule = "past"]_vars

\* The audit trail follows the rows: a status never changes without a status
\* audit row of the same commit, and the new value of every audit row is the value
\* its row then has (the old value may be stale: it comes from the unlocked read).
AuditFollowsRows ==
    [][/\ \A u \in Users : users'[u].status # users[u].status
             => \E a \in audit' : a.kind = "STATUS" /\ a.target = u
       /\ \A a \in audit' :
             /\ a.kind = "ROLE" => a.new = users'[a.target].role
             /\ a.kind = "STATUS" => a.new = users'[a.target].status]_vars

\* Every request is answered: lock waits and deadlocks always resolve.
RequestsFinish ==
    \A p \in Procs : tx[p].pc # "idle" ~> tx[p].pc = "idle"
=============================================================================

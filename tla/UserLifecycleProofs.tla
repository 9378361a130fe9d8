------------------------- MODULE UserLifecycleProofs -------------------------
(***************************************************************************)
(* What UserLifecycle guarantees for every set of users, any number of     *)
(* concurrent transactions and every number of attempts.                   *)
(*                                                                         *)
(* The argument of the last-admin theorems: the rows a transaction counted *)
(* stay locked and stay active admins (CountIsStable), it updates an       *)
(* active admin only after counting two of them (CountedTwo), so one       *)
(* survives the update.  A transaction that did not count took its target  *)
(* for no active admin; where nobody becomes one, the target still is      *)
(* none when the update comes (StaleReadsAreSafe).  There, too, every      *)
(* active admin is among the rows that a count reaches (AdminsAreCounted). *)
(***************************************************************************)
EXTENDS UserLifecycle, FiniteSetTheorems, TLAPS

\* TypeOK, and what a running transaction knows of its request.
TypeInv ==
    /\ TypeOK
    /\ \A p \in Procs : tx[p].pc # "idle" =>
            /\ tx[p].op \in Ops
            /\ tx[p].target \in Users

\* Only transactions that read an active admin count, and one that is about to
\* update after the counting lock counted two admins.
CountedTwo ==
    \A p \in Procs :
        /\ tx[p].pc \in {"counting", "locking"} => TakesAdminLock(tx[p].op, tx[p].found)
        /\ tx[p].pc = "updating" /\ TakesAdminLock(tx[p].op, tx[p].found)
              => Cardinality(tx[p].counted) > 1

\* A target that was read as no active admin is none when it is updated.
StaleReadsAreSafe ==
    \A p \in Procs :
        tx[p].pc = "updating" /\ ~IsActiveAdmin(tx[p].found)
            => ~IsActiveAdmin(users[tx[p].target])

-----------------------------------------------------------------------------
\* The initial values have their types.
LEMMA RowTypes ==
    /\ NoRow \in Row
    /\ IdleTx \in Tx
  BY AttemptsAssumption DEF Row, NoRow, Tx, IdleTx

\* Every operation's UPDATE leaves a row of the right type.
LEMMA WrittenType ==
  ASSUME NEW op \in AllOps, NEW row \in Row
  PROVE  Written(op, row) \in Row
  BY DEF AllOps, Written, SetUserRole, SetUserStatus, RequestAccountDeletion,
         CancelAccountDeletion, FinalizeAccountDeletion, Cleared, Row

\* Every operation's audit rows have the right type.
LEMMA AuditsType ==
  ASSUME NEW op \in AllOps, NEW u \in Users, NEW row \in Row
  PROVE  Audits(op, u, row) \subseteq AuditRow
<1>1. Written(op, row).role \in AuditValue /\ Written(op, row).status \in AuditValue
  BY DEF AllOps, Written, SetUserRole, SetUserStatus, RequestAccountDeletion,
         CancelAccountDeletion, FinalizeAccountDeletion, Cleared, Row, AuditValue
<1>2. row.role \in AuditValue /\ row.status \in AuditValue
  BY DEF Row, AuditValue
<1> QED
  BY <1>1, <1>2 DEF AllOps, Audits, ErasureAudit, AuditRow, AuditValue

\* Ending a transaction: only its own locks and its own state change.
LEMMA FinishType ==
  ASSUME TypeInv, NEW p \in Procs, Finish(p)
  PROVE  /\ owner' \in [Users -> Procs \cup {Nobody}]
         /\ tx' \in [Procs -> Tx]
         /\ tx'[p] = IdleTx
         /\ \A q \in Procs : q # p => tx'[q] = tx[q]
         /\ \A u \in Users : owner'[u] = IF owner[u] = p THEN Nobody ELSE owner[u]
  BY RowTypes DEF TypeInv, TypeOK, Finish, Unlocked

\* The type invariant holds initially.
THEOREM TypeInitially == Init => TypeInv
  BY RowTypes DEF Init, TypeInv, TypeOK, IdleTx

\* Every step preserves the type invariant.
LEMMA TypeStep == TypeInv /\ [Next]_vars => TypeInv'
<1> SUFFICES ASSUME TypeInv, [Next]_vars PROVE TypeInv'
  OBVIOUS
<1> USE OpsAssumption, RowTypes
<1>1. ASSUME NEW p \in Procs, NEW op \in Ops, NEW u \in Users, Begin(p, op, u)
      PROVE  TypeInv'
  <2>1. [IdleTx EXCEPT !.pc = "reading", !.op = op, !.target = u] \in Tx
    BY DEF IdleTx, Tx
  <2> QED
    BY <1>1, <2>1 DEF Begin, TypeInv, TypeOK, IdleTx
<1>2. ASSUME NEW p \in Procs, ReadTarget(p) PROVE TypeInv'
  <2>1. tx[p] \in Tx /\ tx[p].target \in Users /\ users[tx[p].target] \in Row
    BY <1>2 DEF ReadTarget, TypeInv, TypeOK
  <2>2. CASE ReturnsEarly(tx[p].op, users[tx[p].target])
    BY <1>2, <2>2, FinishType DEF ReadTarget, TypeInv, TypeOK, IdleTx
  <2>3. CASE ~ReturnsEarly(tx[p].op, users[tx[p].target])
    BY <1>2, <2>1, <2>3 DEF ReadTarget, TypeInv, TypeOK, Tx
  <2> QED
    BY <2>2, <2>3
<1>3. ASSUME NEW p \in Procs, SnapshotAdmins(p) PROVE TypeInv'
  BY <1>3 DEF SnapshotAdmins, Candidates, ActiveAdmins, TypeInv, TypeOK, Tx
<1>4. ASSUME NEW p \in Procs, NEW u \in Users, LockRow(p, u) PROVE TypeInv'
  <2>1. /\ tx'[p].pc = "locking" /\ tx'[p].op = tx[p].op /\ tx'[p].target = tx[p].target
        /\ \A q \in Procs \ {p} : tx'[q] = tx[q]
    BY <1>4 DEF LockRow, TypeInv, TypeOK, Tx
  <2>2. tx' \in [Procs -> Tx]
    <3> DEFINE counted == IF StillMatches(u) THEN tx[p].counted \cup {u} ELSE tx[p].counted
    <3>1. tx[p] \in Tx
      BY DEF TypeInv, TypeOK
    <3>2. counted \subseteq Users /\ tx[p].pending \ {u} \subseteq Users
      BY <3>1 DEF Tx
    <3> HIDE DEF counted
    <3>3. [tx[p] EXCEPT !.pending = tx[p].pending \ {u}, !.counted = counted] \in Tx
      BY <3>1, <3>2 DEF Tx
    <3>4. tx' = [tx EXCEPT ![p] = [tx[p] EXCEPT !.pending = tx[p].pending \ {u},
                                                !.counted = counted]]
      BY <1>4 DEF LockRow, counted, TypeInv, TypeOK
    <3> QED
      BY <3>3, <3>4 DEF TypeInv, TypeOK
  <2>3. owner' \in [Users -> Procs \cup {Nobody}] /\ audit' \subseteq AuditRow
    BY <1>4 DEF LockRow, TypeInv, TypeOK
  <2>4. tx[p].pc # "idle" /\ users' = users
    BY <1>4 DEF LockRow
  <2> QED
    BY <2>1, <2>2, <2>3, <2>4 DEF TypeInv, TypeOK
<1>5. ASSUME NEW p \in Procs, RefuseLastAdmin(p) PROVE TypeInv'
  <2>1. audit' \subseteq AuditRow
    BY <1>5 DEF RefuseLastAdmin, AuditRow, AuditValue, TypeInv
  <2> QED
    BY <1>5, <2>1, FinishType DEF RefuseLastAdmin, TypeInv, TypeOK, IdleTx
<1>6. ASSUME NEW p \in Procs, PassAdminCount(p) PROVE TypeInv'
  BY <1>6 DEF PassAdminCount, TypeInv, TypeOK, Tx
<1>7. ASSUME NEW p \in Procs, Update(p) PROVE TypeInv'
  <2>1. tx[p] \in Tx /\ tx[p].target \in Users /\ tx[p].op \in AllOps
    BY <1>7 DEF Update, TypeInv, TypeOK
  <2>2. users' \in [Users -> Row]
    BY <1>7, <2>1, WrittenType DEF Update, TypeInv, TypeOK
  <2>3. audit' \subseteq AuditRow
    BY <1>7, <2>1, AuditsType DEF Update, Tx
  <2> QED
    BY <1>7, <2>2, <2>3, FinishType DEF Update, TypeInv, TypeOK, IdleTx
<1>8. ASSUME NEW p \in Procs, Retry(p) PROVE TypeInv'
  <2> DEFINE again == [IdleTx EXCEPT !.pc = "reading", !.op = tx[p].op,
                           !.target = tx[p].target, !.attempt = NextAttempt(tx[p].attempt)]
  <2>1. tx[p] \in Tx /\ tx[p].pc # "idle"
    BY <1>8 DEF Retry, Deadlocked, Awaits, TypeInv, TypeOK
  <2>2. tx[p].op \in Ops /\ tx[p].target \in Users
    BY <2>1 DEF TypeInv
  <2>3. AttemptsLeft(tx[p].attempt) => again \in Tx
    <3>1. tx[p].attempt \in 1 .. MaxAttempts
      BY <2>1 DEF Tx
    <3>2. AttemptsLeft(tx[p].attempt) => NextAttempt(tx[p].attempt) \in 1 .. MaxAttempts
      BY <3>1, AttemptsAssumption DEF AttemptsLeft, NextAttempt
    <3>3. ASSUME NEW n \in 1 .. MaxAttempts
          PROVE  [IdleTx EXCEPT !.pc = "reading", !.op = tx[p].op,
                      !.target = tx[p].target, !.attempt = n] \in Tx
      BY <2>2 DEF IdleTx, Tx
    <3> QED
      BY <3>2, <3>3
  <2>4. owner' \in [Users -> Procs \cup {Nobody}]
    BY <1>8 DEF Retry, Unlocked, TypeInv, TypeOK
  <2>5. tx' = [tx EXCEPT ![p] = IF AttemptsLeft(tx[p].attempt) THEN again ELSE IdleTx]
    BY <1>8 DEF Retry, TypeInv, TypeOK
  <2>6. tx' \in [Procs -> Tx]
    BY <2>3, <2>5 DEF TypeInv, TypeOK
  <2>7. \A q \in Procs : tx'[q].pc # "idle" => tx'[q].op \in Ops /\ tx'[q].target \in Users
    BY <2>2, <2>5 DEF TypeInv, TypeOK, IdleTx
  <2> QED
    BY <1>8, <2>4, <2>6, <2>7 DEF Retry, TypeInv, TypeOK
<1>9. ASSUME NEW p \in Procs, Fail(p) PROVE TypeInv'
  BY <1>9, FinishType DEF Fail, TypeInv, TypeOK, IdleTx
<1>10. ASSUME NEW u \in Users, GracePeriodEnds(u) PROVE TypeInv'
  BY <1>10 DEF GracePeriodEnds, TypeInv, TypeOK, Row
<1>11. CASE UNCHANGED vars
  BY <1>11 DEF vars, TypeInv, TypeOK
<1> QED
  BY <1>1, <1>2, <1>3, <1>4, <1>5, <1>6, <1>7, <1>8, <1>9, <1>10, <1>11 DEF Next, Step

\* Type correctness, for every instance.
THEOREM TypeCorrect == Spec => []TypeOK
<1>1. TypeInv => TypeOK
  BY DEF TypeInv
<1> QED
  BY <1>1, TypeInitially, TypeStep, PTL DEF Spec

-----------------------------------------------------------------------------
\* What the audit rows of an operation say agrees with the row it writes,
\* whatever the transaction had read and whatever the row holds by then.
LEMMA AuditsAgree ==
  ASSUME NEW op \in AllOps, NEW u \in Users, NEW found \in Row, NEW row \in Row
  PROVE  /\ Written(op, row).status # row.status
              => \E a \in Audits(op, u, found) : a.kind = "STATUS" /\ a.target = u
         /\ \A a \in Audits(op, u, found) :
               /\ a.target = u
               /\ a.kind = "ROLE" => a.new = Written(op, row).role
               /\ a.kind = "STATUS" => a.new = Written(op, row).status
<1>1. CASE op \in {"promote", "demote"}
  <2>1. Audits(op, u, found) = {[kind |-> "ROLE", target |-> u, old |-> found.role,
                                 new |-> Written(op, found).role]}
    BY <1>1 DEF Audits, ErasureAudit
  <2>2. /\ Written(op, found).role = Written(op, row).role
        /\ Written(op, row).status = row.status
    BY <1>1 DEF Written, SetUserRole, Row
  <2> QED
    BY <2>1, <2>2
<1>2. CASE op \in {"suspend", "reactivate"}
  <2>1. Audits(op, u, found) = {[kind |-> "STATUS", target |-> u, old |-> found.status,
                                 new |-> Written(op, found).status]}
    BY <1>2 DEF Audits, ErasureAudit
  <2>2. Written(op, found).status = Written(op, row).status
    BY <1>2 DEF Written, SetUserStatus, Row
  <2> QED
    BY <2>1, <2>2
<1>3. CASE op \in {"request", "cancel"}
  BY <1>3 DEF Audits, ErasureAudit, Written, RequestAccountDeletion,
              CancelAccountDeletion, Cleared, Row
<1>4. CASE op = "finalize"
  <2>1. Audits(op, u, found) =
          {[kind |-> "STATUS", target |-> u, old |-> found.status, new |-> "DELETED"],
           [kind |-> "DELETION", target |-> u, old |-> "REQUESTED", new |-> "FINALIZED"]}
    BY <1>4 DEF Audits, ErasureAudit
  <2>2. Written(op, row).status = "DELETED"
    BY <1>4 DEF Written, FinalizeAccountDeletion, Cleared, Row
  <2> QED
    BY <2>1, <2>2
<1> QED
  BY <1>1, <1>2, <1>3, <1>4 DEF AllOps

\* Every step keeps the audit trail in line with the rows.
LEMMA AuditStep ==
  ASSUME TypeInv, [Next]_vars
  PROVE  [/\ \A u \in Users : users'[u].status # users[u].status
                => \E a \in audit' : a.kind = "STATUS" /\ a.target = u
          /\ \A a \in audit' :
                /\ a.kind = "ROLE" => a.new = users'[a.target].role
                /\ a.kind = "STATUS" => a.new = users'[a.target].status]_vars
<1> DEFINE Follows ==
      /\ \A u \in Users : users'[u].status # users[u].status
            => \E a \in audit' : a.kind = "STATUS" /\ a.target = u
      /\ \A a \in audit' : /\ a.kind = "ROLE" => a.new = users'[a.target].role
                           /\ a.kind = "STATUS" => a.new = users'[a.target].status
\* Steps that leave the rows alone and write no audit row.
<1>a. ASSUME users' = users, audit' = {} PROVE Follows
  BY <1>a
<1>1. ASSUME NEW p \in Procs, RefuseLastAdmin(p) PROVE Follows
  BY <1>1 DEF RefuseLastAdmin
<1>2. ASSUME NEW p \in Procs, Update(p) PROVE Follows
  <2> DEFINE u == tx[p].target
             row == users[u]
  <2>1. tx[p] \in Tx /\ u \in Users /\ tx[p].op \in AllOps
    BY <1>2, OpsAssumption DEF Update, TypeInv, TypeOK
  <2>2. row \in Row /\ tx[p].found \in Row
    BY <2>1 DEF TypeInv, TypeOK, Tx
  <2>3. /\ users'[u] = Written(tx[p].op, row)
        /\ \A v \in Users : v # u => users'[v] = users[v]
        /\ audit' = Audits(tx[p].op, u, tx[p].found)
    BY <1>2, <2>1 DEF Update, TypeInv, TypeOK
  <2> HIDE DEF u, row
  <2> QED
    BY <2>1, <2>2, <2>3, AuditsAgree DEF row
<1>3. ASSUME NEW u \in Users, GracePeriodEnds(u) PROVE Follows
  BY <1>3 DEF GracePeriodEnds, TypeInv, TypeOK, Row
<1>4. ASSUME NEW p \in Procs, NEW op \in Ops, NEW u \in Users, Begin(p, op, u)
      PROVE  Follows
  BY <1>4, <1>a DEF Begin
<1>5. ASSUME NEW p \in Procs, NEW u \in Users, LockRow(p, u) PROVE Follows
  BY <1>5, <1>a DEF LockRow
<1>6. ASSUME NEW p \in Procs,
             ReadTarget(p) \/ SnapshotAdmins(p) \/ PassAdminCount(p) \/ Retry(p) \/ Fail(p)
      PROVE  Follows
  BY <1>6, <1>a DEF ReadTarget, SnapshotAdmins, PassAdminCount, Retry, Fail
<1> HIDE DEF Follows
<1>7. Next => Follows
  BY <1>1, <1>2, <1>3, <1>4, <1>5, <1>6 DEF Next, Step
<1> QED
  BY <1>7 DEF Follows

\* No status changes off the record, and audit rows name the value that was
\* written, for every instance.
THEOREM AuditTrailFollows == Spec => AuditFollowsRows
  BY TypeInitially, TypeStep, AuditStep, PTL DEF Spec, AuditFollowsRows

-----------------------------------------------------------------------------
\* Every operation's UPDATE sets or clears the schedule and its session together.
LEMMA WritesKeepAttribution ==
  ASSUME NEW op \in AllOps, NEW row \in Row, row.schedule # "none" <=> row.session
  PROVE  Written(op, row).schedule # "none" <=> Written(op, row).session
  BY DEF AllOps, Written, SetUserRole, SetUserStatus, RequestAccountDeletion,
         CancelAccountDeletion, FinalizeAccountDeletion, Cleared, Row

\* A finalizer goes on only from a row that is due, and that row names its session.
LEMMA AttributionStep ==
  TypeInv /\ PendingDeletionIsAttributed /\ [Next]_vars => PendingDeletionIsAttributed'
<1> SUFFICES ASSUME TypeInv, PendingDeletionIsAttributed, [Next]_vars
             PROVE  PendingDeletionIsAttributed'
  OBVIOUS
<1> USE DEF TypeInv, TypeOK
<1>1. ASSUME NEW v \in Users PROVE users'[v].schedule # "none" <=> users'[v].session
  <2>1. ASSUME NEW p \in Procs, Update(p)
        PROVE  users'[v].schedule # "none" <=> users'[v].session
    <3>1. users'[v] = IF v = tx[p].target THEN Written(tx[p].op, users[v]) ELSE users[v]
      BY <2>1 DEF Update
    <3>2. tx[p].op \in AllOps /\ users[v] \in Row
      BY <2>1, OpsAssumption DEF Update
    <3> QED
      BY <3>1, <3>2, WritesKeepAttribution DEF PendingDeletionIsAttributed
  <2>2. ASSUME NEW u \in Users, GracePeriodEnds(u)
        PROVE  users'[v].schedule # "none" <=> users'[v].session
    BY <2>2 DEF GracePeriodEnds, PendingDeletionIsAttributed, Row
  <2>3. CASE users' = users
    BY <2>3 DEF PendingDeletionIsAttributed
  <2> QED
    BY <2>1, <2>2, <2>3 DEF Next, Step, Begin, ReadTarget, SnapshotAdmins, LockRow,
       RefuseLastAdmin, PassAdminCount, Retry, Fail, vars
<1>2. ASSUME NEW q \in Procs, tx'[q].op = "finalize",
             tx'[q].pc \in {"counting", "locking", "updating"}
      PROVE  tx'[q].found.session
  <2>1. CASE tx'[q] = tx[q]
    BY <1>2, <2>1 DEF PendingDeletionIsAttributed
  <2>2. CASE ReadTarget(q)
    <3>1. CASE ReturnsEarly(tx[q].op, users[tx[q].target])
      BY <1>2, <2>2, <3>1, FinishType DEF ReadTarget, IdleTx
    <3>2. CASE ~ReturnsEarly(tx[q].op, users[tx[q].target])
      <4>1. tx'[q].op = tx[q].op /\ tx'[q].found = users[tx[q].target]
        BY <2>2, <3>2 DEF ReadTarget, Tx
      <4>2. tx[q].target \in Users /\ users[tx[q].target].schedule = "past"
        BY <1>2, <2>2, <3>2, <4>1 DEF ReadTarget, ReturnsEarly, IsNotDue
      <4> QED
        BY <4>1, <4>2 DEF PendingDeletionIsAttributed
    <3> QED
      BY <3>1, <3>2
  <2>3. CASE SnapshotAdmins(q)
    BY <1>2, <2>3 DEF SnapshotAdmins, Tx, PendingDeletionIsAttributed
  <2>4. ASSUME NEW u \in Users, LockRow(q, u) PROVE tx'[q].found.session
    BY <1>2, <2>4 DEF LockRow, Tx, PendingDeletionIsAttributed
  <2>5. CASE PassAdminCount(q)
    BY <1>2, <2>5 DEF PassAdminCount, Tx, PendingDeletionIsAttributed
  <2>6. ASSUME NEW p \in Procs, Finish(p) PROVE tx'[q] = tx[q]
    BY <1>2, <2>6, FinishType DEF IdleTx
  <2>7. ASSUME NEW p \in Procs, Retry(p) PROVE tx'[q] = tx[q]
    BY <1>2, <2>7 DEF Retry, IdleTx
  <2>8. ASSUME NEW p \in Procs, NEW op \in Ops, NEW u \in Users, Begin(p, op, u)
        PROVE  tx'[q] = tx[q]
    BY <1>2, <2>8 DEF Begin, IdleTx
  <2>9. ASSUME NEW p \in Procs, p # q,
               \/ ReadTarget(p) \/ SnapshotAdmins(p) \/ PassAdminCount(p)
               \/ \E u \in Users : LockRow(p, u)
        PROVE  tx'[q] = tx[q]
    BY <2>9 DEF ReadTarget, SnapshotAdmins, PassAdminCount, LockRow, Finish
  <2> QED
    BY <2>1, <2>2, <2>3, <2>4, <2>5, <2>6, <2>7, <2>8, <2>9
       DEF Next, Step, RefuseLastAdmin, Update, Fail, GracePeriodEnds, vars
<1> QED
  BY <1>1, <1>2 DEF PendingDeletionIsAttributed

\* However requests, cancellations and finalizers interleave, the invariant the finalizer
\* asserts holds: a deletion it acts on names the session that asked for it.
THEOREM DeletionsAreAttributed == Spec => []PendingDeletionIsAttributed
<1>1. Init => PendingDeletionIsAttributed
  BY DEF Init, PendingDeletionIsAttributed, NoRow, IdleTx
<1> QED
  BY <1>1, TypeInitially, TypeStep, AttributionStep, PTL DEF Spec

-----------------------------------------------------------------------------
\* Counted rows stay locked and stay active admins.
LEMMA CountStep == TypeInv /\ CountIsStable /\ [Next]_vars => CountIsStable'
<1> SUFFICES ASSUME TypeInv, CountIsStable, [Next]_vars PROVE CountIsStable'
  OBVIOUS
<1> USE ProcsAssumption DEF CountIsStable
<1>t. \A q \in Procs : tx[q].counted \subseteq Users
  BY DEF TypeInv, TypeOK, Tx
\* A transaction that ends releases its own locks and forgets its own count.
<1>a. ASSUME NEW p \in Procs, Finish(p), users' = users PROVE CountIsStable'
  BY <1>a, <1>t, FinishType DEF IdleTx, IsActiveAdmin
<1>1. ASSUME NEW p \in Procs, NEW op \in Ops, NEW u \in Users, Begin(p, op, u)
      PROVE  CountIsStable'
  <2>1. tx'[p].counted = {} /\ \A q \in Procs : q # p => tx'[q] = tx[q]
    BY <1>1 DEF Begin, IdleTx, TypeInv, TypeOK
  <2> QED
    BY <1>1, <2>1 DEF Begin
<1>2. ASSUME NEW p \in Procs, ReadTarget(p) PROVE CountIsStable'
  <2>1. CASE ReturnsEarly(tx[p].op, users[tx[p].target])
    BY <1>2, <2>1, <1>a DEF ReadTarget
  <2>2. CASE ~ReturnsEarly(tx[p].op, users[tx[p].target])
    BY <1>2, <2>2 DEF ReadTarget, TypeInv, TypeOK, Tx
  <2> QED
    BY <2>1, <2>2
<1>3. ASSUME NEW p \in Procs, SnapshotAdmins(p) PROVE CountIsStable'
  BY <1>3 DEF SnapshotAdmins, TypeInv, TypeOK, Tx
<1>4. ASSUME NEW p \in Procs, NEW u \in Users, LockRow(p, u) PROVE CountIsStable'
  <2>2. /\ \A q \in Procs : q # p => tx'[q] = tx[q]
        /\ tx'[p].counted = IF StillMatches(u) THEN tx[p].counted \cup {u}
                                               ELSE tx[p].counted
    BY <1>4 DEF LockRow, TypeInv, TypeOK, Tx
  <2>3. \A v \in Users : owner'[v] = IF v = u THEN p ELSE owner[v]
    BY <1>4 DEF LockRow, TypeInv, TypeOK
  <2>4. \A q \in Procs : q # p => u \notin tx[q].counted
    BY <1>4 DEF LockRow
  <2>5. users' = users
    BY <1>4 DEF LockRow
  <2> SUFFICES ASSUME NEW q \in Procs, NEW v \in tx'[q].counted
               PROVE  owner'[v] = q /\ IsActiveAdmin(users'[v])
    OBVIOUS
  <2>6. CASE q # p
    BY <1>t, <2>2, <2>3, <2>4, <2>5, <2>6
  <2>7. CASE q = p /\ v \in tx[p].counted
    BY <1>t, <2>3, <2>5, <2>7
  <2>8. CASE q = p /\ v \notin tx[p].counted
    BY <2>2, <2>3, <2>5, <2>8 DEF StillMatches
  <2> QED
    BY <2>6, <2>7, <2>8
<1>5. ASSUME NEW p \in Procs, RefuseLastAdmin(p) PROVE CountIsStable'
  BY <1>5, <1>a DEF RefuseLastAdmin
<1>6. ASSUME NEW p \in Procs, PassAdminCount(p) PROVE CountIsStable'
  BY <1>6 DEF PassAdminCount, TypeInv, TypeOK, Tx
<1>7. ASSUME NEW p \in Procs, Update(p) PROVE CountIsStable'
  \* The updated row is locked by nobody else, so nobody else counted it.
  <2>1. \A q \in Procs : q # p => tx[p].target \notin tx[q].counted
    BY <1>7 DEF Update
  <2>2. \A u \in Users : u # tx[p].target => users'[u] = users[u]
    BY <1>7 DEF Update, TypeInv, TypeOK
  <2> QED
    BY <1>7, <1>t, <2>1, <2>2, FinishType DEF Update, IdleTx
<1>8. ASSUME NEW p \in Procs, Retry(p) PROVE CountIsStable'
  <2>1. \A q \in Procs : q # p => tx'[q] = tx[q]
    BY <1>8 DEF Retry, TypeInv, TypeOK
  <2>2. tx'[p].counted = {}
    BY <1>8 DEF Retry, IdleTx, TypeInv, TypeOK
  <2>3. \A u \in Users : owner'[u] = IF owner[u] = p THEN Nobody ELSE owner[u]
    BY <1>8 DEF Retry, Unlocked
  <2> QED
    BY <1>8, <1>t, <2>1, <2>2, <2>3 DEF Retry
<1>9. ASSUME NEW p \in Procs, Fail(p) PROVE CountIsStable'
  BY <1>9, <1>a DEF Fail
<1>10. ASSUME NEW u \in Users, GracePeriodEnds(u) PROVE CountIsStable'
  BY <1>10 DEF GracePeriodEnds, IsActiveAdmin, TypeInv, TypeOK, Tx, Row
<1>11. CASE UNCHANGED vars
  BY <1>11 DEF vars
<1> QED
  BY <1>1, <1>2, <1>3, <1>4, <1>5, <1>6, <1>7, <1>8, <1>9, <1>10, <1>11 DEF Next, Step

\* Initially nothing is counted.
LEMMA CountInitially == Init => CountIsStable
  BY DEF Init, CountIsStable, IdleTx

\* The lock of lockActiveAdminInvariant does its work: what a transaction
\* counted is still there, and still an active admin, when it commits.
THEOREM CountsAreStable == Spec => []CountIsStable
  BY TypeInitially, TypeStep, CountInitially, CountStep, PTL DEF Spec

-----------------------------------------------------------------------------
\* An update after the counting lock follows a count of two or more.
LEMMA CountedTwoStep == TypeInv /\ CountedTwo /\ [Next]_vars => CountedTwo'
<1> SUFFICES ASSUME TypeInv, CountedTwo, [Next]_vars, NEW q \in Procs
             PROVE  /\ tx'[q].pc \in {"counting", "locking"}
                          => TakesAdminLock(tx'[q].op, tx'[q].found)
                    /\ tx'[q].pc = "updating" /\ TakesAdminLock(tx'[q].op, tx'[q].found)
                          => Cardinality(tx'[q].counted) > 1
  BY DEF CountedTwo
<1> USE DEF TypeInv, TypeOK
<1>1. CASE tx'[q] = tx[q]
  BY <1>1 DEF CountedTwo
<1>2. CASE PassAdminCount(q)
  BY <1>2 DEF PassAdminCount, EnoughAdmins, Tx
<1>3. CASE ReadTarget(q)
  <2>1. CASE ReturnsEarly(tx[q].op, users[tx[q].target])
    BY <1>3, <2>1, FinishType DEF ReadTarget, IdleTx
  <2>2. CASE ~ReturnsEarly(tx[q].op, users[tx[q].target])
    BY <1>3, <2>2 DEF ReadTarget, Tx
  <2> QED
    BY <2>1, <2>2
<1>4. CASE SnapshotAdmins(q)
  BY <1>4 DEF SnapshotAdmins, Tx, CountedTwo
<1>5. ASSUME NEW u \in Users, LockRow(q, u)
      PROVE  tx'[q].pc = "locking" /\ TakesAdminLock(tx'[q].op, tx'[q].found)
  BY <1>5 DEF LockRow, Tx, CountedTwo
\* Every other step of q leaves it idle or back at its read.
<1>6. CASE tx'[q].pc \in {"idle", "reading"}
  BY <1>6
<1>7. ASSUME NEW p \in Procs, Finish(p) PROVE tx'[q] = tx[q] \/ tx'[q].pc = "idle"
  BY <1>7, FinishType DEF IdleTx
<1>8. ASSUME NEW p \in Procs, Retry(p)
      PROVE  tx'[q] = tx[q] \/ tx'[q].pc \in {"idle", "reading"}
  BY <1>8 DEF Retry, IdleTx
<1>9. ASSUME NEW p \in Procs, NEW op \in Ops, NEW u \in Users, Begin(p, op, u)
      PROVE  tx'[q] = tx[q] \/ tx'[q].pc = "reading"
  BY <1>9 DEF Begin, IdleTx
<1>10. ASSUME NEW p \in Procs, p # q,
              \/ ReadTarget(p) \/ SnapshotAdmins(p) \/ PassAdminCount(p)
              \/ \E u \in Users : LockRow(p, u)
       PROVE  tx'[q] = tx[q]
  BY <1>10 DEF ReadTarget, SnapshotAdmins, PassAdminCount, LockRow, Finish
<1> QED
  BY <1>1, <1>2, <1>3, <1>4, <1>5, <1>6, <1>7, <1>8, <1>9, <1>10
     DEF Next, Step, RefuseLastAdmin, Update, Fail, GracePeriodEnds, vars

\* Initially no transaction is about to update.
LEMMA CountedTwoInitially == Init => CountedTwo
  BY DEF Init, CountedTwo, IdleTx

\* Of two counted rows, one is not the target: it is still an active admin,
\* still locked, and the update leaves it alone.
LEMMA UpdateLeavesAdmin ==
  ASSUME TypeInv, CountIsStable, CountedTwo,
         NEW p \in Procs, Update(p), TakesAdminLock(tx[p].op, tx[p].found)
  PROVE  ActiveAdmins' # {}
<1>1. tx[p].counted \subseteq Users /\ Cardinality(tx[p].counted) > 1
  BY DEF TypeInv, TypeOK, Tx, CountedTwo, Update
<1>2. PICK u \in tx[p].counted : u # tx[p].target
  <2> SUFFICES ASSUME tx[p].counted \subseteq {tx[p].target} PROVE FALSE
    OBVIOUS
  <2>1. IsFiniteSet({tx[p].target}) /\ Cardinality({tx[p].target}) = 1
    BY FS_Singleton
  <2>2. /\ Cardinality(tx[p].counted) \in Nat
        /\ Cardinality(tx[p].counted) <= 1
    BY <2>1, FS_Subset, FS_CardinalityType
  <2> QED
    BY <1>1, <2>2
<1>3. IsActiveAdmin(users[u])
  BY <1>2 DEF CountIsStable
<1>4. users'[u] = users[u]
  BY <1>1, <1>2 DEF Update, TypeInv, TypeOK
<1> QED
  BY <1>1, <1>2, <1>3, <1>4 DEF ActiveAdmins, IsActiveAdmin

\* Whatever else runs, no transaction that took the counting lock commits the
\* removal of the last active admin.
THEOREM CountedUpdatesAreSafe == Spec => CountedUpdateLeavesAdmin
<1>1. TypeInv /\ CountIsStable /\ CountedTwo /\ [Next]_vars =>
        [\A p \in Procs : Update(p) /\ TakesAdminLock(tx[p].op, tx[p].found)
                              => ActiveAdmins' # {}]_vars
  BY UpdateLeavesAdmin
<1> QED
  BY <1>1, TypeInitially, TypeStep, CountInitially, CountStep,
     CountedTwoInitially, CountedTwoStep, PTL DEF Spec, CountedUpdateLeavesAdmin

-----------------------------------------------------------------------------
(***************************************************************************)
(* Deployments in which nobody becomes an admin, or active again, while    *)
(* admins are being demoted, suspended or deleted.                         *)
(***************************************************************************)
NobodyIsMadeAdmin == Ops \cap {"promote", "reactivate"} = {}

\* Without promotions and reactivations no write makes an active admin.
LEMMA WritesMakeNoAdmin ==
  ASSUME NobodyIsMadeAdmin, NEW op \in Ops, NEW row \in Row, ~IsActiveAdmin(row)
  PROVE  ~IsActiveAdmin(Written(op, row))
  BY OpsAssumption
     DEF NobodyIsMadeAdmin, AllOps, Written, SetUserRole, SetUserStatus,
         RequestAccountDeletion, CancelAccountDeletion, FinalizeAccountDeletion, Cleared, Row,
         IsActiveAdmin

\* Cancelling touches neither the role nor the status, and the operations that
\* do take the lock when they believe their target is an active admin.
LEMMA UnlockedWritesKeepAdmins ==
  ASSUME NobodyIsMadeAdmin, NEW op \in Ops, NEW found \in Row, NEW row \in Row,
         ~TakesAdminLock(op, found), IsActiveAdmin(found)
  PROVE  IsActiveAdmin(row) => IsActiveAdmin(Written(op, row))
  BY OpsAssumption
     DEF NobodyIsMadeAdmin, AllOps, Written, SetUserRole, SetUserStatus,
         RequestAccountDeletion, CancelAccountDeletion, FinalizeAccountDeletion, Cleared, Row,
         IsActiveAdmin, TakesAdminLock

\* Steps other than updates leave role and status of every row alone.
LEMMA OnlyUpdatesChangeAdmins ==
  ASSUME TypeInv, [Next]_vars, \A p \in Procs : ~Update(p), NEW u \in Users
  PROVE  IsActiveAdmin(users'[u]) <=> IsActiveAdmin(users[u])
<1>1. ASSUME NEW v \in Users, GracePeriodEnds(v)
      PROVE  IsActiveAdmin(users'[u]) <=> IsActiveAdmin(users[u])
  BY <1>1 DEF GracePeriodEnds, IsActiveAdmin, TypeInv, TypeOK, Row
<1>2. CASE users' = users
  BY <1>2
<1> QED
  BY <1>1, <1>2 DEF Next, Step, Begin, ReadTarget, SnapshotAdmins, LockRow,
     RefuseLastAdmin, PassAdminCount, Retry, Fail, vars

\* Without promotions and reactivations no step turns a row that is no active admin into one.
LEMMA StepsMakeNoAdmin ==
  ASSUME NobodyIsMadeAdmin, TypeInv, [Next]_vars, NEW u \in Users, ~IsActiveAdmin(users[u])
  PROVE  ~IsActiveAdmin(users'[u])
<1>1. ASSUME NEW p \in Procs, Update(p) PROVE ~IsActiveAdmin(users'[u])
  <2>1. tx[p].op \in Ops /\ tx[p].target \in Users /\ users[u] \in Row
    BY <1>1 DEF Update, TypeInv, TypeOK
  <2>2. users'[u] = IF u = tx[p].target THEN Written(tx[p].op, users[u]) ELSE users[u]
    BY <1>1, <2>1 DEF Update, TypeInv, TypeOK
  <2> QED
    BY <2>1, <2>2, WritesMakeNoAdmin
<1> QED
  BY <1>1, OnlyUpdatesChangeAdmins

\* Where nobody is made an admin, what was read as none stays none.
LEMMA StaleReadsStep ==
  NobodyIsMadeAdmin /\ TypeInv /\ CountedTwo /\ StaleReadsAreSafe /\ [Next]_vars
     => StaleReadsAreSafe'
<1> SUFFICES ASSUME NobodyIsMadeAdmin, TypeInv, CountedTwo, StaleReadsAreSafe, [Next]_vars,
                    NEW q \in Procs,
                    tx'[q].pc = "updating", ~IsActiveAdmin(tx'[q].found)
             PROVE  ~IsActiveAdmin(users'[tx'[q].target])
  BY DEF StaleReadsAreSafe
<1>1. tx'[q].target \in Users
  BY TypeStep DEF TypeInv
<1>2. \A u \in Users : ~IsActiveAdmin(users[u]) => ~IsActiveAdmin(users'[u])
  BY StepsMakeNoAdmin
<1> USE DEF TypeInv, TypeOK
<1>3. CASE tx'[q] = tx[q]
  BY <1>1, <1>2, <1>3 DEF StaleReadsAreSafe
\* The target was read as no active admin in this very step.
<1>4. CASE ReadTarget(q)
  <2>1. CASE ReturnsEarly(tx[q].op, users[tx[q].target])
    BY <1>4, <2>1, FinishType DEF ReadTarget, IdleTx
  <2>2. CASE ~ReturnsEarly(tx[q].op, users[tx[q].target])
    BY <1>4, <2>2 DEF ReadTarget, Tx
  <2> QED
    BY <2>1, <2>2
\* A transaction that counts had read an active admin.
<1>5. CASE PassAdminCount(q)
  BY <1>5 DEF PassAdminCount, CountedTwo, TakesAdminLock, Tx
<1>6. CASE SnapshotAdmins(q)
  BY <1>6 DEF SnapshotAdmins, Tx
<1>7. ASSUME NEW u \in Users, LockRow(q, u) PROVE FALSE
  BY <1>7 DEF LockRow, Tx
<1>8. ASSUME NEW p \in Procs, Finish(p) PROVE tx'[q] = tx[q]
  BY <1>8, FinishType DEF IdleTx
<1>9. ASSUME NEW p \in Procs, Retry(p) PROVE tx'[q] = tx[q]
  BY <1>9 DEF Retry, IdleTx
<1>10. ASSUME NEW p \in Procs, NEW op \in Ops, NEW u \in Users, Begin(p, op, u)
       PROVE  tx'[q] = tx[q]
  BY <1>10 DEF Begin, IdleTx
<1>11. ASSUME NEW p \in Procs, p # q,
              \/ ReadTarget(p) \/ SnapshotAdmins(p) \/ PassAdminCount(p)
              \/ \E u \in Users : LockRow(p, u)
       PROVE  tx'[q] = tx[q]
  BY <1>11 DEF ReadTarget, SnapshotAdmins, PassAdminCount, LockRow, Finish
<1> QED
  BY <1>3, <1>4, <1>5, <1>6, <1>7, <1>8, <1>9, <1>10, <1>11
     DEF Next, Step, RefuseLastAdmin, Update, Fail, GracePeriodEnds, vars

\* Under the same condition every step leaves an active admin.
LEMMA SomeAdminStep ==
  ASSUME NobodyIsMadeAdmin, TypeInv, CountIsStable, CountedTwo,
         StaleReadsAreSafe, SomeActiveAdmin, [Next]_vars
  PROVE  SomeActiveAdmin'
<1> SUFFICES ActiveAdmins' # {}
  BY DEF SomeActiveAdmin
<1>1. PICK a \in Users : IsActiveAdmin(users[a])
  BY DEF SomeActiveAdmin, ActiveAdmins
<1>2. ASSUME \A p \in Procs : ~Update(p) PROVE ActiveAdmins' # {}
  <2>1. IsActiveAdmin(users'[a])
    BY <1>1, <1>2, OnlyUpdatesChangeAdmins
  <2> QED
    BY <2>1 DEF ActiveAdmins, IsActiveAdmin
<1>3. ASSUME NEW p \in Procs, Update(p) PROVE ActiveAdmins' # {}
  <2> DEFINE op == tx[p].op   found == tx[p].found   t == tx[p].target
  <2>1. op \in Ops /\ t \in Users /\ found \in Row /\ users[a] \in Row
    BY <1>3 DEF Update, TypeInv, TypeOK, Tx
  <2>2. users'[a] = IF a = t THEN Written(op, users[a]) ELSE users[a]
    BY <1>3, <2>1 DEF Update, TypeInv, TypeOK
  <2>3. CASE TakesAdminLock(op, found)
    BY <1>3, <2>3, UpdateLeavesAdmin
  <2>4. CASE ~TakesAdminLock(op, found) /\ IsActiveAdmin(found)
    <3>1. IsActiveAdmin(users'[a])
      BY <1>1, <2>1, <2>2, <2>4, UnlockedWritesKeepAdmins
    <3> QED
      BY <3>1 DEF ActiveAdmins, IsActiveAdmin
  <2>5. CASE ~IsActiveAdmin(found)
    <3>1. a # t
      BY <1>1, <1>3, <2>5 DEF StaleReadsAreSafe, Update
    <3> QED
      BY <1>1, <2>2, <3>1 DEF ActiveAdmins, IsActiveAdmin
  <2> QED
    BY <2>3, <2>4, <2>5
<1> QED
  BY <1>2, <1>3

\* Where nobody is promoted or reactivated meanwhile, concurrent demotions,
\* suspensions, deletion requests and finalizations never leave the system
\* without an active admin.
THEOREM LastAdminIsKept ==
  ASSUME NobodyIsMadeAdmin
  PROVE  Spec => []SomeActiveAdmin
<1> DEFINE Inv == /\ TypeInv /\ CountIsStable /\ CountedTwo
                  /\ StaleReadsAreSafe /\ SomeActiveAdmin
<1>1. Init => Inv
  <2>1. Init => StaleReadsAreSafe
    BY DEF Init, StaleReadsAreSafe, IdleTx
  <2>2. Init => SomeActiveAdmin
    BY DEF Init, SomeActiveAdmin, ActiveAdmins
  <2> QED
    BY <2>1, <2>2, TypeInitially, CountInitially, CountedTwoInitially
<1>2. Inv /\ [Next]_vars => Inv'
  BY TypeStep, CountStep, CountedTwoStep, StaleReadsStep, SomeAdminStep
<1>3. Inv => SomeActiveAdmin
  OBVIOUS
<1> QED
  BY <1>1, <1>2, <1>3, PTL DEF Spec

-----------------------------------------------------------------------------
\* Under the same condition no active admin escapes the counting lock: it is in the
\* snapshot, and counted when its row is reached.
AdminsAreCounted ==
    \A p \in Procs :
        tx[p].pc = "locking" => ActiveAdmins \subseteq tx[p].pending \cup tx[p].counted

LEMMA AdminsCountedStep ==
  ASSUME NobodyIsMadeAdmin, TypeInv, AdminsAreCounted, [Next]_vars
  PROVE  AdminsAreCounted'
<1> SUFFICES ASSUME NEW q \in Procs, tx'[q].pc = "locking",
                    NEW a \in Users, IsActiveAdmin(users'[a])
             PROVE  a \in tx'[q].pending \cup tx'[q].counted
  BY DEF AdminsAreCounted, ActiveAdmins, IsActiveAdmin
<1>1. a \in ActiveAdmins
  BY StepsMakeNoAdmin DEF ActiveAdmins
<1> USE DEF TypeInv, TypeOK
<1>2. CASE tx'[q] = tx[q]
  BY <1>1, <1>2 DEF AdminsAreCounted
<1>3. CASE SnapshotAdmins(q)
  BY <1>1, <1>3 DEF SnapshotAdmins, Candidates, Tx
<1>4. ASSUME NEW u \in Users, LockRow(q, u)
      PROVE  a \in tx'[q].pending \cup tx'[q].counted
  <2>1. a \in tx[q].pending \cup tx[q].counted
    BY <1>1, <1>4 DEF LockRow, AdminsAreCounted
  <2>2. /\ tx'[q].pending = tx[q].pending \ {u}
        /\ tx'[q].counted = IF StillMatches(u) THEN tx[q].counted \cup {u} ELSE tx[q].counted
    BY <1>4 DEF LockRow, Tx
  <2>3. a = u => StillMatches(u)
    BY <1>1 DEF StillMatches, ActiveAdmins
  <2> QED
    BY <2>1, <2>2, <2>3
\* Every other step of q takes it elsewhere.
<1>5. CASE ReadTarget(q)
  <2>1. CASE ReturnsEarly(tx[q].op, users[tx[q].target])
    BY <1>5, <2>1, FinishType DEF ReadTarget, IdleTx
  <2>2. CASE ~ReturnsEarly(tx[q].op, users[tx[q].target])
    BY <1>5, <2>2 DEF ReadTarget, Tx
  <2> QED
    BY <2>1, <2>2
<1>6. CASE PassAdminCount(q)
  BY <1>6 DEF PassAdminCount, Tx
<1>7. ASSUME NEW p \in Procs, Finish(p) PROVE tx'[q] = tx[q]
  BY <1>7, FinishType DEF IdleTx
<1>8. ASSUME NEW p \in Procs, Retry(p) PROVE tx'[q] = tx[q]
  BY <1>8 DEF Retry, IdleTx
<1>9. ASSUME NEW p \in Procs, NEW op \in Ops, NEW u \in Users, Begin(p, op, u)
      PROVE  tx'[q] = tx[q]
  BY <1>9 DEF Begin, IdleTx
<1>10. ASSUME NEW p \in Procs, p # q,
              \/ ReadTarget(p) \/ SnapshotAdmins(p) \/ PassAdminCount(p)
              \/ \E u \in Users : LockRow(p, u)
       PROVE  tx'[q] = tx[q]
  BY <1>10 DEF ReadTarget, SnapshotAdmins, PassAdminCount, LockRow, Finish
<1> QED
  BY <1>2, <1>3, <1>4, <1>5, <1>6, <1>7, <1>8, <1>9, <1>10
     DEF Next, Step, RefuseLastAdmin, Update, Fail, GracePeriodEnds, vars

\* Where nobody is promoted or reactivated meanwhile, a request is refused for the sake of
\* the last active admin only if there is no second one at that moment.
THEOREM RefusalsAreHonest ==
  ASSUME NobodyIsMadeAdmin
  PROVE  Spec => RefusalIsHonest
<1> DEFINE Inv == TypeInv /\ AdminsAreCounted
<1>1. Init => Inv
  <2>1. Init => AdminsAreCounted
    BY DEF Init, AdminsAreCounted, IdleTx
  <2> QED
    BY <2>1, TypeInitially
<1>2. Inv /\ [Next]_vars => Inv'
  BY TypeStep, AdminsCountedStep
<1>3. Inv /\ [Next]_vars =>
        [\A p \in Procs : RefuseLastAdmin(p) => Cardinality(ActiveAdmins) <= 1]_vars
  <2> SUFFICES ASSUME Inv, NEW p \in Procs, RefuseLastAdmin(p)
               PROVE  Cardinality(ActiveAdmins) <= 1
    OBVIOUS
  <2>1. ActiveAdmins \subseteq tx[p].counted /\ ~(Cardinality(tx[p].counted) > 1)
    BY DEF RefuseLastAdmin, EnoughAdmins, AdminsAreCounted
  <2>2. IsFiniteSet(tx[p].counted)
    <3>1. tx[p].counted \subseteq Users
      BY DEF TypeInv, TypeOK, Tx
    <3> QED
      BY <3>1, UsersAssumption, FS_Subset
  <2>3. /\ Cardinality(ActiveAdmins) <= Cardinality(tx[p].counted)
        /\ Cardinality(ActiveAdmins) \in Nat /\ Cardinality(tx[p].counted) \in Nat
    BY <2>1, <2>2, FS_Subset, FS_CardinalityType
  <2> QED
    BY <2>1, <2>3
<1> QED
  BY <1>1, <1>2, <1>3, PTL DEF Spec, RefusalIsHonest
=============================================================================

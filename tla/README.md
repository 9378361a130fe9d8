# A TLA+ development for backend-core-kit

backend-core-kit is a NestJS API (`apps/api`), a BullMQ worker (`apps/worker`) and a
Postgres database reached through Prisma, with Redis for rate limits, idempotency
records and queues and an S3-like object store for profile images. Any number of API
and worker processes run the same code; they share nothing but the database, Redis
and the object store. The interesting behaviour is therefore in how short sequences of
statements, each with an `await` between them, interleave.

## The system and its parts

| Part | State it keeps | Operations | What is hard | What makes it correct |
|---|---|---|---|---|
| User governance (`libs/features/admin`, `libs/platform/db`) | `User.role`, `User.status`, audit rows | setUserRole, setUserStatus | unlocked read, row locks, stale decisions, deadlock retries | an active admin always remains; the audit trail follows the rows |
| Account deletion (`libs/features/users`, `apps/worker`) | `deletion*` columns, `deletedAt`, one delayed job per user | request, cancel, finalize, re-delay | job against cancel and re-request, at-least-once jobs, the last admin at finalize time | a canceled deletion is not carried out, a requested one eventually is |
| Sessions and refresh tokens (`libs/features/auth`) | `Session`, `RefreshToken`, `PasswordCredential` | login, refresh (rotation), logout, revoke, password change and reset, suspension | three-step login, rotation against revocation, lock order | a refresh token is exchanged at most once, a revoked session yields no token |
| One-time tokens (`libs/features/auth`, email worker) | `EmailVerificationToken`, `PasswordResetToken` | issue, verify, reset, revoke | at-least-once issuing jobs, several tokens in flight | each token works once; a reset invalidates the others |
| OIDC (`libs/features/auth`) | `ExternalIdentity`, `User` | exchange, connect | unique-constraint races | an identity belongs to one user |
| Push tokens (`libs/features/auth`, push worker) | `Session.pushToken` | upsert, revoke, worker clears invalid token | upserts of one token by two sessions, stale worker read | a token belongs to one session |
| Idempotency (`libs/platform/http/idempotency`) | one Redis record per key | begin, wait, complete, release | lock expiry, release by a stale owner | a mutation is applied at most once per key |
| Rate limiters (`libs/features/auth/infra/rate-limit`, `libs/features/users/infra/rate-limit`) | counters, block and cooldown keys in Redis | assertAllowed, recordFailure, recordSuccess, recordRequest | commands that are not atomic together | no counter lasts for ever, a limit is overshot by concurrent attempts only |
| Profile images (`libs/features/users`, image worker) | `StoredFile`, `UserProfile.profileImageFileId`, stored object | upload plan, complete, clear, delete job, expire job | cleanup jobs against attach, completions of one file that race | the attached image is stored, unless its deletion had been decided when it was attached |
| List queries (`libs/shared/list-query`, the Prisma query builders) | none | cursor, sort, filter | keyset predicate, ties, rows that change while a client pages | an unchanged row is listed exactly once |
| Access (`libs/platform/auth`, `libs/platform/rbac`) | key ring of each process, access tokens | sign, verify, hydrate, authorize | rotation over several instances, claims older than the row | a valid token passes everywhere, an admin route follows the row |

The parts meet at the `User` row (governance, deletion, login), at the `Session` row
(auth, push, suspension, finalization) and at the queues (deletion, emails, images).
What several parts write appears in the module of each of them, as far as that module's
properties can tell the writes apart: the erasure of an account, for instance, is
`FinalizeAccountDeletion` in `UserLifecycle`, a revocation of kind `finalize` in
`Sessions`, `Erase` in `AccountDeletionJobs`, `Identities` and `OneTimeTokens`, `Delete`
in `PushTokens` and `EraseUser` in `ProfileImage`.

## How the modules are built

A step of a model is one statement that other requests can interleave with: a plain
read, one row of a `SELECT ... FOR UPDATE`, an `UPDATE` with the commit behind it, one
Redis command. What the code does between two `await`s on data of its own belongs to
the step before. Postgres is modelled by what the code relies on: a transaction holds
its row locks until it ends, a READ COMMITTED statement that waited for a row evaluates
its WHERE clause again, a SERIALIZABLE transaction fails when a row it updates (or, in
`Sessions`, a row its snapshot matches) was changed after its snapshot, and a deadlock
aborts one of its transactions. A lost connection or a dead process rolls a transaction
back at any of its steps (`Fail`, `Crash`).

An operator that stands just before a definition and is used by nothing
(`OffByOneAdmins`, `KeyIgnored`, `AnyKey`...) is a deliberate mistake: PROJECT.json
lists it as a mutant, and putting it in the place of the definition below it makes one
of the properties fail. They show what each property would catch.

| Module | What it is | Theorems in |
|---|---|---|
| `UserLifecycle` | role, status and scheduled deletion of all users, as concurrent transactions | `UserLifecycleProofs` |
| `Sessions` | sessions, refresh tokens and the password of one account | `SessionsProofs` |
| `TokenFamilies` | what rotation promises a client: the abstract specification of `Sessions` | |
| `Idempotency` | the calls that carry one Idempotency-Key | `IdempotencyProofs` |
| `IdempotentWrite` | what an Idempotency-Key promises: the abstract specification of `Idempotency` | |
| `AccountDeletionJobs` | the schedule of a deletion in the database against its jobs in Redis | `AccountDeletionJobsProofs` |
| `Identities` | accounts, their addresses and linked Google identities | `AccountPartsProofs` |
| `OneTimeTokens` | verification and reset tokens and the jobs that mail them | `AccountPartsProofs` |
| `PushTokens` | the push token of each session and the push worker | `PushTokensProofs`, `AccountPartsProofs` |
| `RateLimits` | the Redis limiters, command by command | `AccountPartsProofs` |
| `AccountParts` | the four above, side by side | `AccountPartsProofs` |
| `Access` | key ring, access tokens, the guards of the admin routes | `AccessProofs`, `RequestPartsProofs` |
| `ProfileImage` | file rows, the profile's reference, stored objects, cleanup jobs | `RequestPartsProofs` |
| `ListQueries` | sorts, filters, cursors and paging | `RequestPartsProofs` |
| `RequestParts` | the three above, side by side | `RequestPartsProofs` |
| `MCUserLifecycle`, `MCSessions`, `MCIdempotency`, `MCAccountDeletionJobs`, `MCAccounts`, `MCRequests` | finite instances for TLC | |

`AccountParts` and `RequestParts` put modules that share no state into one specification:
`part` is chosen at the start and stays, and the other parts stay in one initial state, so
every behaviour is one of a single module and every state of each module is reached as it
would be alone. They are a sum, not a composition; what composes through shared rows is in
the modules themselves. `SumOfParts` proves that a behaviour of the sum is one of each of
its parts, so a property of a part is a property of the sum.

### UserLifecycle

`users` holds the rows, cut down to `role`, `status`, the deletion schedule (null,
ahead, due), whether `deletionRequestedSessionId` is set and whether `deletedAt` is.
`owner` is the transaction that holds a row lock, `tx` the local state of each running
transaction (program counter, the row its unlocked read found, the rows it still has to
lock and those it has counted, the attempt of `withTransactionRetry`), `audit` the
audit rows of the last step. The seven operations (promote, demote, suspend,
reactivate; request, cancel, finalize) share one skeleton, as they do in the code:

| Action | Code |
|---|---|
| `Begin` | the guards of the request; an admin operation needs an actor that is an active admin now (`db-role-hydrator.service.ts`) |
| `ReadTarget` | `tx.user.findUnique` and the early returns |
| `SnapshotAdmins`, `LockRow` | `lockActiveAdminInvariant`: the snapshot of `SELECT ... FOR UPDATE`, then one row lock at a time, with the recheck after a wait |
| `RefuseLastAdmin`, `PassAdminCount` | `activeAdminCount <= 1` and its negation |
| `Update` | the UPDATE by id, the audit rows, the commit |
| `Retry`, `Fail` | `withTransactionRetry`; errors it does not retry |
| `GracePeriodEnds` | the clock passes `deletionScheduledFor` |

The sessions, tokens and credentials those commits also write are the state of `Sessions`.

### Sessions and TokenFamilies

One account: `account` (status, version of the password), `sess`, `tok` (the rows),
`owner` (row locks), `req` (the requests under way). A login is `Login` (the read that
passes the checks), `DeviceLookup` with the revocation it leads to, `CreateSession` and
`CreateToken`, each a transaction of its own. A refresh is `Refresh` and `RotateLookup`
(two reads outside any transaction), `SpendToken` and `CommitRotation`. A request that
its first read refuses changes nothing and is no step. Everything that revokes
(logout, revoke, reuse of a spent token, a device's previous session, password reset and
change, suspension, finalization) is one protocol, `BeginRevocation`, `LockAccount`,
`ReadSessions`, `LockSession`, `ReadTokens`, `LockToken`, `CommitRevocation`, with a
scope for each kind of request. Each of the lock steps is `Visits`: an UPDATE reaches one
row of its snapshot, waits for its lock and looks at the row again. Two read-committed
revocations that deadlock are not retried by the code: one of them fails (`Fail`), as any
request may. Foreign keys are modelled where they make a statement
wait or fail (`KeyLocked`).

`late` and `Session.cred` are history variables: whether a token was created by a login
when a revocation of its session had begun, and which password opened a session.

`TokenFamilies` is what a client may rely on: a session is a family of tokens of which
one at most, the tip, can be exchanged, for a token that never existed; a dead family
stays dead. `Sessions!Families` maps a live session to an alive family whose tip is its
unspent, unrevoked token, and a revoked or deleted session to a dead one. `Straggle` and
the second argument of `Kill` are what the code really allows: a login whose session is
killed before it gets its token still gets one, which never works.

### Idempotency and IdempotentWrite

`rec` is the value at the Redis key, `call` the state of each HTTP request, `applied`
(history) the requests whose mutation was committed. `begin` is `Acquire`,
`AcquireFails` (SET NX), `ReadExisting` (GET) and a second SET NX; `waitForCompletion`
is `Poll` and `WaitEnds`; then `HandlerApplies` or `HandlerFails`, `Complete` (SET EX),
or `ReleaseRead` (GET) and `ReleaseDelete` (DEL), which are two commands. `LockExpires`
is the EX of the lock, `Crash` a dead process or a connection that takes the answer
with it. `Faults` names what an instance may meet besides: a handler that outlives its
lock (`slow`), that throws after its commit (`late`), a response too large to store
(`large`), a failing Redis command (`redis`), a crash between the commit and `complete`
(`crash`).

`IdempotentWrite` is the promise: one of the calls at most is applied, and a call
succeeds only for a payload that has been applied.

### AccountDeletionJobs

One account, the job under each of its two ids (`finalize`, `reminder`), the worker's run
of each, and the owner's HTTP calls. `Arrive`, `CommitRequest` and `CommitCancel` are the
transaction of `requestAccountDeletion` and `cancelAccountDeletion`; `RemoveJob`, `AddJob`,
`RemoveMail` and `AddMail` are `removeJob` and `enqueue`, each a command that may fail
(`CallFails` for the finalizer's job, `MailFails` for the best-effort reminder). BullMQ is
modelled by what the schedulers rely on: an id that exists is not added again, a job that
is locked is not removed, a failed attempt puts the job back until the attempts are used
up, a dead worker's job is picked up again `MaxStalls` times. `Start`, `ReadUser`,
`MoveToDelayed` and `Erase` are the finalizer's run, `ReadForEmail` and `SendEmail` the
reminder's. Time is counted down by `Tick`; `due`, the delays and what a run or a call has
read shrink together.

`alone`, `met` and `stray` are history variables: whether a call has gone on by itself,
whether a call has gone on beside a run, and whether the reminder's job may belong to
another schedule than the one that stands, because a cancellation failed before it removed
the job, or found it locked, or the schedule changed under the request that added it.

### ProfileImage

`CreateUploadPlan`, the completion (`FindFile`, the HEAD request, `Attach` or the two
best-effort steps of a rejection), `ClearRead` and the clear, `ReadImage`; the client's
`Upload` with a presigned URL; and the delete and expire jobs of each file (`Work`), with
retries. Without Redis the code deletes inline, and so does the model (`queueing`).
`condemned` and `raced` are history variables: files whose deletion had been decided when
they were attached, and whether a transaction has written what it had read is not true any
more.

### Identities

Registration is one transaction. `Exchange` is an OIDC sign-in: lookup of the identity,
lookup of the address, creation of user and identity, each apart, and after a unique
violation the two lookups again. `Connect` reads the user, then links; the insert and the
update behind it are one step, since the insert's foreign key holds the user's row.
Unique indexes are guards of the inserts (`NothingIsTaken`); a request that loses a race
goes on as the code's `catch` does. `proven` is history: which addresses a token, a link
or a mail has vouched for.

### OneTimeTokens

The tokens of one user and the email jobs. A job's `insert` and `send` are steps; a
failure or a dead worker after either lets it start over, with another token. `Verify`,
`Reset`, `ChangePassword` and `Erase` are transactions that are serializable and retried,
so each is one step. `stale` is history: the reset tokens that had been issued when a
reset succeeded.

### PushTokens

The rows of several sessions. A registration (`Register`) is a SERIALIZABLE transaction:
its snapshot, the lock on its own row, and its commit, which fails if a row of the
snapshot changed (`SnapshotIsCurrent`), if another session got the token, or if it is a
deadlock's victim, and is then retried. `Revoke`, `Suspend`, `Delete` and `Expire` are
how sessions end. `Push` is the worker: read, send, and clear the token if the provider
has dropped it and the session `HasStillToken`.

### RateLimits

`limiter` says which of the limiters a behaviour is about; their keys are distinct. A
request checks its buckets one `GET` at a time (login, upload, IP), and a bump is INCR,
EXPIRE for a first count, and the block or cooldown key. `Cut` is a crash or a lost
connection between two of them. Times are kept as an order: a block outlasts the window of
its counter, as the default configuration has it; the user limit of uploads does not, and
`loose` excuses it.

### Access

`config` is the configured key list and `ring` what each process has loaded of it.
`AddKey`, `PromoteKey` and `RemoveKey` change the configuration in an order that the model
assumes of the operator: one change at a time, deployed everywhere before the next, a new
key behind the one that signs, then promoted, an old one dropped when no valid token
carries it. The procedure in `docs/standards/authentication.md:96-97` (add the key, deploy,
start signing with it) can be read that way but does not say where in the list the new key
goes, and `auth-keyring.service.ts` accepts any list; `ValidTokensPass` holds for this order
and breaks for a new key put first. A request signs or verifies at some instance, and on an admin route has
its role and status read from the row between the two guards.

### ListQueries

A query is normalised (allowlist, default sort, tie-breaker), turned into a filter and a
keyset predicate, and paged to the end by a client while rows are inserted, updated and
deleted. The cursor is accepted only for the sort it was made with.

## Runs

All runs are exhaustive. The passing ones:

| Run | Instance | What it shows |
|---|---|---|
| `lifecycle_all` | 2 users, 2 transactions, all operations | types; counted rows stay locked active admins; an update after the count leaves an admin; a pending deletion names its session; the audit trail follows the rows |
| `lifecycle_reducing` | 2 users, 2 transactions, demote, request, finalize; 2 attempts; fairness | an active admin always remains, nobody is refused while two remain, every request ends, deadlocks included |
| `sessions_devices` | 2 sessions, 3 tokens, a device, 2 requests; login, refresh, revoke | one live session per device; `TokenFamilies` |
| `sessions_password` | 2 sessions, 2 tokens, one password change; everything but a revocation by id | types; no token of a revoked session, whichever sweep and rotation meet |
| `idempotency_once` | 4 calls, 2 payloads, no fault | one handler at a time; the mutation is applied once (`IdempotentWrite`); stored responses stay |
| `idempotency_faults` | 3 calls, every fault, fairness | replays are genuine; locks are released |
| `deletion_jobs` | 2 calls, 2 ticks, 2 attempts, 1 stall, fairness | a request that succeeds leaves a job for its schedule; the job does not end before the deletion does; nothing is erased early; the reminder goes out on the last day of the schedule that stands; a carried deletion ends |
| `accounts` | 2 users, addresses, subjects, tokens, sessions, requests; 1 push job; 2 attempts | the properties of `Identities`, `OneTimeTokens`, `PushTokens`, `RateLimits` |
| `requests` | 2 files, 2 requests, 2 keys on 2 instances; 3 rows with 2 values | the properties of `ProfileImage`, `Access`, `ListQueries` |

Why the bounds are enough. Two transactions suffice for the races between a read and a
write and for a deadlock of two. Two attempts are one retry and its exhaustion. Two
sessions are a device's previous and next one, or the session a password change spares
and one it ends; three tokens are a login and two rotations, or two logins and one; two
are a token and its replacement. Three calls of a key are an owner whose lock is lost, its
successor, and a waiter on either. Two ticks are the reminder's day and the deletion's.
Three rows are the last of a page, the next one and one that ties. `MaxCount` is at least
the limit plus the requests, so no count is cut off. `MaxCred` bounds the password
changes: another one waits for ever. What does not depend on the bounds is proved.

The constraints cut combinations, not cases. `deletion_jobs`: where emails are sent, calls
overlap only as long as no run has failed or died, since the reminder never decides about
the deletion. `accounts`: two limiter requests do not overlap once a bump has been cut short,
one bucket at most is marked in the history, and two OIDC requests do not overlap while an
account is suspended. `requests`: one cleanup job runs at a time; a job fails only while
no request is open; two requests overlap only while there is a queue and a user,
neither is making an upload plan, and beside one that enqueues there is only a read; when
two transactions have raced (`raced`) only the jobs go on; columns a query does not look at
do not vary (`RowsVary`).

Runs without deadlock checking are those that may really come to an end: every call is
done (`Idempotency`, a canceled or carried-out deletion), the account is suspended or
erased, rows or tokens are used up, or the bound on password changes is reached
(`Sessions`, `MCAccounts`, `MCRequests`).

Symmetry is used for users, transactions, requests, sessions, tokens, files, calls and
payloads, all of which the specifications only compare; never in a run with a liveness
property. `Accounts.cfg` and `Requests.cfg` give constants of different parts the same
model values (`Users` and `Sessions`, `Procs` and `Instances`), so that one set of
permutations serves all parts; no part sees two of them.

### What the code does against its documentation

Each of these runs checks one sentence of the repository's documents and finds it
violated.

| Run | Behaviour |
|---|---|
| `lifecycle_lost_admin` | A suspension reads its target as a plain user and skips the count; the target is promoted, the other admin is demoted, and the suspension then suspends the last active admin. |
| `lifecycle_canceled` | The finalizer reads a due deletion without a lock; the cancellation commits (and is answered 204); the finalizer erases the account by id. |
| `sessions_reset` | A login that verified the old password creates its session after a reset took its snapshot: it survives the reset with a working refresh token. |

Further behaviour that the models show, and that the stated properties leave room for.
None of it has a run of its own:

- Of the same causes: a status change that read its target before the finalizer committed
  puts `ACTIVE` or `SUSPENDED` back on an erased account (`deletedAt` set); of two
  concurrent demotions the second writes an audit row with an old role that was no longer
  there; a login that read the account as active opens a session after a suspension swept
  the sessions.
- Idempotency: a handler that takes longer than `lockTtlSeconds` is applied again by a
  retry; a release reads its lock, the lock expires, a retry acquires the key, runs and
  stores its response, and the DEL of the release removes it.
- Deletion: a cancellation and a new request that overlap may leave the new deletion
  without a finalizer job, because the removal arrives last; a later request repairs it.
- Deletion reminders: `docs/engineering/users/account-deletion.md:66` names one, about 24
  hours before the deletion; the code neither bounds their number nor ties the job to its
  schedule. A run that has sent its mail and then fails, loses the provider's answer or
  dies with its worker is tried again from its read and sends another one. A request
  repeated while the reminder runs cannot remove its job. The removal by a cancellation is
  best effort: the job it leaves behind wakes on the old day, earlier in a schedule
  requested anew, and sends its mail then; a repeated request afterwards adds a second one
  for the last day.
- Identities: an exchange answers `AUTH_OIDC_LINK_REQUIRED` when the identity was linked
  between its two lookups; a link that read the user before the erasure commits after it
  and stays; the lookups that follow a failed insert inside the same transaction fail too,
  since Postgres has aborted it.
- One-time tokens: a job may issue a token after the account is erased.
- Profile images: two completions that read the same current image retire it once, and one
  of the new files stays `ACTIVE` without a profile; a rejected object can be uploaded
  again while its URL is valid, and is not deleted again.
- Limiters: a process that dies between INCR and EXPIRE leaves a counter without expiry,
  and a counter that is above one never gets its expiry set.
- Lists: a cursor is bound to the sort, not to the filter.
- Keys: a new key put first in a rolling deployment breaks the tokens that reach an
  instance without it.

### Fairness

`UserLifecycle!FairSpec` has strong fairness of each transaction's steps: Postgres
queues the waiters of a row first come first served and aborts a victim of every
deadlock, so a step that keeps becoming possible is taken. Nothing is assumed of
clients, of failures or of the clock. `Idempotency!FairSpec` has weak fairness of each
running call and of the key's expiry: timers fire and Redis expires keys. A dead call is
never scheduled again. `AccountDeletionJobs!FairSpec` has weak fairness of time, of the
running calls, and of workers taking and running the jobs that are due: the worker host
restarts. Nothing is assumed of failures: an attempt may fail until the attempts are used
up, and `DeletionEnds` says so.

## Proofs

The theorems hold for any sets of actors and rows and any bounds. They use the named
assumptions of the modules, which TLC evaluates on the instances: that the sets of users,
rows and attempts are finite, that `None` is none of the values it stands beside, that there
is at least one attempt, that the queries are parsed ones (`QueriesAreParsed`: a list that
exists, a sort that is a sequence of a name and a direction), and that the counters of the
model go beyond the limit (`CountsReachTheLimit`). `PushTokens` states no assumption of its
own; its theorems have `Sound` as a hypothesis (at least one attempt), and
`AccountPartsProofs` discharges it.

Every invariant and every action property that a passing run checks is a theorem too, some
under a hypothesis that the run's instance meets (`NobodyIsMadeAdmin`,
`LocksOutliveHandlers`, no faults). Only the three liveness properties are not.

`UserLifecycleProofs`:

- `TypeCorrect`. `TypeInv` adds to `TypeOK` that a running transaction has a target
  and an operation of `Ops`, which `Written` needs.
- `CountsAreStable`: `CountIsStable` is inductive beside `TypeInv`. The updated row is
  free or the writer's own, so nobody else counted it.
- `CountedUpdatesAreSafe`: a transaction that updates after the counting lock counted
  two rows (`CountedTwo`); they are locked active admins still, so the one it does not
  write is one afterwards.
- `LastAdminIsKept`, under the assumption that nobody is promoted or reactivated
  concurrently (`NobodyIsMadeAdmin`): a transaction that did not count read its target
  as no active admin, and then the target still is none (`StaleReadsAreSafe`). This is
  exactly what `lifecycle_lost_admin` breaks once promotions run beside it.
- `RefusalsAreHonest`, under the same assumption: every active admin is still to be locked
  by a transaction that counts, or counted by it (`AdminsAreCounted`), so one that counted
  fewer than two has missed none. A promotion after the snapshot would be missed.
- `AuditTrailFollows`: the operations write constants, so the audit row's new value is
  the row's, however stale the read.
- `DeletionsAreAttributed`: schedule and session are written and cleared together by every
  operation, and a finalizer goes on only from a row that is due.

`SessionsProofs`:

- The inductive invariant is about each request by itself (`RequestOK`): the rows it names
  are in use (`Names`), those it has marked are locked by it (`Locks`), it goes from the
  account to the sessions to the tokens (`Phases`), a serializable request whose commit
  can still succeed has seen the account as it is (`Snapshot`), and its sets cover what it
  has to revoke (`Covers`): every current token of the sessions it is ending is in its
  snapshot, or was changed since, which makes a serializable commit fail; a read-committed
  revocation, which reads the tokens after it has locked the sessions, has every one
  pending or marked. A session that is locked gets no new token, because the insert's
  foreign key and the rotation's update wait for the lock; that is why the second half
  holds without a conflict check.
- A step writes one request and the rows it locks; `OthersStand` is the frame lemma that
  carries `RequestOK` of every other request over it.
- `TypeCorrect` needs the invariant too: two serializable changes of the password could
  otherwise raise its version twice from one value.
- `RevocationIsComplete` follows from `Covers` at the commit.
- `SessionsRefineFamilies`: `FamilyInv` (a live session has one current token at most, and
  a free one none) makes `FamilyTip` a function of the rows; then each action maps to
  `Open`, `Issue`, `Straggle`, `Exchange`, `Kill` or a stutter. The conditional UPDATE of
  `SpendToken` is what makes `Exchange` exclusive.
- `DevicesHaveOneSession`: only an unlocked, unused key is inserted (`KeyTaken`).

`IdempotencyProofs`:

- `TypeCorrect` and `ReplaysAreCorrect`, under every fault. The invariant adds that a
  completed record, and every replay taken from it, belongs to an applied call with the
  record's hash.
- `LocksExclude` and `StoredResponsesStay`, when locks outlive their handlers and no
  unstorable response meets a failing Redis (`LocksOutliveHandlers`). The invariant
  `Ownership` says that a call between its handler's start and the end of `complete` or
  `release` is the one whose lock is at the key. The second condition is needed: the
  release of an unstorable response can fail after its DEL was carried out, and is then
  repeated, against the next call's lock.
- `AppliesAtMostOnce` and `ImplementsIdempotentWrite`, without faults: once a mutation
  is applied, its call still holds the key or its response is stored.

`AccountDeletionJobsProofs`: no transaction spans the database and Redis, so each side is
right only as long as nobody came in between, and the invariant says who knows what until
then.

- `ErasedOnlyWhenDue` and `JobsOutlastTheDeletion`: a run that no call has met knows the
  schedule as it is (`FinalizerIsRight`). A run that has met none goes on beside none
  (`UnmetRunsAreAlone`), so nothing changes the schedule under it.
- `RequestsLeaveJobs`: a call that is alone knows the schedule and the job as far as it has
  come (`AloneIsRight`); schedule and delay shrink together with every tick.
- `RemindersGoOutOnTime`: a reminder's job that is not `stray` does not wake before the last day
  of the schedule that stands, or a cancellation is on its way to remove it
  (`ReminderIsKnown`), and then its run has met that call; a run on a later day is skipped
  (`IsTooLate`). It says when a reminder may go out, not how often.

`AccountPartsProofs`, by part:

- Identities: `RowsInv` (live rows have an address, addresses are unique, verified ones
  proven), `RequestsInv` (a request has its claims; the user it read still has the address
  it read, or is erased) and `LinksInv` (identities are unique and belong to rows that
  exist) together are inductive. `AccountsStayUnique`, `VerifiedAddressesAreProven` and the
  half of `ErasureCompletes` about identities are their parts. The middle one is the
  interesting one: `Connect` verifies the address of a user it read earlier, which is right
  because an address changes only when the account is erased.
- One-time tokens (`MailsInv`): a reset revokes every fresh token of the user in the same
  transaction, and a token is never made fresh again (`ResetsEndOlderTokens`); nothing but a
  job that was under way issues one after the erasure.
- Rate limits (`LimitsInv`): `CountersDoExpire`, and `OvershootStaysBounded` with
  `CountsFit`. As long as there is no block, each count over the limit belongs to a request
  that is about to set it; once it is set, only those that had looked before may still
  count. Both sets together have no more members than there are requests (`Blocking`,
  `Counting`).
- Push tokens: `PushTokensProofs` is instantiated, and the lemmas `Same...` say that its
  instance of the module and the one of `AccountParts` are the same. There,
  `SnapshotHolds` is the strengthening: the session a registration has locked is not revoked
  meanwhile, and its snapshot is right about the other rows or a conflict has been noted;
  `AnswersAreTrue` says that what the worker is to clear is a token the provider has
  dropped.

`RequestPartsProofs`, by part:

- Images: `AttachedFilesAreStored`. A request that is about to attach has seen the object,
  and the object is still there, or the row is `DELETED`, or the file is condemned
  (`RequestOK`); a delete job exists only for a `DELETED` row, and an expiry that got to the
  object has condemned the file (`JobOK`). `DeletedFilesStay` and `NoFileIsForgotten`: the
  second needs that an attach retires the image it read, which is the current one as long as
  nothing has `raced`.
- Lists: `ListsStayExact`, for any table, any sort that is accepted, and page sizes that
  change from page to page. The tie-breaker makes every accepted sort decide between any two
  rows (`ParsedIsDecisive`), so the keyset predicate is a strict total order of the rows
  (`NoneIsAfterItself`, `AfterIsTransitive`, `AfterIsTotal`) and the same one as ORDER BY. A
  page is what comes first in it (`PagesAreClosed`), and its last row divides it from the
  rest (`LastIsLast`). The invariant `PagingOK`: an unchanged row that meets the filter has
  been listed if and only if it does not come after the cursor.
- Access: `AccessProofs` is instantiated, and the lemmas `Same...` identify the two
  instances. `TokensPass` rests on `KeysFit` (of any two lists in use, each verifies what the
  other signs with) and `TokensFit` (every list verifies every valid token);
  `GuardsFollowTheRow` on what the guard has read of the row being one of the values the row
  had since the request came.

Only model-checked: the three liveness properties (`RequestsFinish`, `LocksAreReleased`,
`DeletionEnds`). Liveness under fairness is out of the prover's reach.

## What is not modelled

PROJECT.json lists every component with its status. Left out for good: cryptography and
signatures, formats, logging, telemetry, configuration, health checks, the clients of
external services, generators and analysis scripts under `scripts/` and `tools/`. The
profile's read and update are one statement each and no rule relates them to other state.
The mail that confirms a deletion request is best effort and nothing depends on it.
Connections and the shutdown of queues and workers are left out; jobs are modelled where a
scheduler relies on them.

Abstracted: addresses, names, reasons and trace ids (no decision of a modelled operation
depends on them beyond equality); the clock (a date is ahead or past, a tick, or an order
of expiries); the several users of `Sessions`, `OneTimeTokens`, `ProfileImage` and
`AccountDeletionJobs` (rows of different accounts share nothing). The deadlock of a
rotation with a revocation shows as the failure of one of the two requests, which the code
does not retry outside `withTransactionRetry`.

## What could come next

- A property and a run for the hazard that has none: a status change that read its target
  before the finalizer committed.
- `Sessions` and `Identities` joined at the `User` row, to see a session opened by an OIDC
  exchange against the erasure of its account.

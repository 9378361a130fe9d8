---------------------------- MODULE OneTimeTokens ----------------------------
(***************************************************************************)
(* The one-time tokens of one user, for verifying the address and for      *)
(* resetting the password, and the email jobs that create and mail them.   *)
(* A job is retried until it ends or its attempts are used up, and may     *)
(* die after any of its steps: delivery is at least once.                  *)
(*                                                                         *)
(* The two transactions that use a token are SERIALIZABLE and retried: of  *)
(* those that conflict all but one start over, so each is one step.  The   *)
(* insert of a job is a statement of its own.                              *)
(***************************************************************************)
EXTENDS Naturals

CONSTANTS
    Tokens,       \* token rows, used or not
    Jobs,         \* email jobs
    MaxAttempts,  \* DEFAULT_JOB_OPTIONS.attempts, at least 1
    None          \* no token

VARIABLES
    erased,    \* the user's status is DELETED
    verified,  \* emailVerifiedAt is set
    password,  \* the token whose reset set the present password, or None
    hasPassword,  \* the credential row is there
    token,     \* each token row
    job,       \* each email job
    stale,     \* history: tokens that were issued when a later reset succeeded
    late       \* history: tokens that a job issued after the erasure

vars == <<erased, verified, password, hasPassword, token, job, stale, late>>

Kinds == {"verify", "reset"}

\* A token is a row with a hash; mailed: its raw value has reached the user.
Token == [kind : Kinds \cup {None}, state : {"none", "fresh", "used", "revoked"},
          expired : BOOLEAN, mailed : BOOLEAN]

NoToken == [kind |-> None, state |-> "none", expired |-> FALSE, mailed |-> FALSE]

NewToken(kind) == [kind |-> kind, state |-> "fresh", expired |-> FALSE, mailed |-> FALSE]

\* token: what this attempt has created.
Job == [kind : Kinds \cup {None},
        state : {"none", "queued", "insert", "send", "sent", "done", "failed"},
        failed : 0 .. MaxAttempts - 1, token : Tokens \cup {None}]

\* A job that has not created a token (yet, or in this attempt).
InState(kind, state, failed) ==
    [kind |-> kind, state |-> state, failed |-> failed, token |-> None]

NoJob == InState(None, "none", 0)

Over(j, state) == InState(j.kind, state, 0)

(***************************************************************************)
(* The requests that enqueue an email                                      *)
(***************************************************************************)

\* resendVerificationEmail looks at the status first; registration comes before it.
\* requestPasswordReset finds the user by an address that the erasure scrubs.
MayAsk(kind) == ~erased /\ (kind = "verify" => ~verified)

\* The job's id is new: requests and retries pile up.
Enqueue(kind, i) ==
    /\ job[i].state = "none" /\ MayAsk(kind)
    /\ job' = [job EXCEPT ![i] = InState(kind, "queued", 0)]
    /\ UNCHANGED <<erased, verified, password, hasPassword, token, stale, late>>

(***************************************************************************)
(* runVerificationEmailJob and runPasswordResetEmailJob                    *)
(***************************************************************************)

\* The job reads the user; one who is DELETED, or verified already, gets no mail.
ReadUser(i) ==
    /\ job[i].state = "queued"
    /\ job' = [job EXCEPT ![i] =
                 IF erased \/ (@.kind = "verify" /\ verified) THEN Over(@, "done")
                 ELSE [@ EXCEPT !.state = "insert"]]
    /\ UNCHANGED <<erased, verified, password, hasPassword, token, stale, late>>

\* The insert, of a new token at every attempt.
InsertToken(i, t) ==
    /\ job[i].state = "insert" /\ token[t].kind = None
    /\ token' = [token EXCEPT ![t] = NewToken(job[i].kind)]
    /\ job' = [job EXCEPT ![i].state = "send", ![i].token = t]
    /\ late' = IF erased THEN late \cup {t} ELSE late
    /\ UNCHANGED <<erased, verified, password, hasPassword, stale>>

\* The mail goes out; its provider's answer may be lost all the same.
SendEmail(i) ==
    /\ job[i].state = "send"
    /\ job' = [job EXCEPT ![i].state = "sent"]
    /\ token' = [token EXCEPT ![job[i].token].mailed = token[job[i].token].state # "none"]
    /\ UNCHANGED <<erased, verified, password, hasPassword, stale, late>>

Complete(i) ==
    /\ job[i].state = "sent"
    /\ job' = [job EXCEPT ![i] = Over(@, "done")]
    /\ UNCHANGED <<erased, verified, password, hasPassword, token, stale, late>>

Retried(j) ==
    IF j.failed + 1 < MaxAttempts THEN InState(j.kind, "queued", j.failed + 1)
    ELSE Over(j, "failed")

\* The database or the email provider fails, or the worker dies; the next attempt
\* starts from the beginning.
JobFails(i) ==
    /\ job[i].state \in {"insert", "send", "sent"}
    /\ job' = [job EXCEPT ![i] = Retried(@)]
    /\ UNCHANGED <<erased, verified, password, hasPassword, token, stale, late>>

(***************************************************************************)
(* verifyEmailByTokenHash and resetPasswordByTokenHash                     *)
(***************************************************************************)

Usable(t) == token[t].state = "fresh" /\ ~token[t].expired

\* The user presents what was mailed.  A verified address only uses the token up.
Verify(t) ==
    /\ token[t].kind = "verify" /\ token[t].mailed
    /\ token[t].state # "none" /\ (verified \/ Usable(t))
    /\ verified' = TRUE
    /\ token' = [token EXCEPT ![t].state = "used"]
    /\ UNCHANGED <<erased, password, hasPassword, job, stale, late>>

OthersKept(t) == {}

\* The other unused tokens of the user are revoked.
Others(t) ==
    {s \in Tokens \ {t} : token[s].kind = "reset" /\ token[s].state = "fresh"}

\* The token is used, the credential set, sessions and refresh tokens revoked
\* (Sessions), other tokens revoked.
Reset(t) ==
    /\ token[t].kind = "reset" /\ token[t].mailed
    /\ Usable(t)
    /\ password' = t
    /\ hasPassword' = TRUE
    /\ token' = [s \in Tokens |->
                   IF s = t THEN [token[s] EXCEPT !.state = "used"]
                   ELSE IF s \in Others(t) THEN [token[s] EXCEPT !.state = "revoked"]
                   ELSE token[s]]
    /\ stale' = stale \cup {s \in Tokens : token[s].kind = "reset"}
    /\ UNCHANGED <<erased, verified, job, late>>

(***************************************************************************)
(* Time, and the erasure of the account                                    *)
(***************************************************************************)

Expire(t) ==
    /\ token[t].state # "none" /\ ~token[t].expired
    /\ token' = [token EXCEPT ![t].expired = TRUE]
    /\ UNCHANGED <<erased, verified, password, hasPassword, job, stale, late>>

\* changePassword.
ChangePassword ==
    /\ ~erased /\ hasPassword
    /\ password' = None
    /\ UNCHANGED <<erased, verified, hasPassword, token, job, stale, late>>

\* What the user has got stays with the user; the rows are gone.
TokensDeleted == [t \in Tokens |-> [token[t] EXCEPT !.state = "none"]]

\* runFinalizeAccountDeletionTx deletes the credential and the tokens.
Erase ==
    /\ ~erased
    /\ erased' = TRUE
    /\ verified' = FALSE
    /\ password' = None
    /\ hasPassword' = FALSE
    /\ token' = TokensDeleted
    /\ UNCHANGED <<job, stale, late>>

Work(i) ==
    \/ ReadUser(i)
    \/ \E t \in Tokens : InsertToken(i, t)
    \/ SendEmail(i) \/ Complete(i) \/ JobFails(i)

Next ==
    \/ \E i \in Jobs : \/ \E kind \in Kinds : Enqueue(kind, i)
                       \/ Work(i)
    \/ \E t \in Tokens : Verify(t) \/ Reset(t) \/ Expire(t)
    \/ ChangePassword \/ Erase

\* The user registered with a password, or by OIDC with an address that is verified.
Init ==
    /\ erased = FALSE
    /\ hasPassword \in BOOLEAN
    /\ verified = ~hasPassword
    /\ password = None
    /\ token = [t \in Tokens |-> NoToken]
    /\ job = [i \in Jobs |-> NoJob]
    /\ stale = {}
    /\ late = {}

Spec == Init /\ [][Next]_vars

-----------------------------------------------------------------------------
(***************************************************************************)
(* Properties.                                                             *)
(***************************************************************************)

\* Every variable has its type.
TypeOK ==
    /\ erased \in BOOLEAN /\ verified \in BOOLEAN /\ hasPassword \in BOOLEAN
    /\ password \in Tokens \cup {None}
    /\ token \in [Tokens -> Token]
    /\ job \in [Jobs -> Job]
    /\ stale \subseteq Tokens /\ late \subseteq Tokens

\* A successful reset leaves none of the reset tokens that had been issued usable, in
\* however many mails of however many requests and retries they went out.
ResetEndsOlderTokens == \A t \in stale : token[t].state # "fresh"

\* An erased account has no password, no verified address and no token, unless a job
\* that was under way issued a token after the erasure.
ErasedKeepsNothing ==
    erased /\ late = {} =>
        ~hasPassword /\ ~verified /\ \A t \in Tokens : token[t].state = "none"
=============================================================================

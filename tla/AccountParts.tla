----------------------------- MODULE AccountParts -----------------------------
(***************************************************************************)
(* The parts that keep what belongs to an account, or guard it:            *)
(* Identities, OneTimeTokens, PushTokens and RateLimits.  They share no    *)
(* state, so a behaviour is one of one part, chosen at the start, and a    *)
(* property of a part is a property of the sum.                            *)
(***************************************************************************)
EXTENDS Identities, FiniteSets

CONSTANTS
    Tokens, Jobs, JobAttempts,                              \* OneTimeTokens
    Sessions, PushTokens, Registrations, Sends, TxAttempts, \* PushTokens
    Attempts, MaxAttempts, MaxCount                         \* RateLimits

ASSUME NoneIsNoToken == None \notin Tokens \cup {"verify", "reset"}
ASSUME AttemptsAreAllowed == {JobAttempts, TxAttempts, MaxAttempts} \subseteq Nat \ {0}
ASSUME CountsReachTheLimit ==
           /\ IsFiniteSet(Attempts)
           /\ MaxCount \in Nat /\ MaxCount >= MaxAttempts + Cardinality(Attempts)

VARIABLES
    part,
    erased, verified, password, hasPassword, token, job, stale, issuedLate,  \* OneTimeTokens
    session, registration, send, dead,                                       \* PushTokens
    limiter, counter, block, cooldown, limited, orphaned, loose              \* RateLimits

mails == INSTANCE OneTimeTokens WITH MaxAttempts <- JobAttempts, late <- issuedLate

pushes == INSTANCE PushTokens WITH
              Requests <- Registrations, MaxAttempts <- TxAttempts, req <- registration

limits == INSTANCE RateLimits WITH Procs <- Attempts, req <- limited

\* A part that is not chosen starts in one way.
SumInit ==
    /\ part \in {"identities", "mails", "pushes", "limits"}
    /\ Init /\ mails!Init /\ pushes!Init /\ limits!Init
    /\ part # "mails" => hasPassword
    /\ part # "limits" => limiter = "login"

IdentitiesStay == UNCHANGED <<account, identity, req, proven, late>>

MailsStay ==
    UNCHANGED <<erased, verified, password, hasPassword, token, job, stale, issuedLate>>

PushesStay == UNCHANGED <<session, registration, send, dead>>

LimitsStay == UNCHANGED <<limiter, counter, block, cooldown, limited, orphaned, loose>>

SumNext ==
    /\ UNCHANGED part
    /\ \/ part = "identities" /\ Next /\ MailsStay /\ PushesStay /\ LimitsStay
       \/ part = "mails" /\ mails!Next /\ IdentitiesStay /\ PushesStay /\ LimitsStay
       \/ part = "pushes" /\ pushes!Next /\ IdentitiesStay /\ MailsStay /\ LimitsStay
       \/ part = "limits" /\ limits!Next /\ IdentitiesStay /\ MailsStay /\ PushesStay

sumVars == <<part, account, identity, req, proven, late,
             erased, verified, password, hasPassword, token, job, stale, issuedLate,
             session, registration, send, dead,
             limiter, counter, block, cooldown, limited, orphaned, loose>>

SumSpec == SumInit /\ [][SumNext]_sumVars

-----------------------------------------------------------------------------
(* The type invariants, and the properties of the parts under their names. *)

\* Every variable of every part has its type.
TypesOK == TypeOK /\ mails!TypeOK /\ pushes!TypeOK /\ limits!TypeOK

\* An erased account keeps neither identity, nor password, nor token.
ErasureIsComplete == ErasedIsUnlinked /\ mails!ErasedKeepsNothing

\* A successful reset leaves no reset token usable that was issued before it.
ResetEndsOlderTokens == mails!ResetEndsOlderTokens

\* A push token is with one session at most, and never with a revoked or deleted one.
PushTokensArePlaced == pushes!OneSessionPerToken /\ pushes!RevokedHasNoToken

\* Only its own client, the provider or another session takes a live session's push token.
LiveSessionKeepsToken == pushes!LiveSessionKeepsToken

\* No limiter counts for ever, unless a request was cut short just then.
CountersExpire == limits!CountersExpire

\* Concurrent attempts overshoot a limit by less than their number.
OvershootIsBounded == limits!OvershootIsBounded
=============================================================================

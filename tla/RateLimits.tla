------------------------------ MODULE RateLimits ------------------------------
(***************************************************************************)
(* The Redis rate limiters.  The login limiter counts failed passwords for *)
(* an address and for an IP, the upload limiter counts requests for a user *)
(* and for an IP, the mail limiters (password reset, verification email)   *)
(* count requests for an IP and let one mail through per cooldown of the   *)
(* address or user.  Their keys are distinct, so a behaviour is about one  *)
(* of them.  A step is one Redis command, with the code up to the next.    *)
(***************************************************************************)
EXTENDS Naturals, FiniteSets

CONSTANTS
    Procs,        \* concurrent requests
    MaxAttempts,  \* of the configuration, at least 1
    MaxCount      \* bound, at least MaxAttempts + Cardinality(Procs): higher counts are
                  \* not told apart

VARIABLES
    limiter,   \* which one
    counter,   \* for each bucket the count and whether the key has an expiry
    block,     \* the buckets with a block key
    cooldown,  \* the cooldown key of the mail limiters
    req,       \* the local state of each request
    orphaned,  \* history: a bump was cut short before its EXPIRE
    loose      \* history: buckets whose counter may outlive their block

vars == <<limiter, counter, block, cooldown, req, orphaned, loose>>

\* own: the address or the user.
Buckets == {"own", "ip"}

Counter == [n : 0 .. MaxCount, expires : BOOLEAN]

NoCounter == [n |-> 0, expires |-> FALSE]

\* left: the block keys to read.  step: what a bump of the bucket does next.
Request == [pc : {"idle", "check", "password", "bump"}, buckets : SUBSET Buckets,
            left : SUBSET Buckets, refused : BOOLEAN,
            step : [Buckets -> {"no", "incr", "expire", "block", "cooldown"}]]

NoSteps == [b \in Buckets |-> "no"]

IdleRequest == [pc |-> "idle", buckets |-> {}, left |-> {}, refused |-> FALSE, step |-> NoSteps]

Becomes(p, r) == req' = [req EXCEPT ![p] = r]

\* The mail limiters bump the IP only; the cooldown of the address comes last.
Bumping(r) ==
    [r EXCEPT !.pc = "bump", !.left = {},
              !.step = [b \in Buckets |->
                  CASE b \notin r.buckets -> "no"
                    [] b \in r.buckets /\ b = "own" /\ limiter = "mail" -> "cooldown"
                    [] b \in r.buckets /\ (b # "own" \/ limiter # "mail") -> "incr"]]

\* A request whose last step is done is over.
Done(r) == IF r.pc = "bump" /\ r.step = NoSteps THEN IdleRequest ELSE r

(***************************************************************************)
(* assertAllowed                                                           *)
(***************************************************************************)

\* A request without an IP, or for another address or user, meets one bucket only.
Attempt(p, bs) ==
    LET r == [IdleRequest EXCEPT !.pc = "check", !.buckets = bs,
                                 !.left = IF limiter = "mail" THEN bs \ {"own"} ELSE bs]
    IN  /\ req[p].pc = "idle"
        /\ Becomes(p, IF r.left = {} THEN Bumping(r) ELSE r)
        /\ UNCHANGED <<limiter, counter, block, cooldown, orphaned, loose>>

Passed(r) ==
    IF r.refused THEN IdleRequest
    ELSE IF limiter = "login" THEN [r EXCEPT !.pc = "password"] ELSE Bumping(r)

\* GET of a block key, the own one first; both are read before the request is refused.
GetBlock(p, b) ==
    LET r == [req[p] EXCEPT !.left = @ \ {b}, !.refused = @ \/ b \in block]
    IN  /\ req[p].pc = "check" /\ b \in req[p].left
        /\ b = "ip" => "own" \notin req[p].left
        /\ Becomes(p, IF r.left = {} THEN Passed(r) ELSE r)
        /\ UNCHANGED <<limiter, counter, block, cooldown, orphaned, loose>>

(***************************************************************************)
(* recordFailure, recordSuccess and bump                                   *)
(***************************************************************************)

\* No such user, no password, or the wrong one: both buckets are bumped concurrently.
PasswordFails(p) ==
    /\ req[p].pc = "password"
    /\ Becomes(p, Bumping(req[p]))
    /\ UNCHANGED <<limiter, counter, block, cooldown, orphaned, loose>>

\* DEL of the counters; a block stays.
PasswordMatches(p) ==
    /\ req[p].pc = "password"
    /\ counter' = [b \in Buckets |-> IF b \in req[p].buckets THEN NoCounter ELSE counter[b]]
    /\ loose' = loose \ req[p].buckets
    /\ Becomes(p, IdleRequest)
    /\ UNCHANGED <<limiter, block, cooldown, orphaned>>

\* The other limiters bump one bucket after the other.
IsTurn(p, b) ==
    \/ limiter = "login"
    \/ limiter = "upload" /\ (b = "ip" => req[p].step["own"] = "no")
    \/ limiter = "mail" /\ (b = "own" => req[p].step["ip"] = "no")

OverLimit(n) == n > MaxAttempts

AtLimit(n) == n >= MaxAttempts

AfterFirst(n) == n = 2

SetsExpiry(n) == n = 1

\* INCR, which keeps the expiry there is.
Incr(p, b) ==
    LET n == counter[b].n + 1
    IN  /\ req[p].step[b] = "incr" /\ IsTurn(p, b)
        /\ counter' = [counter EXCEPT ![b].n = IF n > MaxCount THEN MaxCount ELSE n]
        /\ Becomes(p, Done([req[p] EXCEPT !.step[b] =
               IF SetsExpiry(n) THEN "expire" ELSE IF AtLimit(n) THEN "block" ELSE "no"]))
        /\ UNCHANGED <<limiter, block, cooldown, orphaned, loose>>

\* EXPIRE, of whatever is at the key by now.
ExpireCounter(p, b) ==
    /\ req[p].step[b] = "expire"
    /\ counter' = [counter EXCEPT ![b].expires = @ \/ counter[b].n > 0]
    /\ loose' = IF b \in block THEN loose \cup {b} ELSE loose
    /\ Becomes(p, Done([req[p] EXCEPT !.step[b] = IF AtLimit(1) THEN "block" ELSE "no"]))
    /\ UNCHANGED <<limiter, block, cooldown, orphaned>>

\* SET with EX.
SetBlock(p, b) ==
    /\ req[p].step[b] = "block"
    /\ block' = block \cup {b}
    /\ Becomes(p, Done([req[p] EXCEPT !.step[b] = "no"]))
    /\ UNCHANGED <<limiter, counter, cooldown, orphaned, loose>>

\* SET with EX and NX: OK, or refused because the key is there.
SetCooldown(p) ==
    /\ req[p].step["own"] = "cooldown" /\ IsTurn(p, "own")
    /\ cooldown' = TRUE
    /\ Becomes(p, IdleRequest)
    /\ UNCHANGED <<limiter, counter, block, orphaned, loose>>

\* A command fails or the process dies.  A failed bump of the login limiter does not stop
\* the other one.
Cut(p, bs) ==
    /\ req[p].pc # "idle" /\ (bs # Buckets => limiter = "login" /\ req[p].pc = "bump")
    /\ orphaned' = orphaned \cup {b \in bs : req[p].step[b] = "expire"}
    /\ loose' = loose \cup {b \in bs : req[p].step[b] \in {"expire", "block"}}
    /\ Becomes(p, IF bs = Buckets THEN IdleRequest
                  ELSE Done([req[p] EXCEPT !.step = [b \in Buckets |->
                                IF b \in bs THEN "no" ELSE req[p].step[b]]]))
    /\ UNCHANGED <<limiter, counter, block, cooldown>>

(***************************************************************************)
(* Time                                                                    *)
(***************************************************************************)

WindowEnds(b) ==
    /\ counter[b].n > 0 /\ counter[b].expires
    /\ counter' = [counter EXCEPT ![b] = NoCounter]
    /\ loose' = loose \ {b}
    /\ UNCHANGED <<limiter, block, cooldown, req, orphaned>>

\* By default a block lasts longer than the window, except for the uploads of a user:
\* the counter outlives the block only if its EXPIRE came late or not at all.
BlockEnds(b) ==
    /\ b \in block
    /\ \/ counter[b].n = 0 \/ ~counter[b].expires \/ b \in loose
       \/ limiter = "upload" /\ b = "own"
    /\ block' = block \ {b}
    /\ loose' = IF counter[b].n = 0 THEN loose ELSE loose \cup {b}
    /\ UNCHANGED <<limiter, counter, cooldown, req, orphaned>>

CooldownEnds ==
    /\ cooldown
    /\ cooldown' = FALSE
    /\ UNCHANGED <<limiter, counter, block, req, orphaned, loose>>

Proceed(p) ==
    \/ \E bs \in SUBSET Buckets \ {{}} : Attempt(p, bs) \/ Cut(p, bs)
    \/ \E b \in Buckets : \/ GetBlock(p, b) \/ Incr(p, b)
                          \/ ExpireCounter(p, b) \/ SetBlock(p, b)
    \/ PasswordFails(p) \/ PasswordMatches(p) \/ SetCooldown(p)

Next ==
    \/ \E p \in Procs : Proceed(p)
    \/ \E b \in Buckets : WindowEnds(b) \/ BlockEnds(b)
    \/ CooldownEnds

Init ==
    /\ limiter \in {"login", "upload", "mail"}
    /\ counter = [b \in Buckets |-> NoCounter]
    /\ block = {}
    /\ cooldown = FALSE
    /\ req = [p \in Procs |-> IdleRequest]
    /\ orphaned = {}
    /\ loose = {}

Spec == Init /\ [][Next]_vars

-----------------------------------------------------------------------------
(***************************************************************************)
(* Properties.                                                             *)
(***************************************************************************)

\* Every variable has its type.
TypeOK ==
    /\ limiter \in {"login", "upload", "mail"}
    /\ counter \in [Buckets -> Counter]
    /\ block \subseteq Buckets
    /\ cooldown \in BOOLEAN
    /\ req \in [Procs -> Request]
    /\ orphaned \cup loose \subseteq Buckets

\* No count is kept for ever, although INCR and EXPIRE are two commands and a success may
\* delete the counter between them: a counter without expiry is about to get one, unless
\* a request was cut short just there.
CountersExpire ==
    \A b \in Buckets \ orphaned :
        counter[b].n > 0 /\ ~counter[b].expires => \E p \in Procs : req[p].step[b] = "expire"

\* Attempts that all passed the check before the block was set overshoot the limit by
\* less than their number.
OvershootIsBounded ==
    \A b \in Buckets \ loose : counter[b].n < MaxAttempts + Cardinality(Procs)
=============================================================================

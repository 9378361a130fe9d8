--------------------------- MODULE IdempotentWrite ---------------------------
(***************************************************************************)
(* What an Idempotency-Key promises: of all the calls that carry the key   *)
(* at most one is applied, and a call succeeds only if a call with its     *)
(* payload has been applied.  Any call may be refused, or never answered.  *)
(***************************************************************************)
CONSTANTS Calls, Payloads, None

VARIABLES
    payload,  \* what each call asks for, once it has arrived
    applied,  \* the calls whose mutation was carried out
    answer    \* of each call: "none", "success" or "refused"

vars == <<payload, applied, answer>>

Arrive(c, h) ==
    /\ payload[c] = None
    /\ payload' = [payload EXCEPT ![c] = h]
    /\ UNCHANGED <<applied, answer>>

Apply(c) ==
    /\ payload[c] # None
    /\ applied = {}
    /\ applied' = {c}
    /\ UNCHANGED <<payload, answer>>

Succeed(c) ==
    /\ answer[c] = "none"
    /\ \E a \in applied : payload[a] = payload[c]
    /\ answer' = [answer EXCEPT ![c] = "success"]
    /\ UNCHANGED <<payload, applied>>

Refuse(c) ==
    /\ answer[c] = "none"
    /\ answer' = [answer EXCEPT ![c] = "refused"]
    /\ UNCHANGED <<payload, applied>>

Next == \E c \in Calls : \/ \E h \in Payloads : Arrive(c, h)
                         \/ Apply(c)
                         \/ Succeed(c)
                         \/ Refuse(c)

Init ==
    /\ payload = [c \in Calls |-> None]
    /\ applied = {}
    /\ answer = [c \in Calls |-> "none"]

Spec == Init /\ [][Next]_vars
=============================================================================

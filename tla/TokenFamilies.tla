---------------------------- MODULE TokenFamilies ----------------------------
(***************************************************************************)
(* What refresh-token rotation promises: a session is a family of tokens   *)
(* of which at most one, the tip, can be exchanged; an exchange moves the  *)
(* tip to a token that never existed before; a dead family stays dead and  *)
(* exchanges nothing.                                                      *)
(***************************************************************************)
CONSTANTS Families, Tokens

VARIABLES
    state,   \* of each family
    tip,     \* the exchangeable token of each family (a set of at most one)
    issued   \* the tokens each family was ever given

vars == <<state, tip, issued>>

IsNew(t) == \A f \in Families : t \notin issued[f]

\* A login opens a family...
Open(f) ==
    /\ state[f] = "none"
    /\ state' = [state EXCEPT ![f] = "alive"]
    /\ UNCHANGED <<tip, issued>>

\* ...and issues its first token, once.
Issue(f, t) ==
    /\ state[f] = "alive"
    /\ issued[f] = {} /\ IsNew(t)
    /\ issued' = [issued EXCEPT ![f] = {t}]
    /\ tip' = [tip EXCEPT ![f] = {t}]
    /\ state' = state

\* A token issued by a request that was under way when its family was killed can
\* never be exchanged.
Straggle(f, t) ==
    /\ state[f] = "dead"
    /\ IsNew(t)
    /\ issued' = [issued EXCEPT ![f] = @ \cup {t}]
    /\ UNCHANGED <<state, tip>>

Exchange(f, t, n) ==
    /\ state[f] = "alive"
    /\ tip[f] = {t}
    /\ IsNew(n)
    /\ issued' = [issued EXCEPT ![f] = @ \cup {n}]
    /\ tip' = [tip EXCEPT ![f] = {n}]
    /\ state' = state

\* Logout, reuse of an old token, password reset, suspension... end the families
\* F.  Families S, opened while that was running, may lose their tip only.
Kill(F, S) ==
    /\ \A f \in F \cup S : state[f] = "alive"
    /\ state' = [f \in Families |-> IF f \in F THEN "dead" ELSE state[f]]
    /\ tip' = [f \in Families |-> IF f \in F \cup S THEN {} ELSE tip[f]]
    /\ issued' = issued

Next ==
    \/ \E f \in Families : Open(f)
    \/ \E f \in Families, t \in Tokens : Issue(f, t) \/ Straggle(f, t)
    \/ \E f \in Families, t, n \in Tokens : Exchange(f, t, n)
    \/ \E F, S \in SUBSET Families : Kill(F, S)

Init ==
    /\ state = [f \in Families |-> "none"]
    /\ tip = [f \in Families |-> {}]
    /\ issued = [f \in Families |-> {}]

Spec == Init /\ [][Next]_vars
=============================================================================

------------------------------ MODULE MCAccounts ------------------------------
(* A finite instance of AccountParts, for TLC. *)
EXTENDS AccountParts, TLC

Symmetric ==
    Permutations(Users) \cup Permutations(Emails) \cup Permutations(Subjects)
    \cup Permutations(Procs)

\* Requests overlap while no account is suspended and no bump has been cut short; one mark
\* in the history of the limiters is enough.
Bounded ==
    /\ Cardinality(orphaned \cup loose) <= 1
    /\ (\A p \in Attempts : limited[p].pc # "idle") => orphaned = {}
    /\ (\A p \in Procs : req[p].pc # "idle") => \A u \in Users : account[u].status # "SUSPENDED"
=============================================================================

--------------------------- MODULE MCUserLifecycle ---------------------------
(* Finite instances of UserLifecycle for TLC. *)
EXTENDS UserLifecycle, TLC

\* Users and transactions are interchangeable.
Symmetric == Permutations(Users) \cup Permutations(Procs)

\* Operations that take an active admin away, and none that makes one.
ReducingOps == {"demote", "request", "finalize"}

\* For the run about the deletion alone.
DeletionOps == {"request", "cancel", "finalize"}
=============================================================================

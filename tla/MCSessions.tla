------------------------------ MODULE MCSessions ------------------------------
(* Finite instances of Sessions for TLC. *)
EXTENDS Sessions, TLC

Symmetric == Permutations(SessionIds) \cup Permutations(TokenIds) \cup Permutations(Procs)

\* For the runs that need only some requests to meet.
DeviceKinds == {"login", "refresh", "revoke"}
AccountKinds == AllKinds \ {"revoke"}
ResetKinds == {"login", "reset"}
=============================================================================

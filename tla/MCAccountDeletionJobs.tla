------------------------ MODULE MCAccountDeletionJobs ------------------------
(* A finite instance of AccountDeletionJobs for TLC. *)
EXTENDS AccountDeletionJobs

\* Where emails are sent, calls overlap as long as no run has failed or died.
Bounded ==
    \/ ~mailing
    \/ call[CHOOSE c \in Calls : TRUE].pc = "idle"
    \/ \A j \in Jobs : queue[j].attempts + queue[j].stalls = 0 /\ queue[j].state # "failed"
=============================================================================

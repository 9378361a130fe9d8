------------------------------ MODULE MCRequests ------------------------------
(* A finite instance of RequestParts, for TLC. *)
EXTENDS RequestParts, TLC

-----------------------------------------------------------------------------
(* The queries. *)

Asc(f) == [field |-> f, direction |-> "asc"]
Desc(f) == [field |-> f, direction |-> "desc"]

ListQuery(list, sort, filter) == [list |-> list, sort |-> sort, filter |-> filter]

Filter(field, op, values) == {[field |-> field, op |-> op, values |-> values]}

\* Sorts with and without the id, with ties on one field and on two.
SortedQueries ==
    {ListQuery("users", s, {}) : s \in
        {<<>>, <<Asc("email")>>, <<Desc("email"), Asc("createdAt")>>,
         <<Asc("createdAt"), Asc("id")>>, <<Desc("id")>>,
         <<Desc("createdAt"), Asc("email"), Desc("id")>>}}
    \cup {ListQuery("sessions", s, {}) : s \in
        {<<>>, <<Asc("createdAt")>>, <<Desc("createdAt"), Asc("id")>>}}

\* Each field and operator; some that the list does not allow.
FilteredQueries ==
    {ListQuery("users", <<>>, f) : f \in
        {Filter("role", "eq", {1}), Filter("role", "in", {1, 2}),
         Filter("emailVerified", "eq", {2}), Filter("emailVerified", "in", {1}),
         Filter("createdAt", "gte", {2}), Filter("createdAt", "lte", {1}),
         Filter("createdAt", "eq", {1}), Filter("email", "eq", {1})}}
    \cup {ListQuery("roleChanges", <<>>, f) : f \in
        {Filter("oldRole", "in", {1}), Filter("newRole", "eq", {2}),
         Filter("actorUserId", "eq", {1}), Filter("targetUserId", "eq", {1}),
         Filter("traceId", "eq", {2}), Filter("createdAt", "gte", {2})}}
    \cup {ListQuery("deletions", <<>>, f) : f \in
        {Filter("action", "in", {1, 2}), Filter("action", "eq", {2}),
         Filter("traceId", "gte", {1}), Filter("createdAt", "lte", {1})}}

AllQueries == SortedQueries \cup FilteredQueries

-----------------------------------------------------------------------------
(* Symmetry and bounds. *)

Symmetric == Permutations(Files) \cup Permutations(Procs)

Settled(k) == job[k].failed = 0 /\ job[k].state # "failed"

Running == {k \in DOMAIN job : job[k].state \in {"read", "object", "mark"}}

\* There is one worker, and a job fails only while the client makes no request, the user
\* is there, there is a queue and nothing has raced.  Two requests overlap while there is a
\* queue and the user is there, no upload plan is being made, and only a read meets a
\* request that enqueues.  When two requests have raced only the jobs go on.
ImagesBounded ==
    /\ Cardinality(Running) <= 1
    /\ \/ \A k \in DOMAIN job : Settled(k)
       \/ queueing /\ ~gone /\ ~raced /\ \A p \in Procs : req[p].pc = "idle"
    /\ raced => \A p \in Procs : req[p].pc = "idle"
    /\ (\A p \in Procs : req[p].pc # "idle") =>
           /\ queueing /\ ~gone
           /\ \A p \in Procs : req[p].pc # "schedule"
           /\ (\E p \in Procs : req[p].pc = "enqueue") => \E p \in Procs : req[p].pc = "file"

\* What a query does not look at does not vary.
RowsVary ==
    /\ query.filter = {} => \A r \in rows : r.other = 1
    /\ \/ query.list # "users"
       \/ query.filter # {} /\ query.filter # Filter("email", "eq", {1})
       => \A r \in rows : r.email = 1

Bounded == ImagesBounded /\ RowsVary
=============================================================================

----------------------------- MODULE ListQueries -----------------------------
(***************************************************************************)
(* The paged lists (users, the two kinds of audit rows, the sessions of a  *)
(* user): the sort, filter and cursor of a request, the query they become, *)
(* and a client that pages to the end while rows come, change and go.      *)
(***************************************************************************)
EXTENDS Naturals, Sequences, FiniteSets

CONSTANTS
    Ids,      \* row ids, numbers in their order
    Values,   \* of the other columns, numbers
    Queries,  \* what clients ask for: list, sort and filter
    MaxLimit  \* bound on the page size

VARIABLES
    rows,    \* the table
    query,   \* the client's query
    cursor,  \* the next cursor the client has got
    seen,    \* the rows listed so far
    again,   \* history: rows listed more than once
    touched, \* history: rows inserted, changed or deleted since the first page
    state    \* of the paging: "start", "more", "end"

vars == <<rows, query, cursor, seen, again, touched, state>>

Columns == {"createdAt", "email", "id"}

\* other: the column that a filter on another field looks at.
Row == [id : Ids, createdAt : Values, email : Values, other : Values]

Asc(f) == [field |-> f, direction |-> "asc"]
Desc(f) == [field |-> f, direction |-> "desc"]

\* The options of the controllers.
SortFields(list) == IF list = "users" THEN Columns ELSE {"createdAt", "id"}

DefaultSort == <<Desc("createdAt")>>

TieBreaker(list) == IF list = "users" THEN Asc("id") ELSE Desc("id")

FilterOps ==
    [users |-> [role |-> {"eq", "in"}, emailVerified |-> {"eq"},
                createdAt |-> {"gte", "lte"}, email |-> {"eq"}],
     roleChanges |-> [actorUserId |-> {"eq"}, targetUserId |-> {"eq"},
                      oldRole |-> {"eq", "in"}, newRole |-> {"eq", "in"},
                      createdAt |-> {"gte", "lte"}, traceId |-> {"eq"}],
     deletions |-> [actorUserId |-> {"eq"}, targetUserId |-> {"eq"},
                    action |-> {"eq", "in"}, createdAt |-> {"gte", "lte"},
                    traceId |-> {"eq"}],
     sessions |-> <<>>]

FieldsOf(sort) == {sort[i].field : i \in 1 .. Len(sort)}

(***************************************************************************)
(* parseSort, parseFilters and decodeCursorV1                              *)
(***************************************************************************)

MaxSortFields == 3

SortAccepted(list, raw) ==
    /\ FieldsOf(raw) \subseteq SortFields(list)
    /\ Cardinality(FieldsOf(raw)) = Len(raw)
    /\ Len(raw) <= MaxSortFields

NoTieBreaker(list, raw) == IF raw = <<>> THEN DefaultSort ELSE raw

ParsedSort(list, raw) ==
    LET base == IF raw = <<>> THEN DefaultSort ELSE raw
    IN  IF TieBreaker(list).field \in FieldsOf(base) THEN base
        ELSE Append(base, TieBreaker(list))

FiltersAccepted(list, filter) ==
    \A f \in filter : f.field \in DOMAIN FilterOps[list] /\ f.op \in FilterOps[list][f.field]

\* The cursor repeats the sort that it was made for, and has each of its fields.
CursorAccepted(c, sort) == c.sort = sort /\ FieldsOf(sort) \subseteq DOMAIN c.after

(***************************************************************************)
(* The query                                                               *)
(***************************************************************************)

Compares(spec, a, b) ==
    IF spec.direction = "asc" THEN a[spec.field] > b[spec.field] ELSE a[spec.field] < b[spec.field]

\* buildCursorAfterWhere.
AfterCursor(sort, after, row) ==
    \E i \in 1 .. Len(sort) :
        /\ \A j \in 1 .. i - 1 : row[sort[j].field] = after[sort[j].field]
        /\ Compares(sort[i], row, after)

\* What the filter asks for.
Meets(f, row) ==
    LET value == IF f.field \in Columns THEN row[f.field] ELSE row.other
    IN  CASE f.op \in {"eq", "in"} -> value \in f.values
          [] f.op = "gte" -> \A v \in f.values : value >= v
          [] f.op = "lte" -> \A v \in f.values : value <= v

\* mapUsersFilters and its kin pass over a filter they have no case for.
IsMapped(f) ==
    \/ f.op \in {"eq", "in"} /\ f.field \in {"role", "oldRole", "newRole", "action"}
    \/ f.op = "eq" /\ f.field \in {"emailVerified", "email", "actorUserId", "targetUserId",
                                   "traceId"}
    \/ f.op \in {"gte", "lte"} /\ f.field = "createdAt"

Where(filter, row) == \A f \in filter : IsMapped(f) => Meets(f, row)

\* ORDER BY: the first field in which two rows differ decides.  Rows that do not differ in
\* any come in the order of their ids, say.
Precedes(sort, a, b) ==
    LET differ == {i \in 1 .. Len(sort) : a[sort[i].field] # b[sort[i].field]}
    IN  IF differ = {} THEN a.id < b.id
        ELSE \E i \in differ : (\A j \in differ : i <= j) /\ Compares(sort[i], b, a)

\* findMany with take = limit + 1, of which the last is only looked for.
Page(sort, limit, S) == {r \in S : Cardinality({q \in S : Precedes(sort, q, r)}) < limit}

LastOf(sort, S) == CHOOSE r \in S : \A q \in S \ {r} : Precedes(sort, q, r)

(***************************************************************************)
(* The requests of a client                                                *)
(***************************************************************************)

HasMore(S, limit) == Cardinality(S) > limit

\* raw: the sort as it is spelled in this request.
List(raw, limit, found) ==
    LET sort == ParsedSort(query.list, raw)
        page == Page(sort, limit, found)
        last == LastOf(sort, page)
        ids == {r.id : r \in page}
    IN  /\ seen' = seen \cup ids
        /\ again' = again \cup (seen \cap ids)
        /\ IF HasMore(found, limit)
           THEN /\ cursor' = [sort |-> sort, after |-> [f \in FieldsOf(sort) |-> last[f]]]
                /\ state' = "more"
           ELSE cursor' = [sort |-> sort, after |-> <<>>] /\ state' = "end"
        /\ UNCHANGED <<rows, query, touched>>

FirstPage(limit) ==
    /\ state = "start"
    /\ SortAccepted(query.list, query.sort) /\ FiltersAccepted(query.list, query.filter)
    /\ List(query.sort, limit, {r \in rows : Where(query.filter, r)})

\* The sort may be spelled in another way, and with another one the request is refused.
NextPage(raw, limit) ==
    LET sort == ParsedSort(query.list, raw)
    IN  /\ state = "more"
        /\ SortAccepted(query.list, raw) /\ CursorAccepted(cursor, sort)
        /\ List(raw, limit, {r \in rows : /\ Where(query.filter, r)
                                          /\ AfterCursor(sort, cursor.after, r)})

(***************************************************************************)
(* Changes in between                                                      *)
(***************************************************************************)

\* Each row changes once at most while a client pages.
Changes(i) == state = "more" /\ i \notin touched /\ touched' = touched \cup {i}

Insert(r) ==
    /\ Changes(r.id) /\ \A q \in rows : q.id # r.id
    /\ rows' = rows \cup {r}
    /\ UNCHANGED <<query, cursor, seen, again, state>>

\* A user's address is scrubbed, its role or status changes.
Update(q, r) ==
    /\ Changes(q.id) /\ query.list = "users"
    /\ r.id = q.id /\ r.createdAt = q.createdAt /\ r # q
    /\ rows' = (rows \ {q}) \cup {r}
    /\ UNCHANGED <<query, cursor, seen, again, state>>

\* The finalizer deletes sessions; the other rows stay.
Delete(q) ==
    /\ Changes(q.id) /\ query.list = "sessions"
    /\ rows' = rows \ {q}
    /\ UNCHANGED <<query, cursor, seen, again, state>>

Next ==
    \/ \E limit \in 1 .. MaxLimit :
          \/ FirstPage(limit)
          \/ \E raw \in {q.sort : q \in Queries} : NextPage(raw, limit)
    \/ \E r \in Row : Insert(r)
    \/ \E q \in rows : Delete(q) \/ \E r \in Row : Update(q, r)

Init ==
    /\ \E D \in SUBSET Ids : \E t \in [D -> Values \X Values \X Values] :
          rows = {[id |-> i, createdAt |-> t[i][1], email |-> t[i][2], other |-> t[i][3]] : i \in D}
    /\ query \in Queries
    /\ cursor = [sort |-> <<>>, after |-> <<>>]
    /\ seen = {}
    /\ again = {}
    /\ touched = {}
    /\ state = "start"

Spec == Init /\ [][Next]_vars

-----------------------------------------------------------------------------
(***************************************************************************)
(* Properties.                                                             *)
(***************************************************************************)

\* Every variable has its type.
TypeOK ==
    /\ rows \subseteq Row
    /\ query \in Queries
    /\ cursor.sort \in Seq([field : Columns, direction : {"asc", "desc"}])
    /\ DOMAIN cursor.after \subseteq Columns
    /\ seen \cup again \cup touched \subseteq Ids
    /\ state \in {"start", "more", "end"}

\* Whatever comes and goes while a client pages, and however rows tie on the sort fields, a
\* row that stays as it is is listed once: not twice, and not never.
UnchangedRowsAreListedOnce ==
    /\ again \subseteq touched
    /\ state = "end" =>
         \A r \in rows : r.id \notin touched /\ (\A f \in query.filter : Meets(f, r))
                         => r.id \in seen

\* A filter that the request's allowlist accepts is applied: no unchanged row is listed
\* that does not meet it.
AcceptedFiltersApply ==
    \A r \in rows : r.id \in seen \ touched => \A f \in query.filter : Meets(f, r)
=============================================================================

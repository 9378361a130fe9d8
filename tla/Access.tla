-------------------------------- MODULE Access --------------------------------
(***************************************************************************)
(* Who may do what: the key ring each API instance loads from its          *)
(* configuration, the access tokens signed with it, and the two guards     *)
(* (access token, permissions) of one user's requests.                     *)
(*                                                                         *)
(* The order in which the configuration changes is an assumption about the *)
(* operator, which nothing in the code enforces: each change reaches every *)
(* instance before the next one, a key is added behind the one that signs, *)
(* and a key goes when its tokens have expired.                            *)
(***************************************************************************)
EXTENDS Naturals, Sequences

CONSTANTS
    Instances,  \* API processes
    Kids,       \* key ids
    Tokens,     \* access tokens, issued or not
    Procs,      \* concurrent requests
    None

VARIABLES
    config,  \* AUTH_SIGNING_KEYS_JSON: the keys in their order
    ring,    \* what each instance has loaded
    user,    \* the user's row
    token,   \* each access token
    req      \* the local state of each request

vars == <<config, ring, user, token, req>>

Roles == {"USER", "ADMIN"}

\* Public-only keys cannot sign.  Items that are no keys are skipped, and not modelled.
Key == [kid : Kids, private : BOOLEAN]

Row == [role : Roles, status : {"ACTIVE", "SUSPENDED", "DELETED"}]

Token == [state : {"none", "valid", "expired"}, kid : Kids \cup {None}, role : Roles \cup {None}]

NoToken == [state |-> "none", kid |-> None, role |-> None]

\* What the routes of the admin controllers require besides admin:access.
AdminRoutes ==
    [whoami |-> {},
     users |-> {<<"users", "read">>},
     role |-> {<<"users", "role:write">>},
     status |-> {<<"users", "status:write">>},
     roleChanges |-> {<<"audit", "user-role-changes:read">>},
     deletions |-> {<<"audit", "user-account-deletions:read">>}]

Routes == {"own"} \cup DOMAIN AdminRoutes

\* was: history, what the user has been since the request came.
Request == [pc : {"idle", "sign", "verify", "hydrate", "permit"},
            at : Instances \cup {None}, token : Tokens \cup {None}, route : Routes \cup {None},
            roles : SUBSET Roles, was : SUBSET {"admin", "other"}]

Doing(pc, i) == [pc |-> pc, at |-> i, token |-> None, route |-> None, roles |-> {}, was |-> {}]

IdleRequest == Doing("idle", None)

\* An active admin, or not.
Standing(row) ==
    IF row.role = "ADMIN" /\ row.status = "ACTIVE" THEN "admin" ELSE "other"

Ends(p) == req' = [req EXCEPT ![p] = IdleRequest]

(***************************************************************************)
(* AuthKeyRing                                                             *)
(***************************************************************************)

LastPrivate(keys) ==
    LET private == {i \in DOMAIN keys : keys[i].private}
    IN  keys[CHOOSE i \in private : \A j \in private : i >= j].kid

\* The first private key signs.
SigningKey(keys) ==
    LET private == {i \in DOMAIN keys : keys[i].private}
    IN  keys[CHOOSE i \in private : \A j \in private : i <= j].kid

\* Every key of the list verifies.
PublicKeys(keys) == {keys[i].kid : i \in DOMAIN keys}

Deployed == \A i \in Instances : ring[i] = config

\* A restarted instance loads the configuration; its requests are gone.
Deploy(i) ==
    /\ ring[i] # config
    /\ ring' = [ring EXCEPT ![i] = config]
    /\ req' = [p \in Procs |-> IF req[p].at = i THEN IdleRequest ELSE req[p]]
    /\ UNCHANGED <<config, user, token>>

\* The operator's order: a new key is deployed behind the one that signs, and signs only
\* after that.  The code takes any list.
AddKey(k) ==
    /\ Deployed /\ Len(config) = 1 /\ k \notin PublicKeys(config)
    /\ config' = Append(config, [kid |-> k, private |-> TRUE])
    /\ UNCHANGED <<ring, user, token, req>>

\* The new key comes first; the old one's private part may go.
PromoteKey(keep) ==
    /\ Deployed /\ Len(config) = 2 /\ config[2].private
    /\ config' = <<config[2], [config[1] EXCEPT !.private = keep]>>
    /\ UNCHANGED <<ring, user, token, req>>

RemoveKey ==
    /\ Deployed /\ Len(config) = 2
    /\ \A t \in Tokens : token[t].state = "valid" => token[t].kid # config[2].kid
    /\ config' = <<config[1]>>
    /\ UNCHANGED <<ring, user, token, req>>

(***************************************************************************)
(* The tokens                                                              *)
(***************************************************************************)

\* A login or a refresh reads an active user...
Issue(p, i) ==
    /\ req[p].pc = "idle" /\ user.status = "ACTIVE"
    /\ req' = [req EXCEPT ![p] =
                 [Doing("sign", i) EXCEPT !.roles = {user.role}]]
    /\ UNCHANGED <<config, ring, user, token>>

\* ...and signs, some awaits later, for the role it read.
SignAccessToken(p, t) ==
    /\ req[p].pc = "sign" /\ token[t].state # "valid" /\ \A q \in Procs : req[q].token # t
    /\ \E role \in req[p].roles :
          token' = [token EXCEPT ![t] = [state |-> "valid", role |-> role,
                                         kid |-> SigningKey(ring[req[p].at])]]
    /\ Ends(p)
    /\ UNCHANGED <<config, ring, user>>

\* "exp" passes, on the clocks of all instances.
Expire(t) ==
    /\ token[t].state = "valid"
    /\ token' = [token EXCEPT ![t].state = "expired"]
    /\ UNCHANGED <<config, ring, user, req>>

(***************************************************************************)
(* The guards                                                              *)
(***************************************************************************)

Required(route) ==
    IF route = "own" THEN {} ELSE {<<"admin", "access">>} \cup AdminRoutes[route]

Permissions ==
    [USER |-> {},
     ADMIN |-> {<<"admin", "access">>, <<"users", "read">>, <<"users", "role:write">>,
                <<"users", "status:write">>, <<"audit", "user-role-changes:read">>,
                <<"audit", "user-account-deletions:read">>}]

PermissionMatches(granted, required) ==
    granted[1] \in {"*", required[1]} /\ granted[2] \in {"*", required[2]}

HasAllPermissions(granted, required) ==
    \A r \in required : \E g \in granted : PermissionMatches(g, r)

\* A request comes, with a token that was valid some time.
Arrive(p, i, t, route) ==
    /\ req[p].pc = "idle" /\ token[t].state # "none"
    /\ req' = [req EXCEPT ![p] =
                 [pc |-> "verify", at |-> i, token |-> t, route |-> route, roles |-> {},
                  was |-> {Standing(user)}]]
    /\ UNCHANGED <<config, ring, user, token>>

\* verifyAccessToken.
Verifies(p) ==
    LET t == token[req[p].token]
    IN  t.state = "valid" /\ t.kid \in PublicKeys(ring[req[p].at])

Unauthorized(p) ==
    /\ req[p].pc = "verify" /\ ~Verifies(p)
    /\ Ends(p)
    /\ UNCHANGED <<config, ring, user, token>>

NoDbRoles(route) == FALSE

\* All admin controllers are under /v1/admin.
UsesDbRoles(route) == route # "own"

\* A route that requires nothing is entered; others ask for the roles, of the row or of
\* the token.
Authenticate(p) ==
    /\ req[p].pc = "verify" /\ Verifies(p)
    /\ req' = [req EXCEPT ![p] =
         IF Required(@.route) = {} THEN IdleRequest
         ELSE IF UsesDbRoles(@.route) THEN [@ EXCEPT !.pc = "hydrate"]
         ELSE [@ EXCEPT !.pc = "permit", !.roles = {token[req[p].token].role}]]
    /\ UNCHANGED <<config, ring, user, token>>

\* hydrate: the roles of the token are replaced by the row's.
Hydrate(p) ==
    /\ req[p].pc = "hydrate" /\ user.status = "ACTIVE"
    /\ req' = [req EXCEPT ![p].pc = "permit", ![p].roles = {user.role}]
    /\ UNCHANGED <<config, ring, user, token>>

\* Suspended: 403; erased: 401.
RefuseUser(p) ==
    /\ req[p].pc = "hydrate" /\ user.status # "ACTIVE"
    /\ Ends(p)
    /\ UNCHANGED <<config, ring, user, token>>

Granted(p) == UNION {Permissions[r] : r \in req[p].roles}

Permit(p) ==
    /\ req[p].pc = "permit" /\ HasAllPermissions(Granted(p), Required(req[p].route))
    /\ Ends(p)
    /\ UNCHANGED <<config, ring, user, token>>

Forbid(p) ==
    /\ req[p].pc = "permit" /\ ~HasAllPermissions(Granted(p), Required(req[p].route))
    /\ Ends(p)
    /\ UNCHANGED <<config, ring, user, token>>

\* The database fails.
HydrateFails(p) ==
    /\ req[p].pc = "hydrate"
    /\ Ends(p)
    /\ UNCHANGED <<config, ring, user, token>>

\* Another admin, or the finalizer, changes the row (UserLifecycle).
ChangeUser(row) ==
    /\ user.status # "DELETED" /\ row # user
    /\ user' = row
    /\ req' = [p \in Procs |->
                 IF req[p].was = {} THEN req[p]
                 ELSE [req[p] EXCEPT !.was = @ \cup {Standing(row)}]]
    /\ UNCHANGED <<config, ring, token>>

Proceed(p) ==
    \/ \E i \in Instances : \/ Issue(p, i)
                            \/ \E t \in Tokens, route \in Routes : Arrive(p, i, t, route)
    \/ \E t \in Tokens : SignAccessToken(p, t)
    \/ Unauthorized(p) \/ Authenticate(p)
    \/ Hydrate(p) \/ RefuseUser(p) \/ HydrateFails(p) \/ Permit(p) \/ Forbid(p)

Next ==
    \/ \E i \in Instances : Deploy(i)
    \/ \E k \in Kids : AddKey(k)
    \/ \E keep \in BOOLEAN : PromoteKey(keep)
    \/ RemoveKey
    \/ \E p \in Procs : Proceed(p)
    \/ \E t \in Tokens : Expire(t)
    \/ \E row \in Row : ChangeUser(row)

Init ==
    /\ \E k \in Kids : config = <<[kid |-> k, private |-> TRUE]>>
    /\ ring = [i \in Instances |-> config]
    /\ user \in {row \in Row : row.status = "ACTIVE"}
    /\ token = [t \in Tokens |-> NoToken]
    /\ req = [p \in Procs |-> IdleRequest]

Spec == Init /\ [][Next]_vars

-----------------------------------------------------------------------------
(***************************************************************************)
(* Properties.                                                             *)
(***************************************************************************)

\* Every variable has its type.
TypeOK ==
    /\ config \in Seq(Key) /\ ring \in [Instances -> Seq(Key)]
    /\ user \in Row
    /\ token \in [Tokens -> Token]
    /\ req \in [Procs -> Request]

\* A token is refused only when it has expired.
RefusedHaveExpired ==
    \A p \in Procs : Unauthorized(p) => token[req[p].token].state = "expired"

\* Keys are rotated without breaking clients: while instances with the old and with the
\* new configuration serve side by side, each accepts every token that has not expired.
ValidTokensPass == [][RefusedHaveExpired]_vars

\* Who passes was an active admin, and who is turned away was not, at some moment since
\* the request came.
DecisionsAreTrue ==
    \A p \in Procs : /\ Permit(p) => "admin" \in req[p].was
                     /\ Forbid(p) \/ RefuseUser(p) => "other" \in req[p].was

\* The claims of a token count for nothing on an admin route, and the row does.
AdminRoutesFollowTheRow == [][DecisionsAreTrue]_vars
=============================================================================

---------------------------- MODULE AccessProofs ----------------------------
(* Proofs about Access, for any number of instances, keys, tokens and requests. *)
EXTENDS Access, TLAPS

-----------------------------------------------------------------------------
(* The key ring. *)

\* A list of keys that signs with its first key.
IsKeyList(keys) == keys \in Seq(Key) /\ Len(keys) \in {1, 2} /\ keys[1].private = TRUE

\* The lists that are in use.
Lists == {config} \cup {ring[i] : i \in Instances}

\* Whatever one list signs with, every list verifies.
KeysFit == \A a, b \in Lists : IsKeyList(a) /\ a[1].kid \in PublicKeys(b)

TokensFit ==
    \A t \in Tokens : token[t].state = "valid" => \A a \in Lists : token[t].kid \in PublicKeys(a)

\* A request that signs is somewhere; one that is being verified has a token.
Placed ==
    \A p \in Procs :
        /\ req[p].pc \in {"sign", "verify"} => req[p].at \in Instances
        /\ req[p].pc = "verify" => req[p].token \in Tokens /\ token[req[p].token].state # "none"

Types ==
    /\ ring = [i \in Instances |-> ring[i]]
    /\ user \in Row
    /\ token \in [Tokens -> Token]
    /\ req \in [Procs -> Request]

KeyInv == Types /\ KeysFit /\ TokensFit /\ Placed

\* The first key signs.
LEMMA FirstKeySigns == ASSUME NEW a, IsKeyList(a) PROVE SigningKey(a) = a[1].kid
<1> DEFINE private == {i \in DOMAIN a : a[i].private}
           First(i) == \A j \in private : i <= j
<1>1. DOMAIN a = 1 .. Len(a) /\ Len(a) \in Nat /\ 1 \in private /\ private \subseteq 1 .. Len(a)
  BY DEF IsKeyList
<1>2. First(1) /\ \A i \in private : First(i) => i = 1
  BY <1>1
<1>3. (CHOOSE i \in private : First(i)) = 1
  BY <1>1, <1>2
<1> QED
  BY <1>3 DEF SigningKey

\* What a list of one or two keys verifies.
LEMMA Verified ==
    ASSUME NEW a, IsKeyList(a)
    PROVE  /\ a[1] \in Key /\ a[1].kid \in PublicKeys(a)
           /\ Len(a) = 1 => PublicKeys(a) = {a[1].kid}
           /\ Len(a) = 2 => a[2] \in Key /\ PublicKeys(a) = {a[1].kid, a[2].kid}
<1>1. DOMAIN a = 1 .. Len(a) /\ \A i \in 1 .. Len(a) : a[i] \in Key
  BY DEF IsKeyList
<1>2. CASE Len(a) = 1
  <2>1. DOMAIN a = {1}
    BY <1>1, <1>2
  <2> QED
    BY <1>1, <1>2, <2>1 DEF PublicKeys
<1>3. CASE Len(a) = 2
  <2>1. DOMAIN a = {1, 2}
    BY <1>1, <1>3
  <2> QED
    BY <1>1, <1>3, <2>1 DEF PublicKeys
<1> QED
  BY <1>2, <1>3 DEF IsKeyList

\* A change of the configuration that is careful enough.
Careful ==
    /\ Deployed /\ UNCHANGED <<ring, token>> /\ IsKeyList(config')
    /\ config'[1].kid \in PublicKeys(config) /\ config[1].kid \in PublicKeys(config')
    /\ \A t \in Tokens : token[t].state = "valid" => token[t].kid \in PublicKeys(config')

LEMMA CarefulChanges == ASSUME KeyInv, Careful PROVE KeysFit' /\ TokensFit'
<1>1. /\ Lists = {config} /\ Lists' \subseteq {config, config'}
      /\ IsKeyList(config)
  BY DEF Careful, Deployed, Lists, KeyInv, KeysFit
<1>2. config[1].kid \in PublicKeys(config) /\ config'[1].kid \in PublicKeys(config')
  BY <1>1, Verified DEF Careful
<1>3. \A t \in Tokens : token[t].state = "valid" => token[t].kid \in PublicKeys(config)
  BY <1>1 DEF KeyInv, TokensFit
<1> QED
  BY <1>1, <1>2, <1>3 DEF Careful, KeysFit, TokensFit

\* A list with one more item.
LEMMA Appended ==
    ASSUME NEW S, NEW seq \in Seq(S), NEW elt \in S
    PROVE  /\ Append(seq, elt) \in Seq(S) /\ Len(Append(seq, elt)) = Len(seq) + 1
           /\ \A i \in 1 .. Len(seq) : Append(seq, elt)[i] = seq[i]
           /\ Append(seq, elt)[Len(seq) + 1] = elt
OBVIOUS

LEMMA SecondOf ==
    ASSUME NEW S, NEW seq \in Seq(S), NEW elt \in S, Len(seq) = 1
    PROVE  \E t \in Seq(S) : /\ t = Append(seq, elt) /\ Len(t) = 2
                             /\ t[1] = seq[1] /\ t[2] = elt
<1>1. PICK t \in Seq(S) : /\ t = Append(seq, elt) /\ Len(t) = Len(seq) + 1
                          /\ \A i \in 1 .. Len(seq) : t[i] = seq[i]
                          /\ t[Len(seq) + 1] = elt
  BY Appended, Zenon
<1> QED
  BY <1>1

LEMMA KeyChanges ==
    ASSUME KeyInv,
           (\E k \in Kids : AddKey(k)) \/ (\E keep \in BOOLEAN : PromoteKey(keep)) \/ RemoveKey
    PROVE  KeysFit' /\ TokensFit'
<1>1. config \in Lists /\ IsKeyList(config)
  BY DEF Lists, KeyInv, KeysFit
<1>2. \A t \in Tokens : token[t].state = "valid" => token[t].kid \in PublicKeys(config)
  BY <1>1 DEF KeyInv, TokensFit
<1>3. ASSUME NEW k \in Kids, AddKey(k) PROVE Careful
  <2> DEFINE key == [kid |-> k, private |-> TRUE]
  <2>1. /\ key \in Key /\ config' = Append(config, key) /\ Len(config) = 1
        /\ config \in Seq(Key) /\ key.kid = k
    BY <1>1, <1>3 DEF AddKey, Key, IsKeyList
  <2> HIDE DEF key
  <2>2. /\ config' \in Seq(Key) /\ Len(config') = 2
        /\ config'[1] = config[1] /\ config'[2] = key
    BY <2>1, SecondOf
  <2>3. IsKeyList(config')
    BY <1>1, <2>2 DEF IsKeyList
  <2>4. PublicKeys(config') = {config[1].kid, k} /\ PublicKeys(config) = {config[1].kid}
    BY <1>1, <2>1, <2>2, <2>3, Verified
  <2> QED
    BY <1>2, <1>3, <2>2, <2>3, <2>4 DEF AddKey, Careful
<1>4. ASSUME NEW keep \in BOOLEAN, PromoteKey(keep) PROVE Careful
  <2> DEFINE key == [config[1] EXCEPT !.private = keep]
  <2>1. /\ config[1] \in Key /\ config[2] \in Key /\ Len(config) = 2
        /\ PublicKeys(config) = {config[1].kid, config[2].kid}
    BY <1>1, <1>4, Verified DEF PromoteKey
  <2>2. key \in Key /\ key.kid = config[1].kid
    BY <2>1 DEF Key
  <2>3. config[2].private = TRUE
    BY <1>4, <2>1 DEF PromoteKey, Key
  <2>4. config' = <<config[2], key>>
    BY <1>4 DEF PromoteKey
  <2>5. /\ config' \in Seq(Key) /\ Len(config') = 2
        /\ config'[1] = config[2] /\ config'[2] = key
    BY <2>1, <2>2, <2>4
  <2>6. IsKeyList(config')
    BY <2>3, <2>5 DEF IsKeyList
  <2>7. PublicKeys(config') = {config[2].kid, config[1].kid}
    BY <2>2, <2>5, <2>6, Verified
  <2> QED
    BY <1>2, <1>4, <2>1, <2>5, <2>6, <2>7 DEF PromoteKey, Careful
<1>5. ASSUME RemoveKey PROVE Careful
  <2>1. /\ config[1] \in Key /\ PublicKeys(config) = {config[1].kid, config[2].kid}
        /\ config' = <<config[1]>>
    BY <1>1, <1>5, Verified DEF RemoveKey
  <2>2. config' \in Seq(Key) /\ Len(config') = 1 /\ config'[1] = config[1]
    BY <2>1
  <2>3. IsKeyList(config')
    BY <1>1, <2>2 DEF IsKeyList
  <2>4. PublicKeys(config') = {config[1].kid}
    BY <2>2, <2>3, Verified
  <2>5. \A t \in Tokens : token[t].state = "valid" => token[t].kid = config[1].kid
    BY <1>2, <1>5, <2>1 DEF RemoveKey
  <2> QED
    BY <1>5, <2>1, <2>2, <2>3, <2>4, <2>5 DEF RemoveKey, Careful
<1> QED
  BY <1>3, <1>4, <1>5, CarefulChanges

-----------------------------------------------------------------------------
(* The steps that leave the configuration alone. *)

\* The state of a request that is not, or not yet, about a token.
LEMMA Records ==
    /\ IdleRequest \in Request /\ IdleRequest.pc = "idle" /\ IdleRequest.was = {}
    /\ \A p \in Procs : Ends(p) => req' = [req EXCEPT ![p] = IdleRequest]
BY DEF IdleRequest, Doing, Request, Ends

LEMMA KeyInit == ASSUME Init PROVE KeyInv
<1>1. PICK k \in Kids : config = <<[kid |-> k, private |-> TRUE]>>
  BY DEF Init
<1>2. [kid |-> k, private |-> TRUE] \in Key
  BY DEF Key
<1>3. IsKeyList(config)
  BY <1>1, <1>2 DEF IsKeyList
<1>4. config[1].kid \in PublicKeys(config)
  BY <1>3, Verified
<1>5. Lists = {config}
  BY DEF Init, Lists
<1>6. KeysFit
  BY <1>3, <1>4, <1>5 DEF KeysFit
<1>7. NoToken \in Token /\ NoToken.state = "none"
  BY DEF NoToken, Token
<1> QED
  BY <1>6, <1>7, Records DEF Init, KeyInv, Types, TokensFit, Placed

\* A step that changes neither the key lists nor the tokens.
LEMMA RequestSteps ==
    ASSUME KeyInv, UNCHANGED <<config, ring, token>>, user' \in Row, req' \in [Procs -> Request],
           \A p \in Procs : req'[p].pc \in {"sign", "verify"} =>
              \/ /\ req[p].pc = req'[p].pc /\ req[p].at = req'[p].at
                 /\ req[p].token = req'[p].token
              \/ /\ req'[p].at \in Instances
                 /\ req'[p].pc = "verify" =>
                       req'[p].token \in Tokens /\ token[req'[p].token].state # "none"
    PROVE  KeyInv'
<1>1. Lists' = Lists
  BY DEF Lists
<1> QED
  BY <1>1 DEF KeyInv, Types, KeysFit, TokensFit, Placed

\* Steps of one request.
LEMMA Proceeds ==
    ASSUME KeyInv, NEW p \in Procs, Proceed(p), ~\E t \in Tokens : SignAccessToken(p, t)
    PROVE  KeyInv'
<1>1. req[p] \in Request
  BY DEF KeyInv, Types
<1>2. ASSUME NEW i \in Instances, Issue(p, i) PROVE KeyInv'
  <2> DEFINE r == [Doing("sign", i) EXCEPT !.roles = {user.role}]
  <2>1. r \in Request /\ r.pc = "sign" /\ r.at = i
    BY DEF Doing, Request, KeyInv, Types, Row
  <2>2. req' = [req EXCEPT ![p] = r] /\ UNCHANGED <<config, ring, user, token>>
    BY <1>2 DEF Issue
  <2> HIDE DEF r
  <2> QED
    BY <2>1, <2>2, RequestSteps DEF KeyInv, Types
<1>3. ASSUME NEW i \in Instances, NEW t \in Tokens, NEW route \in Routes, Arrive(p, i, t, route)
      PROVE  KeyInv'
  <2> DEFINE r == [pc |-> "verify", at |-> i, token |-> t, route |-> route, roles |-> {},
                   was |-> {Standing(user)}]
  <2>2. r \in Request /\ r.pc = "verify" /\ r.at = i /\ r.token = t
    BY DEF Request, Standing
  <2>3. req' = [req EXCEPT ![p] = r] /\ UNCHANGED <<config, ring, user, token>>
    BY <1>3 DEF Arrive
  <2> HIDE DEF r
  <2> QED
    BY <1>3, <2>2, <2>3, RequestSteps DEF Arrive, KeyInv, Types
<1>4. ASSUME Unauthorized(p) \/ RefuseUser(p) \/ HydrateFails(p) \/ Permit(p) \/ Forbid(p)
      PROVE  KeyInv'
  <2>1. req' = [req EXCEPT ![p] = IdleRequest] /\ UNCHANGED <<config, ring, user, token>>
    BY <1>4 DEF Unauthorized, RefuseUser, HydrateFails, Permit, Forbid, Ends
  <2> QED
    BY <2>1, Records, RequestSteps DEF KeyInv, Types
<1>5. ASSUME Authenticate(p) \/ Hydrate(p) PROVE KeyInv'
  <2>1. /\ UNCHANGED <<config, ring, user, token>>
        /\ \E r \in Request : req' = [req EXCEPT ![p] = r] /\ r.pc \notin {"sign", "verify"}
    <3>1. CASE Hydrate(p)
      <4> DEFINE r == [req[p] EXCEPT !.pc = "permit", !.roles = {user.role}]
      <4>1. r \in Request /\ r.pc = "permit"
        BY <1>1 DEF Request, KeyInv, Types, Row
      <4>2. req' = [req EXCEPT ![p] = r]
        BY <3>1 DEF Hydrate
      <4> QED
        BY <3>1, <4>1, <4>2 DEF Hydrate
    <3>2. CASE Authenticate(p)
      <4>1. token[req[p].token].role \in Roles \cup {None}
        BY <3>2 DEF Authenticate, KeyInv, Types, Placed, Token
      <4>2. Required(req[p].route) # {} => UsesDbRoles(req[p].route)
        BY DEF UsesDbRoles, Required
      <4>3. /\ [req[p] EXCEPT !.pc = "hydrate"] \in Request
            /\ [req[p] EXCEPT !.pc = "hydrate"].pc = "hydrate"
        BY <1>1 DEF Request
      <4>4. \/ req' = [req EXCEPT ![p] = IdleRequest]
            \/ req' = [req EXCEPT ![p] = [req[p] EXCEPT !.pc = "hydrate"]]
        <5>1. CASE Required(req[p].route) = {}
          BY <3>2, <5>1 DEF Authenticate
        <5>2. CASE Required(req[p].route) # {}
          BY <3>2, <4>2, <5>2 DEF Authenticate
        <5> QED
          BY <5>1, <5>2
      <4> QED
        BY <3>2, <4>3, <4>4, Records DEF Authenticate
    <3> QED
      BY <1>5, <3>1, <3>2
  <2> QED
    BY <2>1, RequestSteps DEF KeyInv, Types
<1> QED
  BY <1>2, <1>3, <1>4, <1>5 DEF Proceed

LEMMA KeySteps == ASSUME KeyInv, [Next]_vars PROVE KeyInv'
<1>1. ASSUME NEW i \in Instances, Deploy(i) PROVE KeyInv'
  <2>1. /\ ring' = [ring EXCEPT ![i] = config] /\ UNCHANGED <<config, user, token>>
        /\ req' \in [Procs -> Request]
        /\ \A p \in Procs : req'[p] = req[p] \/ req'[p].pc = "idle"
    BY <1>1, Records DEF Deploy, KeyInv, Types
  <2>2. Lists' \subseteq Lists
    BY <2>1 DEF Lists, KeyInv, Types
  <2>3. KeysFit' /\ TokensFit'
    BY <2>1, <2>2 DEF KeyInv, KeysFit, TokensFit
  <2> QED
    BY <2>1, <2>3 DEF KeyInv, Types, Placed
<1>2. ASSUME (\E k \in Kids : AddKey(k)) \/ (\E keep \in BOOLEAN : PromoteKey(keep)) \/ RemoveKey
      PROVE  KeyInv'
  <2>1. KeysFit' /\ TokensFit'
    BY <1>2, KeyChanges
  <2>2. UNCHANGED <<ring, user, token, req>>
    BY <1>2 DEF AddKey, PromoteKey, RemoveKey
  <2> QED
    BY <2>1, <2>2 DEF KeyInv, Types, Placed
<1>3. ASSUME NEW p \in Procs, NEW t \in Tokens, SignAccessToken(p, t) PROVE KeyInv'
  <2>1. req[p] \in Request /\ req[p].at \in Instances
    BY <1>3 DEF SignAccessToken, KeyInv, Types, Placed
  <2> DEFINE a == ring[req[p].at]
  <2>2. a \in Lists /\ IsKeyList(a)
    BY <2>1 DEF Lists, KeyInv, KeysFit
  <2>3. PICK role \in req[p].roles :
           token' = [token EXCEPT ![t] = [state |-> "valid", role |-> role, kid |-> a[1].kid]]
    BY <1>3, <2>2, FirstKeySigns DEF SignAccessToken
  <2>4. /\ token' \in [Tokens -> Token] /\ token'[t].kid = a[1].kid /\ token'[t].state = "valid"
        /\ \A s \in Tokens \ {t} : token'[s] = token[s]
    <3>1. role \in Roles /\ a[1].kid \in Kids
      BY <2>1, <2>2, Verified DEF Request, Key
    <3>2. [state |-> "valid", role |-> role, kid |-> a[1].kid] \in Token
      BY <3>1 DEF Token
    <3> QED
      BY <2>3, <3>2 DEF KeyInv, Types
  <2>5. Lists' = Lists /\ UNCHANGED <<ring, user>>
    BY <1>3 DEF SignAccessToken, Lists
  <2>6. TokensFit' /\ KeysFit'
    BY <2>2, <2>4, <2>5 DEF KeyInv, KeysFit, TokensFit
  <2>7. req' = [req EXCEPT ![p] = IdleRequest]
    BY <1>3 DEF SignAccessToken, Ends
  <2>8. Types'
    BY <2>4, <2>5, <2>7, Records DEF KeyInv, Types
  <2>9. Placed'
    BY <2>4, <2>7, Records DEF KeyInv, Types, Placed
  <2> QED
    BY <2>6, <2>8, <2>9 DEF KeyInv
<1>4. ASSUME NEW t \in Tokens, Expire(t) PROVE KeyInv'
  <2>1. /\ token' \in [Tokens -> Token] /\ token'[t].state = "expired"
        /\ \A s \in Tokens \ {t} : token'[s] = token[s]
    BY <1>4 DEF Expire, KeyInv, Types, Token
  <2>2. Lists' = Lists /\ UNCHANGED <<ring, user, req>>
    BY <1>4 DEF Expire, Lists
  <2> QED
    BY <2>1, <2>2 DEF KeyInv, Types, KeysFit, TokensFit, Placed
<1>5. ASSUME NEW row \in Row, ChangeUser(row) PROVE KeyInv'
  <2>1. UNCHANGED <<config, ring, token>> /\ user' \in Row
    BY <1>5 DEF ChangeUser
  <2>2. /\ req' \in [Procs -> Request]
        /\ \A p \in Procs : /\ req'[p].pc = req[p].pc /\ req'[p].at = req[p].at
                            /\ req'[p].token = req[p].token
    <3>1. \A p \in Procs : req[p] \in Request
      BY DEF KeyInv, Types
    <3>2. Standing(row) \in {"admin", "other"}
      BY DEF Standing
    <3> HIDE DEF Standing
    <3>3. ASSUME NEW p \in Procs
          PROVE  LET r == [req[p] EXCEPT !.was = @ \cup {Standing(row)}]
                 IN  /\ r \in Request /\ r.pc = req[p].pc /\ r.at = req[p].at
                     /\ r.token = req[p].token
      BY <3>1, <3>2 DEF Request
    <3> QED
      BY <1>5, <3>1, <3>3 DEF ChangeUser
  <2> QED
    BY <2>1, <2>2, RequestSteps
<1>6. ASSUME UNCHANGED vars PROVE KeyInv'
  BY <1>6 DEF vars, KeyInv, Types, KeysFit, TokensFit, Placed, Lists
<1> QED
  BY <1>1, <1>2, <1>3, <1>4, <1>5, <1>6, Proceeds DEF Next

LEMMA KeysAlways == Spec => []KeyInv
<1>1. Init => KeyInv
  BY KeyInit
<1>2. KeyInv /\ [Next]_vars => KeyInv'
  BY KeySteps
<1> QED
  BY <1>1, <1>2, PTL DEF Spec

\* Every variable keeps its type; the lists in use have one or two keys each.
THEOREM TypeCorrect == Spec => []TypeOK
<1>1. KeyInv => TypeOK
  <2> SUFFICES ASSUME KeyInv PROVE TypeOK
    OBVIOUS
  <2>1. config \in Seq(Key) /\ \A i \in Instances : ring[i] \in Seq(Key)
    BY DEF KeyInv, KeysFit, Lists, IsKeyList
  <2>2. ring \in [Instances -> Seq(Key)]
    BY <2>1 DEF KeyInv, Types
  <2> QED
    BY <2>1, <2>2 DEF KeyInv, Types, TypeOK
<1> QED
  BY <1>1, KeysAlways, PTL

\* While a rotation is being deployed every instance accepts every token that has not
\* expired.
THEOREM TokensPass == Spec => ValidTokensPass
<1>1. KeyInv /\ [Next]_vars => [RefusedHaveExpired]_vars
  <2> SUFFICES ASSUME KeyInv, NEW p \in Procs, Unauthorized(p)
               PROVE  token[req[p].token].state = "expired"
    BY DEF RefusedHaveExpired
  <2> DEFINE t == req[p].token
  <2>1. t \in Tokens /\ token[t] \in Token /\ token[t].state # "none" /\ req[p].at \in Instances
    BY DEF Unauthorized, KeyInv, Types, Placed
  <2>2. token[t].state # "valid"
    <3>1. ring[req[p].at] \in Lists
      BY <2>1 DEF Lists
    <3> QED
      BY <2>1, <3>1 DEF Unauthorized, Verifies, KeyInv, TokensFit
  <2> QED
    BY <2>1, <2>2 DEF Token
<1> QED
  BY <1>1, KeysAlways, PTL DEF Spec, ValidTokensPass

-----------------------------------------------------------------------------
(* The guards of the admin routes. *)

\* What a request on its way knows about the user: what the user is now is in its history,
\* and the role it read is one the user had then.
Informed(r) ==
    /\ r.pc \in {"verify", "hydrate", "permit"} =>
           r.route \in Routes /\ Standing(user) \in r.was
    /\ r.pc \in {"hydrate", "permit"} => r.route # "own"
    /\ r.pc = "permit" => \/ r.roles = {"ADMIN"} /\ "admin" \in r.was
                          \/ r.roles = {"USER"} /\ "other" \in r.was

GuardInv == KeyInv /\ \A p \in Procs : Informed(req[p])

\* An admin route requires what admins have, and nothing that users have.
LEMMA AdminsHave ==
    ASSUME NEW route \in Routes, route # "own"
    PROVE  /\ Required(route) # {} /\ Required(route) \subseteq Permissions["ADMIN"]
           /\ Permissions["USER"] = {}
<1>1. Permissions["USER"] = {} /\ <<"admin", "access">> \in Permissions["ADMIN"]
  BY DEF Permissions
<1>2. route \in {"whoami", "users", "role", "status", "roleChanges", "deletions"}
  BY DEF Routes, AdminRoutes
<1>3. /\ AdminRoutes["whoami"] \subseteq Permissions["ADMIN"]
      /\ AdminRoutes["users"] \subseteq Permissions["ADMIN"]
      /\ AdminRoutes["role"] \subseteq Permissions["ADMIN"]
      /\ AdminRoutes["status"] \subseteq Permissions["ADMIN"]
      /\ AdminRoutes["roleChanges"] \subseteq Permissions["ADMIN"]
      /\ AdminRoutes["deletions"] \subseteq Permissions["ADMIN"]
  BY DEF AdminRoutes, Permissions
<1>4. Required(route) = {<<"admin", "access">>} \cup AdminRoutes[route]
  BY DEF Required
<1> QED
  BY <1>1, <1>2, <1>3, <1>4

LEMMA GrantedTo ==
    ASSUME NEW p \in Procs, NEW role \in Roles, req[p].roles = {role}
    PROVE  Granted(p) = Permissions[role]
BY DEF Granted, Roles

\* So that an admin is permitted, and a user is not.
LEMMA Decisions ==
    ASSUME NEW p \in Procs, req[p].route \in Routes, req[p].route # "own"
    PROVE  /\ req[p].roles = {"ADMIN"} => ~Forbid(p)
           /\ req[p].roles = {"USER"} => ~Permit(p)
<1>1. ASSUME req[p].roles = {"ADMIN"} PROVE HasAllPermissions(Granted(p), Required(req[p].route))
  <2>1. Required(req[p].route) \subseteq Granted(p)
    BY <1>1, AdminsHave, GrantedTo DEF Roles
  <2> QED
    BY <2>1 DEF HasAllPermissions, PermissionMatches
<1>2. ASSUME req[p].roles = {"USER"} PROVE ~HasAllPermissions(Granted(p), Required(req[p].route))
  <2>1. Granted(p) = {} /\ Required(req[p].route) # {}
    BY <1>2, AdminsHave, GrantedTo DEF Roles
  <2> QED
    BY <2>1 DEF HasAllPermissions
<1> QED
  BY <1>1, <1>2 DEF Forbid, Permit

\* Requests that do not change, or end, stay informed while the user does not change.
LEMMA Uninformed == ASSUME NEW r, r.pc \in {"idle", "sign"} PROVE Informed(r)
BY DEF Informed

LEMMA GuardSteps == ASSUME GuardInv, [Next]_vars PROVE (\A p \in Procs : Informed(req[p]))'
<1> SUFFICES ASSUME NEW q \in Procs PROVE Informed(req[q])'
  OBVIOUS
<1>1. \A p \in Procs : req[p] \in Request /\ Informed(req[p])
  BY DEF GuardInv, KeyInv, Types
<1>2. ASSUME UNCHANGED user, req'[q] = req[q] \/ req'[q].pc \in {"idle", "sign"}
      PROVE  Informed(req[q])'
  BY <1>1, <1>2 DEF Informed
<1>3. ASSUME NEW row \in Row, ChangeUser(row) PROVE Informed(req[q])'
  <2>1. user' = row
    BY <1>3 DEF ChangeUser
  <2>2. CASE req[q].was = {}
    <3>1. req'[q] = req[q]
      BY <1>3, <2>2 DEF ChangeUser
    <3> QED
      BY <1>1, <2>2, <3>1 DEF Informed
  <2>3. CASE req[q].was # {}
    <3>1. req'[q] = [req[q] EXCEPT !.was = @ \cup {Standing(row)}]
      BY <1>3, <2>3 DEF ChangeUser
    <3>2. /\ req'[q].was = req[q].was \cup {Standing(row)} /\ req'[q].pc = req[q].pc
          /\ req'[q].route = req[q].route /\ req'[q].roles = req[q].roles
      BY <1>1, <3>1 DEF Request
    <3>3. Standing(user') = Standing(row)
      BY <2>1
    <3> HIDE DEF Standing
    <3> QED
      BY <1>1, <3>2, <3>3 DEF Informed
  <2> QED
    BY <2>2, <2>3
<1>4. ASSUME NEW p \in Procs, Proceed(p) PROVE Informed(req[q])'
  <2>1. req' = [req EXCEPT ![p] = req'[p]] /\ user' = user
    BY <1>4 DEF Proceed, Issue, Arrive, SignAccessToken, Unauthorized, Authenticate, Hydrate,
                RefuseUser, HydrateFails, Permit, Forbid, Ends, GuardInv, KeyInv, Types
  <2>2. CASE q # p
    <3>1. req'[q] = req[q]
      BY <2>1, <2>2 DEF GuardInv, KeyInv, Types
    <3> QED
      BY <1>2, <2>1, <3>1
  <2>3. CASE q = p
    <3>1. ASSUME NEW i \in Instances, NEW t \in Tokens, NEW route \in Routes,
                 Arrive(p, i, t, route)
          PROVE  Informed(req[q])'
      <4>1. req'[q] = [pc |-> "verify", at |-> i, token |-> t, route |-> route, roles |-> {},
                       was |-> {Standing(user)}]
        BY <2>3, <3>1 DEF Arrive, GuardInv, KeyInv, Types
      <4> QED
        BY <2>1, <4>1 DEF Informed
    <3>2. ASSUME Authenticate(p) PROVE Informed(req[q])'
      <4>1. CASE req'[p] = IdleRequest
        BY <1>2, <2>1, <2>3, <4>1, Records
      <4>2. CASE req'[p] # IdleRequest
        <5>1. Required(req[p].route) # {}
          BY <3>2, <4>2 DEF Authenticate, GuardInv, KeyInv, Types
        <5>2. req[p].route # "own"
          BY <5>1 DEF Required
        <5>3. req'[p] = [req[p] EXCEPT !.pc = "hydrate"]
          BY <2>3, <3>2, <5>1, <5>2 DEF Authenticate, UsesDbRoles, GuardInv, KeyInv, Types
        <5>4. /\ req'[p].pc = "hydrate" /\ req'[p].route = req[p].route
              /\ req'[p].was = req[p].was
          BY <1>1, <5>3 DEF Request
        <5> HIDE DEF Standing
        <5> QED
          BY <1>1, <2>1, <2>3, <3>2, <5>2, <5>4 DEF Authenticate, Informed
      <4> QED
        BY <4>1, <4>2
    <3>3. ASSUME Hydrate(p) PROVE Informed(req[q])'
      <4>1. req'[p] = [req[p] EXCEPT !.pc = "permit", !.roles = {user.role}]
        BY <3>3 DEF Hydrate, GuardInv, KeyInv, Types
      <4>2. /\ req'[p].pc = "permit" /\ req'[p].route = req[p].route
            /\ req'[p].was = req[p].was /\ req'[p].roles = {user.role}
        BY <1>1, <4>1 DEF Request
      <4>3. /\ user.role = "ADMIN" => Standing(user) = "admin"
            /\ user.role = "USER" => Standing(user) = "other"
            /\ user.role \in {"ADMIN", "USER"}
        BY <3>3 DEF Hydrate, Standing, GuardInv, KeyInv, Types, Row, Roles
      <4> HIDE DEF Standing
      <4> QED
        BY <1>1, <2>1, <2>3, <3>3, <4>2, <4>3 DEF Hydrate, Informed
    <3>4. ASSUME NEW i \in Instances, Issue(p, i) PROVE Informed(req[q])'
      <4>1. req'[p].pc = "sign"
        BY <3>4 DEF Issue, Doing, GuardInv, KeyInv, Types
      <4> QED
        BY <1>2, <2>1, <2>3, <4>1
    <3>5. ASSUME Ends(p) PROVE Informed(req[q])'
      <4>1. req'[p].pc = "idle"
        BY <3>5, Records DEF Ends, GuardInv, KeyInv, Types
      <4> QED
        BY <1>2, <2>1, <2>3, <4>1
    <3> QED
      BY <1>4, <3>1, <3>2, <3>3, <3>4, <3>5
         DEF Proceed, SignAccessToken, Unauthorized, RefuseUser, HydrateFails, Permit, Forbid
  <2> QED
    BY <2>2, <2>3
<1>5. ASSUME NEW i \in Instances, Deploy(i) PROVE Informed(req[q])'
  <2>1. UNCHANGED user /\ (req'[q] = req[q] \/ req'[q] = IdleRequest)
    BY <1>5 DEF Deploy
  <2> QED
    BY <1>2, <2>1, Records
<1>6. ASSUME \/ \E k \in Kids : AddKey(k)
             \/ \E keep \in BOOLEAN : PromoteKey(keep)
             \/ RemoveKey
             \/ \E t \in Tokens : Expire(t)
             \/ UNCHANGED vars
      PROVE  Informed(req[q])'
  <2>1. UNCHANGED <<user, req>>
    BY <1>6 DEF AddKey, PromoteKey, RemoveKey, Expire, vars
  <2> QED
    BY <1>2, <2>1
<1> QED
  BY <1>3, <1>4, <1>5, <1>6 DEF Next

LEMMA GuardAlways == Spec => []GuardInv
<1>1. Init => GuardInv
  <2> SUFFICES ASSUME Init PROVE GuardInv
    OBVIOUS
  <2>1. \A p \in Procs : req[p].pc = "idle"
    BY Records DEF Init
  <2> QED
    BY <2>1, KeyInit DEF GuardInv, Informed
<1>2. GuardInv /\ [Next]_vars => GuardInv'
  BY KeySteps, GuardSteps DEF GuardInv
<1> QED
  BY <1>1, <1>2, PTL DEF Spec

\* Who passes the guard of an admin route was an active admin at some moment since the
\* request came, and who is turned away was not, whatever the claims of the token are.
THEOREM GuardsFollowTheRow == Spec => AdminRoutesFollowTheRow
<1>1. GuardInv /\ [Next]_vars => [DecisionsAreTrue]_vars
  <2> SUFFICES ASSUME GuardInv, NEW p \in Procs
               PROVE  /\ Permit(p) => "admin" \in req[p].was
                      /\ Forbid(p) \/ RefuseUser(p) => "other" \in req[p].was
    BY DEF DecisionsAreTrue
  <2>1. Informed(req[p])
    BY DEF GuardInv
  <2>2. Permit(p) \/ Forbid(p) => req[p].route \in Routes /\ req[p].route # "own"
    BY <2>1 DEF Permit, Forbid, Informed
  <2>3. Permit(p) => "admin" \in req[p].was
    BY <2>1, <2>2, Decisions DEF Permit, Informed
  <2>4. Forbid(p) => "other" \in req[p].was
    BY <2>1, <2>2, Decisions DEF Forbid, Informed
  <2>5. RefuseUser(p) => "other" \in req[p].was
    BY <2>1 DEF RefuseUser, Informed, Standing
  <2> QED
    BY <2>3, <2>4, <2>5
<1> QED
  BY <1>1, GuardAlways, PTL DEF Spec, AdminRoutesFollowTheRow
=============================================================================

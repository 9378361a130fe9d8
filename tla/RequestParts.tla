----------------------------- MODULE RequestParts -----------------------------
(***************************************************************************)
(* What a request meets on its way, and the requests about images and      *)
(* lists: Access, ProfileImage and ListQueries.  They share no state, so a *)
(* behaviour is one of one part, chosen at the start, and a property of a  *)
(* part is a property of the sum.                                          *)
(***************************************************************************)
EXTENDS ProfileImage, Sequences, FiniteSets

CONSTANTS
    Instances, Kids, AccessTokens, Clients,  \* Access
    Ids, Values, Queries, MaxLimit           \* ListQueries

VARIABLES
    part,
    config, ring, user, token, guarded,               \* Access
    rows, query, cursor, seen, again, touched, state  \* ListQueries

access == INSTANCE Access WITH
              Tokens <- AccessTokens, Procs <- Clients, req <- guarded

lists == INSTANCE ListQueries

ASSUME RowsAreNumbered == IsFiniteSet(Ids) /\ Ids \subseteq Nat /\ Values \subseteq Nat
ASSUME QueriesAreParsed ==
           /\ Queries # {}
           /\ \A q \in Queries :
                 /\ q.list \in DOMAIN lists!FilterOps
                 /\ q.sort \in Seq([field : STRING, direction : {"asc", "desc"}])
ASSUME LimitIsNumber == MaxLimit \in Nat

\* A part that is not chosen starts in one way.
SumInit ==
    /\ part \in {"access", "images", "lists"}
    /\ Init /\ (part # "images" => queueing)
    /\ access!Init
    /\ part # "access" => user.role = "USER" /\ config[1].kid = CHOOSE k \in Kids : TRUE
    /\ IF part = "lists" THEN lists!Init
       ELSE /\ rows = {} /\ query = CHOOSE q \in Queries : TRUE
            /\ cursor = [sort |-> <<>>, after |-> <<>>]
            /\ seen = {} /\ again = {} /\ touched = {} /\ state = "start"

AccessStays == UNCHANGED <<config, ring, user, token, guarded>>

ImagesStay == UNCHANGED <<queueing, gone, status, profile, object, job, req, condemned, raced>>

ListsStay == UNCHANGED <<rows, query, cursor, seen, again, touched, state>>

SumNext ==
    /\ UNCHANGED part
    /\ \/ part = "access" /\ access!Next /\ ImagesStay /\ ListsStay
       \/ part = "images" /\ Next /\ AccessStays /\ ListsStay
       \/ part = "lists" /\ lists!Next /\ AccessStays /\ ImagesStay

sumVars == <<part, config, ring, user, token, guarded,
             queueing, gone, status, profile, object, job, req, condemned, raced,
             rows, query, cursor, seen, again, touched, state>>

SumSpec == SumInit /\ [][SumNext]_sumVars

-----------------------------------------------------------------------------
(* The type invariants, and the properties of the parts under their names. *)

\* Every variable of every part has its type.
TypesOK == TypeOK /\ access!TypeOK /\ lists!TypeOK

\* A token that has not expired is accepted wherever a rotation of keys has got to.
ValidTokensPass == access!ValidTokensPass

\* On an admin route the user's row counts, not the claims of the token.
AdminRoutesFollowTheRow == access!AdminRoutesFollowTheRow

\* An unchanged row is listed once if it meets the filter, and not at all if not.
ListsAreExact == lists!UnchangedRowsAreListedOnce /\ lists!AcceptedFiltersApply
=============================================================================

------------------------------ MODULE JwksCache ------------------------------
(***************************************************************************)
(* The cached signing keys of the auth service (core/auth.py).  A request  *)
(* with an unknown key id, or one that finds the cache stale, fetches the  *)
(* key set itself; fetches overlap, and their answers arrive in any order. *)
(* The auth service is external: it publishes and retires keys, and an     *)
(* answer holds the keys that were published when it was made.             *)
(***************************************************************************)
EXTENDS Naturals

CONSTANTS Verifiers,        \* requests that verify a token
          Kids,             \* key ids
          TTL,              \* seconds a fetched set is trusted
          FetchTime,        \* seconds a fetch may take
          LastSecond        \* bound: seconds that pass

ASSUME JwksAssumption ==
    TTL \in Nat /\ FetchTime \in Nat /\ LastSecond \in Nat \ {0}

VARIABLES second,       \* time.monotonic()
          published,    \* keys the auth service publishes
          retiredAt,    \* when each key was retired, for those that were
          cached,       \* _keys
          fetchedAt,    \* _fetched_at; Never is None
          verifier,     \* what each request is doing
          acceptedNow   \* history: the keys accepted in the current second

keyVars == <<second, published, retiredAt, cached, fetchedAt, verifier, acceptedNow>>
-----------------------------------------------------------------------------
\* The monotonic clock starts at 1, so that 0 is before any second.
Never == 0
Time == Never..LastSecond
NoToken == [pc |-> "free"]
Fetching == [pc : {"sent"}, kid : Kids, since : Time, hidden : BOOLEAN]
Answered == [pc : {"answered"}, kid : Kids, since : Time, hidden : BOOLEAN,
             body : SUBSET Kids]
Refused == [pc : {"refused"}, hidden : BOOLEAN]

Retired == DOMAIN retiredAt

\* Mutant: a set that is still trusted is used whatever its age becomes.
IsStale_Never == fetchedAt = Never

IsStale == fetchedAt = Never \/ second - fetchedAt > TTL

\* Mutant: a request joins a fetch in flight instead of starting its own.
NeedsRefresh_Joins(kid) ==
    /\ IsStale \/ kid \notin cached
    /\ \A v \in Verifiers : verifier[v].pc \notin {"sent", "answered"}

NeedsRefresh(kid) == IsStale \/ kid \notin cached

\* _keys[kid]; "hidden" tells whether the key was unpublished since the start.
Conclude(v, kid, keys, hidden) ==
    /\ acceptedNow' = acceptedNow \cup ({kid} \cap keys)
    /\ verifier' = [verifier EXCEPT ![v] =
          IF kid \in keys THEN NoToken ELSE [pc |-> "refused", hidden |-> hidden]]
-----------------------------------------------------------------------------
(* get_key                                                                  *)

GetKey(v) ==
    /\ verifier[v].pc \in {"free", "refused"}
    /\ \E kid \in Kids :
          \/ /\ NeedsRefresh(kid)
             /\ verifier' = [verifier EXCEPT ![v] =
                   [pc |-> "sent", kid |-> kid, since |-> second,
                    hidden |-> kid \notin published]]
             /\ UNCHANGED acceptedNow
          \/ ~NeedsRefresh(kid) /\ Conclude(v, kid, cached, kid \notin published)
    /\ UNCHANGED <<second, published, retiredAt, cached, fetchedAt>>

Answer(v) ==
    /\ verifier[v].pc = "sent"
    /\ verifier' = [verifier EXCEPT ![v] =
          [pc |-> "answered", kid |-> verifier[v].kid, since |-> verifier[v].since,
           hidden |-> verifier[v].hidden, body |-> published]]
    /\ UNCHANGED <<second, published, retiredAt, cached, fetchedAt, acceptedNow>>

\* The set is replaced and the key looked up without an await in between.
Receive(v) ==
    /\ verifier[v].pc = "answered"
    /\ cached' = verifier[v].body /\ fetchedAt' = second
    /\ Conclude(v, verifier[v].kid, verifier[v].body, verifier[v].hidden)
    /\ UNCHANGED <<second, published, retiredAt>>

\* HTTPError: AuthServiceUnavailable, the old set stays.
FetchFails(v) ==
    /\ verifier[v].pc \in {"sent", "answered"}
    /\ verifier' = [verifier EXCEPT ![v] = NoToken]
    /\ UNCHANGED <<second, published, retiredAt, cached, fetchedAt, acceptedNow>>
-----------------------------------------------------------------------------
(* The auth service and the clock                                           *)

PublishKey(kid) ==
    /\ kid \notin published \cup Retired
    /\ published' = published \cup {kid}
    /\ UNCHANGED <<second, retiredAt, cached, fetchedAt, verifier, acceptedNow>>

RetireKey(kid) ==
    /\ kid \in published
    /\ published' = published \ {kid}
    /\ retiredAt' = [k \in Retired \cup {kid} |-> IF k = kid THEN second ELSE retiredAt[k]]
    /\ verifier' = [v \in Verifiers |->
          IF verifier[v].pc \in {"sent", "answered"} /\ verifier[v].kid = kid
          THEN [verifier[v] EXCEPT !.hidden = TRUE] ELSE verifier[v]]
    /\ UNCHANGED <<second, cached, fetchedAt, acceptedNow>>

\* No fetch takes longer than its timeout.
NextSecond ==
    /\ second < LastSecond
    /\ \A v \in Verifiers : verifier[v].pc \in {"sent", "answered"} =>
          second < verifier[v].since + FetchTime
    /\ second' = second + 1 /\ acceptedNow' = {}
    /\ UNCHANGED <<published, retiredAt, cached, fetchedAt, verifier>>
-----------------------------------------------------------------------------
KeysInit ==
    /\ second = 1
    /\ published = {} /\ retiredAt = [k \in {} |-> Never]
    /\ cached = {} /\ fetchedAt = Never
    /\ verifier = [v \in Verifiers |-> NoToken]
    /\ acceptedNow = {}

KeysNext ==
    \/ \E v \in Verifiers : GetKey(v) \/ Answer(v) \/ Receive(v) \/ FetchFails(v)
    \/ \E kid \in Kids : PublishKey(kid) \/ RetireKey(kid)
    \/ NextSecond

KeysSpec == KeysInit /\ [][KeysNext]_keyVars
-----------------------------------------------------------------------------
KeysTypeOK ==
    /\ second \in Time
    /\ published \subseteq Kids /\ cached \subseteq Kids
    /\ Retired \subseteq Kids /\ retiredAt \in [Retired -> Time]
    /\ fetchedAt \in Time
    /\ verifier \in [Verifiers -> {NoToken} \cup Fetching \cup Answered \cup Refused]
    /\ acceptedNow \subseteq Kids

\* A retired key is not accepted longer than the fetch that still brought it may
\* take and the set is trusted, although a late answer replaces a newer set and
\* counts as fresh (JwksCache._refresh, get_key).
RetiredIsForgotten ==
    \A kid \in Retired \cap acceptedNow : second <= retiredAt[kid] + FetchTime + TTL

\* A token is only refused for its key if the key was not published all through
\* the request: rotation refuses nobody who holds a current key, whichever
\* answer of an overlapping fetch came last (get_key).
CurrentIsAccepted ==
    \A v \in Verifiers : verifier[v].pc = "refused" => verifier[v].hidden
=============================================================================

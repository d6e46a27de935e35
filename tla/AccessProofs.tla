---------------------------- MODULE AccessProofs -----------------------------
(***************************************************************************)
(* Theorems about JwksCache, Organizations, Tenancy and LLMSettings: which *)
(* tokens are accepted, who is given an organization and renames one,      *)
(* which organization a request works for, and whose key it uses.  They    *)
(* hold for any number of requests, users, rows and keys.                  *)
(***************************************************************************)
EXTENDS JwksCache, Organizations, Tenancy, LLMSettings, FiniteSetTheorems, TLAPS

-----------------------------------------------------------------------------
(* JwksCache.  A set is as old as the fetch that brought it: the invariant  *)
(* relates the start of each fetch, and of the one the cached set came      *)
(* from, to the time the keys in it were retired.                           *)

InFlight(v) == verifier[v].pc \in {"sent", "answered"}

\* What holds of a request, and of the answer it has got.
Sound(v) ==
    /\ InFlight(v) =>
          /\ verifier[v].since <= second /\ second <= verifier[v].since + FetchTime
          /\ verifier[v].hidden \/ verifier[v].kid \in published
    /\ verifier[v].pc = "answered" =>
          /\ verifier[v].body \subseteq published \cup Retired
          /\ \A k \in verifier[v].body \cap Retired : verifier[v].since <= retiredAt[k]
          /\ verifier[v].hidden \/ verifier[v].kid \in verifier[v].body
    /\ verifier[v].pc = "refused" => verifier[v].hidden

\* What holds of the cached set and the keys accepted from it.
CacheSound ==
    /\ published \cap Retired = {}
    /\ cached \subseteq published \cup Retired
    /\ fetchedAt <= second
    /\ \A k \in cached \cap Retired : fetchedAt <= retiredAt[k] + FetchTime
    /\ \A k \in Retired : retiredAt[k] <= second
    /\ acceptedNow \subseteq published \cup Retired

KeysInvariant ==
    KeysTypeOK /\ CacheSound /\ (\A v \in Verifiers : Sound(v)) /\ RetiredIsForgotten
-----------------------------------------------------------------------------
LEMMA Seconds == TTL \in Nat /\ FetchTime \in Nat /\ Time \subseteq Nat /\ Never = 0
  BY JwksAssumption DEF Time, Never

LEMMA FieldsOf ==
    ASSUME KeysTypeOK, NEW v \in Verifiers
    PROVE  /\ InFlight(v) => /\ verifier[v].kid \in Kids /\ verifier[v].since \in Nat
                             /\ verifier[v].hidden \in BOOLEAN
           /\ verifier[v].pc = "sent" => verifier[v] \in Fetching
           /\ verifier[v].pc = "answered" => /\ verifier[v] \in Answered
                                             /\ verifier[v].body \subseteq Kids
           /\ verifier[v].pc \in {"free", "sent", "answered", "refused"}
<1>1. verifier[v] \in {NoToken} \cup Fetching \cup Answered \cup Refused
  BY DEF KeysTypeOK
<1>2. CASE verifier[v] = NoToken
  BY <1>2 DEF NoToken, InFlight
<1>3. CASE verifier[v] \in Fetching
  BY <1>3, Seconds DEF Fetching, InFlight
<1>4. CASE verifier[v] \in Answered
  BY <1>4, Seconds DEF Answered, InFlight
<1>5. CASE verifier[v] \in Refused
  BY <1>5 DEF Refused, InFlight
<1> QED
  BY <1>1, <1>2, <1>3, <1>4, <1>5

\* The invariant holds before the first fetch.
THEOREM KeysInitial == KeysInit => KeysInvariant
<1> SUFFICES ASSUME KeysInit PROVE KeysInvariant
  OBVIOUS
<1>1. Retired = {} /\ retiredAt \in [{} -> Time]
  BY DEF KeysInit, Retired
<1>2. KeysTypeOK
  <2>1. second \in Time /\ fetchedAt \in Time
    BY JwksAssumption DEF KeysInit, Time, Never
  <2>2. verifier \in [Verifiers -> {NoToken} \cup Fetching \cup Answered \cup Refused]
    BY DEF KeysInit
  <2> QED
    BY <1>1, <2>1, <2>2 DEF KeysInit, KeysTypeOK
<1>3. CacheSound /\ RetiredIsForgotten
  BY <1>1 DEF KeysInit, CacheSound, RetiredIsForgotten, Never
<1>4. \A v \in Verifiers : Sound(v)
  BY DEF KeysInit, Sound, InFlight, NoToken
<1> QED
  BY <1>2, <1>3, <1>4 DEF KeysInvariant
-----------------------------------------------------------------------------
LEMMA OthersStaySound ==
    ASSUME KeysInvariant, NEW v \in Verifiers, NEW r,
           verifier' = [verifier EXCEPT ![v] = r],
           second' = second, published' = published, retiredAt' = retiredAt
    PROVE  /\ \A u \in Verifiers \ {v} : Sound(u)'
           /\ verifier'[v] = r
<1>1. verifier \in [Verifiers -> {NoToken} \cup Fetching \cup Answered \cup Refused]
  BY DEF KeysInvariant, KeysTypeOK
<1>2. verifier'[v] = r /\ \A u \in Verifiers \ {v} : verifier'[u] = verifier[u]
  BY <1>1
<1>3. Retired' = Retired
  BY DEF Retired
<1> QED
  BY <1>2, <1>3 DEF KeysInvariant, Sound, InFlight

LEMMA VerifierType ==
    ASSUME KeysTypeOK, NEW v \in Verifiers,
           NEW r \in {NoToken} \cup Fetching \cup Answered \cup Refused,
           verifier' = [verifier EXCEPT ![v] = r]
    PROVE  verifier' \in [Verifiers -> {NoToken} \cup Fetching \cup Answered \cup Refused]
<1> DEFINE S == {NoToken} \cup Fetching \cup Answered \cup Refused
<1>1. verifier \in [Verifiers -> S] /\ r \in S
  BY DEF KeysTypeOK
<1> HIDE DEF S
<1>2. verifier' \in [Verifiers -> S]
  BY <1>1
<1> QED
  BY <1>2 DEF S

\* The end of a request: its key is accepted, or it was hidden and is refused.
LEMMA ConcludeSound ==
    ASSUME KeysInvariant, NEW v \in Verifiers, NEW kid \in Kids, NEW keys \in SUBSET Kids,
           NEW hidden \in BOOLEAN, Conclude(v, kid, keys, hidden),
           hidden \/ kid \in keys,
           keys \subseteq published \cup Retired,
           \A k \in keys \cap Retired : second <= retiredAt[k] + FetchTime + TTL,
           second' = second, published' = published, retiredAt' = retiredAt
    PROVE  /\ verifier' \in [Verifiers -> {NoToken} \cup Fetching \cup Answered \cup Refused]
           /\ \A u \in Verifiers : Sound(u)'
           /\ RetiredIsForgotten'
           /\ acceptedNow' \subseteq Kids
           /\ acceptedNow' \subseteq published' \cup Retired'
<1> DEFINE r == IF kid \in keys THEN NoToken ELSE [pc |-> "refused", hidden |-> hidden]
<1>1. verifier' = [verifier EXCEPT ![v] = r] /\ acceptedNow' = acceptedNow \cup ({kid} \cap keys)
  BY DEF Conclude
<1>2. r \in {NoToken} \cup Refused
  BY DEF Refused
<1>3. r.pc \in {"free", "refused"} /\ (r.pc = "refused" => r.hidden)
  BY DEF NoToken
<1> HIDE DEF r
<1>4. verifier' \in [Verifiers -> {NoToken} \cup Fetching \cup Answered \cup Refused]
  BY <1>1, <1>2, VerifierType DEF KeysInvariant
<1>5. (\A u \in Verifiers \ {v} : Sound(u)') /\ verifier'[v] = r
  BY <1>1, OthersStaySound
<1>6. Sound(v)'
  BY <1>3, <1>5 DEF Sound, InFlight
<1>7. Retired' = Retired
  BY DEF Retired
<1>8. RetiredIsForgotten'
  BY <1>1, <1>7 DEF RetiredIsForgotten, KeysInvariant
<1> QED
  BY <1>1, <1>4, <1>5, <1>6, <1>7, <1>8 DEF KeysInvariant, KeysTypeOK, CacheSound

LEMMA GetKeyKeeps ==
    ASSUME KeysInvariant, NEW v \in Verifiers, GetKey(v)
    PROVE  KeysInvariant'
<1>1. /\ second' = second /\ published' = published /\ retiredAt' = retiredAt
      /\ cached' = cached /\ fetchedAt' = fetchedAt /\ Retired' = Retired
  BY DEF GetKey, Retired
<1>2. PICK kid \in Kids :
          \/ /\ verifier' = [verifier EXCEPT ![v] =
                   [pc |-> "sent", kid |-> kid, since |-> second,
                    hidden |-> kid \notin published]]
             /\ acceptedNow' = acceptedNow
          \/ ~NeedsRefresh(kid) /\ Conclude(v, kid, cached, kid \notin published)
  BY DEF GetKey
<1>3. second \in Time /\ second \in Nat /\ fetchedAt \in Nat /\ FetchTime \in Nat /\ TTL \in Nat
  BY Seconds DEF KeysInvariant, KeysTypeOK
<1>4. CASE /\ verifier' = [verifier EXCEPT ![v] =
                   [pc |-> "sent", kid |-> kid, since |-> second,
                    hidden |-> kid \notin published]]
           /\ acceptedNow' = acceptedNow
  <2> DEFINE r == [pc |-> "sent", kid |-> kid, since |-> second, hidden |-> kid \notin published]
  <2>1. r \in Fetching
    BY <1>3 DEF Fetching
  <2>2. verifier' \in [Verifiers -> {NoToken} \cup Fetching \cup Answered \cup Refused]
    BY <1>4, <2>1, VerifierType DEF KeysInvariant
  <2>3. (\A u \in Verifiers \ {v} : Sound(u)') /\ verifier'[v] = r
    BY <1>1, <1>4, OthersStaySound
  <2>4. Sound(v)'
    <3>1. /\ verifier'[v].pc = "sent" /\ verifier'[v].kid = kid /\ verifier'[v].since = second
      BY <2>3
    <3>2. verifier'[v].hidden \/ kid \in published
      <4>1. verifier'[v].hidden = (kid \notin published)
        <5>1. r.hidden = (kid \notin published)
          BY Zenon
        <5> HIDE DEF r
        <5> QED
          BY <2>3, <5>1, Zenon
      <4> QED
        BY Zenon, <4>1
    <3>3. second <= second /\ second <= second + FetchTime
      BY <1>3
    <3> QED
      BY <1>1, <3>1, <3>2, <3>3 DEF Sound, InFlight
  <2> QED
    BY <1>1, <1>4, <2>2, <2>3, <2>4
       DEF KeysInvariant, KeysTypeOK, CacheSound, RetiredIsForgotten
<1>5. CASE ~NeedsRefresh(kid) /\ Conclude(v, kid, cached, kid \notin published)
  <2>1. second - fetchedAt <= TTL /\ kid \in cached
    BY <1>3, <1>5 DEF NeedsRefresh, IsStale
  <2>2. \A k \in cached \cap Retired : second <= retiredAt[k] + FetchTime + TTL
    <3> SUFFICES ASSUME NEW k \in cached \cap Retired
                 PROVE  second <= retiredAt[k] + FetchTime + TTL
      OBVIOUS
    <3>1. retiredAt[k] \in Nat
      BY Seconds DEF KeysInvariant, KeysTypeOK
    <3>2. fetchedAt <= retiredAt[k] + FetchTime /\ fetchedAt <= second
      BY DEF KeysInvariant, CacheSound
    <3> QED
      BY <1>3, <2>1, <3>1, <3>2
  <2>3. cached \in SUBSET Kids /\ cached \subseteq published \cup Retired
    BY DEF KeysInvariant, KeysTypeOK, CacheSound
  <2>4. (kid \notin published) \in BOOLEAN
    OBVIOUS
  <2>5. /\ verifier' \in [Verifiers -> {NoToken} \cup Fetching \cup Answered \cup Refused]
        /\ \A u \in Verifiers : Sound(u)'
        /\ RetiredIsForgotten'
        /\ acceptedNow' \subseteq Kids
        /\ acceptedNow' \subseteq published' \cup Retired'
    BY <1>1, <1>5, <2>1, <2>2, <2>3, <2>4, ConcludeSound
  <2> QED
    BY <1>1, <2>5 DEF KeysInvariant, KeysTypeOK, CacheSound
<1> QED
  BY <1>2, <1>4, <1>5

\* An answer holds what is published now, which is not retired before.
LEMMA AnswerKeeps ==
    ASSUME KeysInvariant, NEW v \in Verifiers, Answer(v)
    PROVE  KeysInvariant'
<1> DEFINE r == [pc |-> "answered", kid |-> verifier[v].kid, since |-> verifier[v].since,
                 hidden |-> verifier[v].hidden, body |-> published]
<1>1. /\ second' = second /\ published' = published /\ retiredAt' = retiredAt
      /\ cached' = cached /\ fetchedAt' = fetchedAt /\ acceptedNow' = acceptedNow
      /\ Retired' = Retired /\ verifier' = [verifier EXCEPT ![v] = r]
      /\ verifier[v].pc = "sent"
  BY DEF Answer, Retired
<1>2. /\ verifier[v] \in Fetching /\ published \subseteq Kids /\ published \cap Retired = {}
      /\ Sound(v) /\ InFlight(v)
  BY <1>1, FieldsOf DEF KeysInvariant, KeysTypeOK, CacheSound, InFlight
<1>3. r \in Answered
  BY <1>2 DEF Fetching, Answered
<1>4. verifier' \in [Verifiers -> {NoToken} \cup Fetching \cup Answered \cup Refused]
  BY <1>1, <1>3, VerifierType DEF KeysInvariant
<1>5. (\A u \in Verifiers \ {v} : Sound(u)') /\ verifier'[v] = r
  BY <1>1, OthersStaySound
<1>6. /\ r.pc = "answered" /\ r.kid = verifier[v].kid /\ r.since = verifier[v].since
      /\ r.body = published
  OBVIOUS
<1>7. r.hidden = verifier[v].hidden
  BY Zenon
<1> HIDE DEF r
<1>8. verifier'[v].hidden \/ verifier'[v].kid \in published
  BY <1>2, <1>5, <1>6, <1>7 DEF Sound
<1>9. Sound(v)'
  BY <1>1, <1>2, <1>5, <1>6, <1>8 DEF Sound, InFlight
<1> QED
  BY <1>1, <1>4, <1>5, <1>9 DEF KeysInvariant, KeysTypeOK, CacheSound, RetiredIsForgotten

\* The set is replaced by one that is at most FetchTime old.
LEMMA ReceiveKeeps ==
    ASSUME KeysInvariant, NEW v \in Verifiers, Receive(v)
    PROVE  KeysInvariant'
<1>1. /\ second' = second /\ published' = published /\ retiredAt' = retiredAt
      /\ cached' = verifier[v].body /\ fetchedAt' = second /\ Retired' = Retired
      /\ verifier[v].pc = "answered"
      /\ Conclude(v, verifier[v].kid, verifier[v].body, verifier[v].hidden)
  BY DEF Receive, Retired
<1>2. /\ verifier[v].body \in SUBSET Kids /\ verifier[v].kid \in Kids
      /\ verifier[v].hidden \in BOOLEAN /\ verifier[v].since \in Nat
      /\ Sound(v) /\ InFlight(v)
  BY <1>1, FieldsOf DEF KeysInvariant, InFlight
<1>3. second \in Time /\ second \in Nat /\ FetchTime \in Nat /\ TTL \in Nat
  BY Seconds DEF KeysInvariant, KeysTypeOK
<1>4. \A k \in verifier[v].body \cap Retired :
          second <= retiredAt[k] + FetchTime /\ second <= retiredAt[k] + FetchTime + TTL
  <2> SUFFICES ASSUME NEW k \in verifier[v].body \cap Retired
               PROVE  /\ second <= retiredAt[k] + FetchTime
                      /\ second <= retiredAt[k] + FetchTime + TTL
    OBVIOUS
  <2>1. retiredAt[k] \in Nat
    BY Seconds DEF KeysInvariant, KeysTypeOK
  <2>2. verifier[v].since <= retiredAt[k] /\ second <= verifier[v].since + FetchTime
    BY <1>1, <1>2 DEF Sound
  <2> QED
    BY <1>2, <1>3, <2>1, <2>2
<1>5. /\ verifier[v].hidden \/ verifier[v].kid \in verifier[v].body
      /\ verifier[v].body \subseteq published \cup Retired
  BY <1>1, <1>2 DEF Sound
<1>6. /\ verifier' \in [Verifiers -> {NoToken} \cup Fetching \cup Answered \cup Refused]
      /\ \A u \in Verifiers : Sound(u)'
      /\ RetiredIsForgotten'
      /\ acceptedNow' \subseteq Kids
      /\ acceptedNow' \subseteq published' \cup Retired'
  BY <1>1, <1>2, <1>4, <1>5, ConcludeSound
<1>7. CacheSound'
  BY <1>1, <1>3, <1>4, <1>5, <1>6 DEF CacheSound, KeysInvariant
<1>8. KeysTypeOK'
  BY <1>1, <1>2, <1>3, <1>6 DEF KeysInvariant, KeysTypeOK
<1> QED
  BY <1>6, <1>7, <1>8 DEF KeysInvariant

LEMMA FetchFailsKeeps ==
    ASSUME KeysInvariant, NEW v \in Verifiers, FetchFails(v)
    PROVE  KeysInvariant'
<1>1. /\ second' = second /\ published' = published /\ retiredAt' = retiredAt
      /\ cached' = cached /\ fetchedAt' = fetchedAt /\ acceptedNow' = acceptedNow
      /\ Retired' = Retired /\ verifier' = [verifier EXCEPT ![v] = NoToken]
  BY DEF FetchFails, Retired
<1>2. verifier' \in [Verifiers -> {NoToken} \cup Fetching \cup Answered \cup Refused]
  BY <1>1, VerifierType DEF KeysInvariant
<1>3. (\A u \in Verifiers \ {v} : Sound(u)') /\ verifier'[v] = NoToken
  BY <1>1, OthersStaySound
<1>4. Sound(v)'
  BY <1>3 DEF Sound, InFlight, NoToken
<1> QED
  BY <1>1, <1>2, <1>3, <1>4 DEF KeysInvariant, KeysTypeOK, CacheSound, RetiredIsForgotten

LEMMA PublishKeeps ==
    ASSUME KeysInvariant, NEW kid \in Kids, PublishKey(kid)
    PROVE  KeysInvariant'
<1>1. /\ second' = second /\ published' = published \cup {kid} /\ retiredAt' = retiredAt
      /\ cached' = cached /\ fetchedAt' = fetchedAt /\ acceptedNow' = acceptedNow
      /\ Retired' = Retired /\ verifier' = verifier /\ kid \notin Retired
  BY DEF PublishKey, Retired
<1>2. \A v \in Verifiers : Sound(v)'
  BY <1>1 DEF KeysInvariant, Sound, InFlight
<1> QED
  BY <1>1, <1>2 DEF KeysInvariant, KeysTypeOK, CacheSound, RetiredIsForgotten

LEMMA HiddenFetching ==
    ASSUME NEW r \in Fetching, NEW b
    PROVE  [r EXCEPT !.hidden = b]
             = [pc |-> r.pc, kid |-> r.kid, since |-> r.since, hidden |-> b]
  BY DEF Fetching

LEMMA HiddenAnswered ==
    ASSUME NEW r \in Answered, NEW b
    PROVE  [r EXCEPT !.hidden = b]
             = [pc |-> r.pc, kid |-> r.kid, since |-> r.since, hidden |-> b, body |-> r.body]
  BY DEF Answered

LEMMA Unhides ==
    ASSUME NEW r \in Fetching \cup Answered
    PROVE  LET h == [r EXCEPT !.hidden = TRUE]
           IN  /\ h \in Fetching \cup Answered
               /\ h.pc = r.pc /\ h.kid = r.kid /\ h.since = r.since /\ h.hidden
               /\ r \in Answered => h.body = r.body
<1>1. CASE r \in Fetching
  <2>1. [r EXCEPT !.hidden = TRUE]
          = [pc |-> r.pc, kid |-> r.kid, since |-> r.since, hidden |-> TRUE]
    BY <1>1, HiddenFetching, Zenon
  <2> QED
    BY <1>1, <2>1 DEF Fetching, Answered
<1>2. CASE r \in Answered
  <2>1. [r EXCEPT !.hidden = TRUE]
          = [pc |-> r.pc, kid |-> r.kid, since |-> r.since, hidden |-> TRUE, body |-> r.body]
    BY <1>2, HiddenAnswered, Zenon
  <2> QED
    BY <1>2, <2>1 DEF Fetching, Answered
<1> QED
  BY <1>1, <1>2

\* A key is retired now: later than any fetch that has brought it was begun.
LEMMA RetireKeeps ==
    ASSUME KeysInvariant, NEW kid \in Kids, RetireKey(kid)
    PROVE  KeysInvariant'
<1>1. /\ second' = second /\ published' = published \ {kid} /\ cached' = cached
      /\ fetchedAt' = fetchedAt /\ acceptedNow' = acceptedNow /\ kid \in published
      /\ retiredAt' = [k \in Retired \cup {kid} |-> IF k = kid THEN second ELSE retiredAt[k]]
      /\ verifier' = [v \in Verifiers |->
             IF verifier[v].pc \in {"sent", "answered"} /\ verifier[v].kid = kid
             THEN [verifier[v] EXCEPT !.hidden = TRUE] ELSE verifier[v]]
  BY DEF RetireKey
<1>2. /\ Retired' = Retired \cup {kid} /\ retiredAt'[kid] = second
      /\ \A k \in Retired : k # kid /\ retiredAt'[k] = retiredAt[k]
  BY <1>1 DEF Retired, KeysInvariant, CacheSound
<1>3. /\ second \in Time /\ second \in Nat /\ FetchTime \in Nat /\ TTL \in Nat
      /\ fetchedAt \in Nat /\ \A k \in Retired : retiredAt[k] \in Time
  BY Seconds DEF KeysInvariant, KeysTypeOK
<1>4. retiredAt' \in [Retired' -> Time]
  BY <1>1, <1>2, <1>3
<1>5. CacheSound'
  BY <1>1, <1>2, <1>3 DEF KeysInvariant, CacheSound
<1>6. RetiredIsForgotten'
  BY <1>1, <1>2, <1>3 DEF KeysInvariant, RetiredIsForgotten
<1>7. ASSUME NEW v \in Verifiers
      PROVE  /\ verifier'[v] \in {NoToken} \cup Fetching \cup Answered \cup Refused
             /\ Sound(v)'
  <2>1. CASE InFlight(v) /\ verifier[v].kid = kid
    <3> DEFINE h == [verifier[v] EXCEPT !.hidden = TRUE]
    <3>1. verifier'[v] = h
      BY <1>1, <2>1, Zenon DEF InFlight
    <3>2. verifier[v] \in Fetching \cup Answered
      BY <2>1, FieldsOf DEF InFlight, KeysInvariant
    <3>3. /\ h \in Fetching \cup Answered
          /\ h.pc = verifier[v].pc /\ h.kid = verifier[v].kid
          /\ h.since = verifier[v].since /\ h.hidden
          /\ verifier[v] \in Answered => h.body = verifier[v].body
      BY <3>2, Unhides
    <3> HIDE DEF h
    <3>4. /\ verifier[v].since \in Nat /\ verifier[v].since <= second
          /\ second <= verifier[v].since + FetchTime
          /\ verifier[v].pc = "answered" =>
                /\ verifier[v] \in Answered
                /\ verifier[v].body \subseteq published \cup Retired
                /\ \A k \in verifier[v].body \cap Retired : verifier[v].since <= retiredAt[k]
      BY <2>1, FieldsOf DEF Sound, KeysInvariant
    <3>5. InFlight(v)' =>
             /\ verifier'[v].since <= second' /\ second' <= verifier'[v].since + FetchTime
             /\ verifier'[v].hidden
      BY <1>1, <3>1, <3>3, <3>4
    <3>6. verifier'[v].pc = "answered" =>
             /\ verifier'[v].body \subseteq published' \cup Retired'
             /\ \A k \in verifier'[v].body \cap Retired' : verifier'[v].since <= retiredAt'[k]
      BY <1>1, <1>2, <3>1, <3>3, <3>4
    <3>7. verifier'[v].hidden
      BY <3>1, <3>3
    <3> QED
      BY <3>1, <3>3, <3>5, <3>6, <3>7 DEF Sound
  <2>2. CASE ~(InFlight(v) /\ verifier[v].kid = kid)
    <3>1. verifier'[v] = verifier[v]
      BY <1>1, <2>2 DEF InFlight
    <3>2. /\ verifier[v] \in {NoToken} \cup Fetching \cup Answered \cup Refused
          /\ Sound(v)
      BY DEF KeysInvariant, KeysTypeOK
    <3>3. /\ InFlight(v)' => InFlight(v) /\ verifier[v].kid # kid
          /\ verifier[v].pc = "answered" => InFlight(v)
      BY <2>2, <3>1 DEF InFlight
    <3>4. InFlight(v)' =>
             /\ verifier[v].since <= second /\ second <= verifier[v].since + FetchTime
             /\ verifier[v].hidden \/ verifier[v].kid \in published'
      BY <1>1, <3>2, <3>3 DEF Sound
    <3>5. verifier[v].pc = "answered" =>
             /\ verifier[v].body \subseteq published' \cup Retired'
             /\ \A k \in verifier[v].body \cap Retired' : verifier[v].since <= retiredAt'[k]
             /\ verifier[v].hidden \/ verifier[v].kid \in verifier[v].body
      BY <1>1, <1>2, <3>2, <3>3 DEF Sound
    <3> QED
      BY <1>1, <3>1, <3>2, <3>4, <3>5 DEF Sound
  <2> QED
    BY <2>1, <2>2
<1>8. verifier' \in [Verifiers -> {NoToken} \cup Fetching \cup Answered \cup Refused]
  <2>1. verifier' = [v \in Verifiers |-> verifier'[v]]
    BY <1>1, Zenon
  <2> QED
    BY <1>7, <2>1, Zenon
<1> QED
  BY <1>1, <1>2, <1>4, <1>5, <1>6, <1>7, <1>8 DEF KeysInvariant, KeysTypeOK

LEMMA TickKeeps ==
    ASSUME KeysInvariant, NextSecond
    PROVE  KeysInvariant'
<1>1. /\ second' = second + 1 /\ second < LastSecond /\ acceptedNow' = {}
      /\ published' = published /\ retiredAt' = retiredAt /\ cached' = cached
      /\ fetchedAt' = fetchedAt /\ verifier' = verifier /\ Retired' = Retired
      /\ \A v \in Verifiers : InFlight(v) => second < verifier[v].since + FetchTime
  BY DEF NextSecond, Retired, InFlight
<1>2. second \in Nat /\ fetchedAt \in Nat /\ FetchTime \in Nat /\ second' \in Time
      /\ \A k \in Retired : retiredAt[k] \in Nat
  BY <1>1, JwksAssumption, Seconds DEF KeysInvariant, KeysTypeOK, Time, Never
<1>3. CacheSound'
  BY <1>1, <1>2 DEF KeysInvariant, CacheSound
<1>4. ASSUME NEW v \in Verifiers PROVE Sound(v)'
  <2>1. Sound(v) /\ (InFlight(v) => verifier[v].since \in Nat)
    BY FieldsOf DEF KeysInvariant
  <2> QED
    BY <1>1, <1>2, <2>1 DEF Sound, InFlight
<1> QED
  BY <1>1, <1>2, <1>3, <1>4 DEF KeysInvariant, KeysTypeOK, RetiredIsForgotten
-----------------------------------------------------------------------------
\* Every step keeps the invariant.
THEOREM KeysStep == KeysInvariant /\ [KeysNext]_keyVars => KeysInvariant'
<1> SUFFICES ASSUME KeysInvariant, [KeysNext]_keyVars PROVE KeysInvariant'
  OBVIOUS
<1>1. ASSUME NEW v \in Verifiers, GetKey(v) \/ Answer(v) \/ Receive(v) \/ FetchFails(v)
      PROVE  KeysInvariant'
  BY <1>1, GetKeyKeeps, AnswerKeeps, ReceiveKeeps, FetchFailsKeeps
<1>2. ASSUME NEW kid \in Kids, PublishKey(kid) \/ RetireKey(kid) PROVE KeysInvariant'
  BY <1>2, PublishKeeps, RetireKeeps
<1>3. CASE NextSecond
  BY <1>3, TickKeeps
<1>4. CASE UNCHANGED keyVars
  BY <1>4 DEF keyVars, KeysInvariant, KeysTypeOK, CacheSound, RetiredIsForgotten,
              Sound, InFlight, Retired
<1> QED
  BY <1>1, <1>2, <1>3, <1>4 DEF KeysNext

\* The invariant holds of every behaviour.
THEOREM KeysSafe == KeysSpec => []KeysInvariant
  BY KeysInitial, KeysStep, PTL DEF KeysSpec

\* A retired key is accepted at most FetchTime + TTL longer, for any number of
\* overlapping fetches whose answers come in any order (JwksCache.get_key).
THEOREM RetiredKeysAreForgotten == KeysSpec => []RetiredIsForgotten
<1>1. KeysInvariant => RetiredIsForgotten
  BY DEF KeysInvariant
<1> QED
  BY <1>1, KeysSafe, PTL

\* Nobody is refused whose key was published all through the request, for any
\* number of requests and keys (JwksCache.get_key).
THEOREM CurrentKeysAreAccepted == KeysSpec => []CurrentIsAccepted
<1>1. KeysInvariant => CurrentIsAccepted
  BY DEF KeysInvariant, CurrentIsAccepted, Sound
<1> QED
  BY <1>1, KeysSafe, PTL
-----------------------------------------------------------------------------
(* Organizations.  The invariant: a personal organization of a user nobody  *)
(* removed is one of the user's, so a user found in none has none yet; and  *)
(* there is room for one per call.                                          *)

PersonalIsTheirs == \A u \in Users \ left : personal[u] \subseteq OrgsOf(u)

OrgInvariant == OrgTypeOK /\ PersonalIsTheirs /\ OnePerCall

\* Why a request may be where a step takes it: it was there before, or the
\* memberships say so.
Justified(c, r) ==
    /\ r.pc \in Firsts =>
          \/ ask[c].pc \in Firsts /\ ask[c].user = r.user
          \/ OrgsOf(r.user) = {}
    /\ r.pc \in Renames =>
          \/ ask[c].pc \in Renames /\ ask[c].org = r.org /\ ask[c].user = r.user
          \/ <<r.org, r.user>> \in admins
    /\ r.pc \in Listed =>
          \/ ask[c].pc \in Listed /\ ask[c].org = r.org /\ ask[c].user = r.user
          \/ <<r.org, r.user>> \in belongs
-----------------------------------------------------------------------------
\* What a request is doing, by the record that says so.
LEMMA AskOf ==
    ASSUME OrgTypeOK, NEW c \in Calls
    PROVE  /\ ask[c].pc \in {"free", "first"} \cup Renames
           /\ ask[c].pc = "free" <=> ask[c] = Free
           /\ ask[c].pc # "free" => ask[c].user \in Users
           /\ ask[c].pc \in Renames =>
                 /\ ask[c].org \in AllOrgs
                 /\ ask[c] \in [pc : Renames, user : Users, org : AllOrgs]
<1>1. ask[c] \in Ask
  BY DEF OrgTypeOK
<1>a. Free.pc = "free" /\ "free" \notin Renames /\ "first" \notin Renames
  BY DEF Free, Renames, Listed
<1>2. CASE ask[c] = Free
  BY <1>2, <1>a
<1>3. CASE ask[c] \in [pc : {"first"}, user : Users]
  <2>1. ask[c].pc = "first" /\ ask[c].user \in Users
    BY <1>3
  <2>2. ask[c] # Free
    BY <2>1, <1>a
  <2> QED
    BY <1>a, <2>1, <2>2
<1>4. CASE ask[c] \in [pc : Renames, user : Users, org : AllOrgs]
  <2>1. ask[c].pc \in Renames /\ ask[c].user \in Users /\ ask[c].org \in AllOrgs
    BY <1>4
  <2>2. ask[c] # Free
    BY <2>1, <1>a
  <2> QED
    BY <1>4, <1>a, <2>1, <2>2
<1> QED
  BY <1>1, <1>2, <1>3, <1>4 DEF Ask

\* A request that goes on with its renaming.
LEMMA RenameGoesOn ==
    ASSUME OrgTypeOK, NEW c \in Calls, ask[c].pc \in Renames, NEW p \in Renames
    PROVE  /\ [ask[c] EXCEPT !.pc = p] \in Ask
           /\ [ask[c] EXCEPT !.pc = p].pc = p
           /\ [ask[c] EXCEPT !.pc = p].user = ask[c].user
           /\ [ask[c] EXCEPT !.pc = p].org = ask[c].org
<1>1. ask[c] \in [pc : Renames, user : Users, org : AllOrgs]
  BY AskOf
<1> QED
  BY <1>1 DEF Ask

LEMMA FreeJustified ==
    \A c \in Calls : Free \in Ask /\ Justified(c, Free)
  BY DEF Ask, Free, Justified, Firsts, Renames, Listed

Moves == \E c \in Calls, r \in Ask : ask' = [ask EXCEPT ![c] = r] /\ Justified(c, r)

\* No step moves more than one request, and each move is justified.
LEMMA AskSteps ==
    ASSUME OrgTypeOK, OrgNext
    PROVE  ask' = ask \/ Moves
<1>1. ASSUME NEW c \in Calls, NEW u \in Users, ListOrganizations(c, u) PROVE Moves
  <2> DEFINE r == [pc |-> "first", user |-> u]
  <2>1. r \in Ask /\ r.pc = "first" /\ r.user = u
    BY DEF Ask
  <2>2. ask' = [ask EXCEPT ![c] = r] /\ OrgsOf(u) = {}
    BY <1>1 DEF ListOrganizations, Homeless
  <2> HIDE DEF r
  <2>3. Justified(c, r)
    BY <2>1, <2>2 DEF Justified, Renames, Listed
  <2> QED
    BY <2>1, <2>2, <2>3 DEF Moves
<1>2. ASSUME NEW c \in Calls, NEW u \in Users, NEW o \in AllOrgs, BeginRename(c, u, o)
      PROVE  Moves
  <2> DEFINE r == [pc |-> "rename", user |-> u, org |-> o]
  <2>1. r \in Ask /\ r.pc = "rename" /\ r.user = u /\ r.org = o
    BY DEF Ask, Renames
  <2>2. ask' = [ask EXCEPT ![c] = r] /\ <<o, u>> \in admins
    BY <1>2 DEF BeginRename
  <2> HIDE DEF r
  <2>3. Justified(c, r)
    BY <2>1, <2>2 DEF Justified, Firsts, Listed
  <2> QED
    BY <2>1, <2>2, <2>3 DEF Moves
<1>3. ASSUME NEW c \in Calls, ListNone(c) PROVE Moves
  <2> DEFINE r == [ask[c] EXCEPT !.pc = "first rename"]
  <2>1. ask[c].pc = "rename" /\ OrgsOf(ask[c].user) = {} /\ ask' = [ask EXCEPT ![c] = r]
    BY <1>3 DEF ListNone, Homeless
  <2>2. /\ r \in Ask /\ r.pc = "first rename"
        /\ r.user = ask[c].user /\ r.org = ask[c].org
    BY <2>1, RenameGoesOn DEF Renames
  <2> HIDE DEF r
  <2>3. Justified(c, r)
    BY <2>1, <2>2 DEF Justified, Renames, Listed
  <2> QED
    BY <2>1, <2>2, <2>3 DEF Moves
<1>4. ASSUME NEW c \in Calls, ListRenamed(c) PROVE Moves
  <2>1. CASE Over(c)
    BY <2>1, FreeJustified DEF Moves, Over
  <2>2. CASE ~Over(c)
    <3> DEFINE p == IF ask[c].pc = "rename" THEN "listed" ELSE "first listed"
               r == [ask[c] EXCEPT !.pc = p]
    <3>1. /\ ask[c].pc \in {"rename", "first rename"}
          /\ ask[c].org \in OrgsOf(ask[c].user) /\ ask' = [ask EXCEPT ![c] = r]
      BY <1>4, <2>2 DEF ListRenamed, StillListed
    <3>2. p \in Listed /\ (p \in Firsts => ask[c].pc \in Firsts) /\ ask[c].pc \in Renames
      BY <3>1 DEF Listed, Firsts, Renames
    <3> HIDE DEF p
    <3>3. r \in Ask /\ r.pc = p /\ r.user = ask[c].user /\ r.org = ask[c].org
      BY <3>2, RenameGoesOn DEF Renames
    <3> HIDE DEF r
    <3>4. Justified(c, r)
      BY <3>1, <3>2, <3>3 DEF Justified, OrgsOf
    <3> QED
      BY <3>1, <3>3, <3>4 DEF Moves
  <2> QED
    BY <2>1, <2>2
<1>5. ASSUME NEW c \in Calls, CreatePersonal(c) \/ CommitRename(c) \/ EndCall(c)
      PROVE  Moves
  BY <1>5, FreeJustified DEF Moves, Over, CreatePersonal, CommitRename, EndCall
<1>6. ASSUME NEW u \in Users, NEW o \in AllOrgs,
             CreateOrganization(u) \/ Join(u, o) \/ ChangeRank(u, o) \/ Leave(u, o)
      PROVE  ask' = ask
  BY <1>6 DEF CreateOrganization, Join, ChangeRank, Leave
<1>7. ASSUME NEW u \in Users, CreateOrganization(u) PROVE ask' = ask
  BY <1>7 DEF CreateOrganization
<1> QED
  BY <1>1, <1>2, <1>3, <1>4, <1>5, <1>6, <1>7 DEF OrgNext

\* What a step may add to the requests in flight.
LEMMA NewcomersAreJustified ==
    ASSUME OrgTypeOK, OrgNext
    PROVE  /\ ask' \in [Calls -> Ask]
           /\ \A u \in Users : OrgsOf(u) # {} => FirstCalls(u)' \subseteq FirstCalls(u)
           /\ \A o \in AllOrgs, u \in Users :
                 /\ Renaming(o, u, Renames)' => Renaming(o, u, Renames) \/ <<o, u>> \in admins
                 /\ Renaming(o, u, Listed)' => Renaming(o, u, Listed) \/ <<o, u>> \in belongs
<1>0. ask \in [Calls -> Ask]
  BY DEF OrgTypeOK
<1>1. CASE ask' = ask
  BY <1>0, <1>1 DEF FirstCalls, Renaming
<1>2. CASE Moves
  <2>1. PICK c \in Calls, r \in Ask : ask' = [ask EXCEPT ![c] = r] /\ Justified(c, r)
    BY <1>2 DEF Moves
  <2>2. /\ ask' \in [Calls -> Ask] /\ ask'[c] = r
        /\ \A d \in Calls \ {c} : ask'[d] = ask[d]
    BY <1>0, <2>1
  <2>3. \A u \in Users : OrgsOf(u) # {} => FirstCalls(u)' \subseteq FirstCalls(u)
    BY <2>1, <2>2 DEF Justified, FirstCalls
  <2>4. ASSUME NEW o \in AllOrgs, NEW u \in Users, Renaming(o, u, Renames)'
        PROVE  Renaming(o, u, Renames) \/ <<o, u>> \in admins
    <3>1. PICK d \in Calls : ask'[d].pc \in Renames /\ ask'[d].org = o /\ ask'[d].user = u
      BY <2>4 DEF Renaming
    <3> QED
      BY <2>1, <2>2, <3>1 DEF Justified, Renaming
  <2>5. ASSUME NEW o \in AllOrgs, NEW u \in Users, Renaming(o, u, Listed)'
        PROVE  Renaming(o, u, Listed) \/ <<o, u>> \in belongs
    <3>1. PICK d \in Calls : ask'[d].pc \in Listed /\ ask'[d].org = o /\ ask'[d].user = u
      BY <2>5 DEF Renaming
    <3> QED
      BY <2>1, <2>2, <3>1 DEF Justified, Renaming
  <2> QED
    BY <2>2, <2>3, <2>4, <2>5
<1> QED
  BY <1>1, <1>2, AskSteps
-----------------------------------------------------------------------------
(* Types and numbers.                                                       *)

LEMMA NewIsTyped ==
    ASSUME OrgTypeOK, NEW u \in Users, NewOrganization(u)
    PROVE  /\ created + 1 \in AllOrgs /\ created' \in 0..MaxOrgs
           /\ belongs' \subseteq (1..created') \X Users /\ admins' \subseteq belongs'
           /\ left' = left /\ belongs' = belongs \cup {<<created + 1, u>>}
<1>1. /\ created < MaxOrgs /\ created' = created + 1 /\ created \in 0..MaxOrgs
      /\ belongs \subseteq (1..created) \X Users /\ admins \subseteq belongs
      /\ belongs' = belongs \cup {<<created + 1, u>>}
      /\ admins' = admins \cup {<<created + 1, u>>} /\ left' = left
  BY DEF NewOrganization, OrgTypeOK
<1>2. MaxOrgs \in Nat
  BY OrganizationsAssumption
<1>3. /\ created + 1 \in 1..MaxOrgs /\ created' \in 0..MaxOrgs
      /\ created + 1 \in 1..created' /\ 1..created \subseteq 1..created'
  BY <1>1, <1>2
<1>4. belongs' \subseteq (1..created') \X Users
  BY <1>1, <1>3
<1> QED
  BY <1>1, <1>3, <1>4 DEF AllOrgs

LEMMA TypesKept ==
    ASSUME OrgTypeOK, OrgNext
    PROVE  OrgTypeOK'
<1> DEFINE Org == /\ created' \in 0..MaxOrgs
                  /\ personal' \in [Users -> SUBSET AllOrgs]
                  /\ belongs' \subseteq (1..created') \X Users
                  /\ admins' \subseteq belongs' /\ left' \subseteq Users
<1>0. Org \/ members' # members
  BY DEF members, OrgTypeOK
<1>1. ASSUME NEW c \in Calls, CreatePersonal(c) \/ CommitRename(c)
      PROVE  Org /\ renamed' \subseteq AllOrgs \X Users
  <2>1. renamed' \subseteq AllOrgs \X Users
    <3>1. CASE CreatePersonal(c)
      BY <3>1 DEF CreatePersonal
    <3>2. CASE CommitRename(c)
      <4>1. ask[c].pc \in Renames /\ ask[c].pc # "free"
        BY <3>2 DEF CommitRename, Renames, Listed
      <4>2. ask[c].org \in AllOrgs /\ ask[c].user \in Users
        BY <4>1, AskOf
      <4>3. renamed' = {<<ask[c].org, ask[c].user>>}
        BY <3>2 DEF CommitRename
      <4>4. <<ask[c].org, ask[c].user>> \in AllOrgs \X Users
        BY <4>2
      <4> QED
        BY <4>3, <4>4
    <3> QED
      BY <1>1, <3>1, <3>2
  <2>2. CASE members' = members
    BY <1>0, <2>1, <2>2
  <2>3. CASE members' # members
    <3>1. NewPersonal(ask[c].user) /\ ask[c].user \in Users
      BY <1>1, <2>3, AskOf DEF CreatePersonal, CommitRename, Renames, Listed
    <3>2. personal' \in [Users -> SUBSET AllOrgs]
      BY <3>1, NewIsTyped DEF NewPersonal, OrgTypeOK
    <3> QED
      BY <2>1, <3>1, <3>2, NewIsTyped DEF NewPersonal, OrgTypeOK
  <2> QED
    BY <2>2, <2>3
<1>2. ASSUME NEW u \in Users, CreateOrganization(u)
      PROVE  Org /\ renamed' \subseteq AllOrgs \X Users
  BY <1>2, NewIsTyped DEF CreateOrganization, OrgTypeOK
<1>3. ASSUME NEW u \in Users, NEW o \in AllOrgs, Join(u, o) \/ ChangeRank(u, o) \/ Leave(u, o)
      PROVE  Org /\ renamed' \subseteq AllOrgs \X Users
  <2>1. created' = created /\ personal' = personal /\ renamed' = {}
    BY <1>3 DEF Join, ChangeRank, Leave
  <2>2. CASE Join(u, o)
    BY <2>1, <2>2 DEF Join, OrgTypeOK
  <2>3. CASE ChangeRank(u, o)
    BY <2>1, <2>3 DEF ChangeRank, OrgTypeOK, OrgsOf
  <2>4. CASE Leave(u, o)
    BY <2>1, <2>4 DEF Leave, OrgTypeOK
  <2> QED
    BY <1>3, <2>2, <2>3, <2>4
<1>4. ASSUME NEW c \in Calls, ListNone(c) \/ ListRenamed(c) \/ EndCall(c)
      PROVE  Org /\ renamed' \subseteq AllOrgs \X Users
  BY <1>0, <1>4 DEF ListNone, ListRenamed, EndCall
<1>5. ASSUME NEW c \in Calls, NEW u \in Users, NEW o \in AllOrgs,
             ListOrganizations(c, u) \/ BeginRename(c, u, o)
      PROVE  Org /\ renamed' \subseteq AllOrgs \X Users
  BY <1>0, <1>5 DEF ListOrganizations, BeginRename
<1>6. ASSUME NEW c \in Calls, NEW u \in Users, ListOrganizations(c, u)
      PROVE  Org /\ renamed' \subseteq AllOrgs \X Users
  BY <1>0, <1>6 DEF ListOrganizations
<1> HIDE DEF Org
<1>7. Org /\ renamed' \subseteq AllOrgs \X Users
  BY <1>1, <1>2, <1>3, <1>4, <1>5, <1>6 DEF OrgNext
<1> QED
  BY <1>7, NewcomersAreJustified DEF Org, OrgTypeOK

\* Sets of organizations and of requests can be counted.
LEMMA CountOrgs ==
    ASSUME NEW S \in SUBSET AllOrgs
    PROVE  IsFiniteSet(S) /\ Cardinality(S) \in Nat
<1>1. IsFiniteSet(AllOrgs)
  BY OrganizationsAssumption, FS_Interval DEF AllOrgs
<1> QED
  BY <1>1, FS_Subset, FS_CardinalityType

LEMMA CountCalls ==
    ASSUME NEW S \in SUBSET Calls
    PROVE  /\ IsFiniteSet(S) /\ Cardinality(S) \in Nat
           /\ Cardinality(Calls) \in Nat /\ Cardinality(S) <= Cardinality(Calls)
  BY OrganizationsAssumption, FS_Subset, FS_CardinalityType

\* The personal organizations change only as calls that make one come to an end.
LEMMA PersonalByFirsts ==
    ASSUME OrgTypeOK, OrgNext, NEW u \in Users
    PROVE  \/ personal'[u] = personal[u]
           \/ \E c \in FirstCalls(u) : /\ NewPersonal(u) /\ ask' = [ask EXCEPT ![c] = Free]
<1>1. \/ personal' = personal
      \/ \E c \in Calls : /\ ask[c].pc \in Firsts /\ NewPersonal(ask[c].user)
                          /\ ask' = [ask EXCEPT ![c] = Free]
  BY DEF OrgNext, ListOrganizations, CreatePersonal, CreateOrganization, BeginRename,
         ListNone, ListRenamed, CommitRename, Join, ChangeRank, Leave, EndCall, Over,
         members, Firsts
<1>2. ASSUME NEW c \in Calls, ask[c].pc \in Firsts, NewPersonal(ask[c].user),
             ask' = [ask EXCEPT ![c] = Free], ask[c].user # u
      PROVE  personal'[u] = personal[u]
  BY <1>2 DEF NewPersonal, OrgTypeOK
<1> QED
  BY <1>1, <1>2 DEF FirstCalls

\* Nobody's personal organization is lost to them but by leaving.
LEMMA TheirsKept ==
    ASSUME OrgInvariant, OrgNext
    PROVE  PersonalIsTheirs'
<1> SUFFICES ASSUME NEW u \in Users, u \notin left', NEW o, o \in personal'[u]
             PROVE  o \in OrgsOf(u)'
  BY DEF PersonalIsTheirs
<1>0. OrgTypeOK
  BY DEF OrgInvariant
<1>1. \A p : <<p, u>> \in belongs => <<p, u>> \in belongs'
  BY <1>0 DEF OrgNext, ListOrganizations, CreatePersonal, CreateOrganization, BeginRename,
         ListNone, ListRenamed, CommitRename, Join, ChangeRank, Leave, EndCall,
         members, NewPersonal, NewOrganization
<1>2. u \notin left
  BY DEF OrgNext, ListOrganizations, CreatePersonal, CreateOrganization, BeginRename,
         ListNone, ListRenamed, CommitRename, Join, ChangeRank, Leave, EndCall,
         members, NewPersonal, NewOrganization
<1>3. CASE o \in personal[u]
  BY <1>1, <1>2, <1>3 DEF OrgInvariant, PersonalIsTheirs, OrgsOf
<1>4. CASE o \notin personal[u]
  <2>1. NewPersonal(u)
    BY <1>0, <1>4, PersonalByFirsts
  <2>2. o = created + 1
    BY <1>0, <1>4, <2>1 DEF NewPersonal, OrgTypeOK
  <2> QED
    BY <1>0, <2>1, <2>2, NewIsTyped DEF NewPersonal, OrgsOf
<1> QED
  BY <1>3, <1>4

\* An organization that a call has made takes the place of the call.
LEMMA CountKept ==
    ASSUME OrgInvariant, OrgNext
    PROVE  OnePerCall'
<1> SUFFICES ASSUME NEW u \in Users, u \notin left'
             PROVE  Cardinality(personal'[u]) + Cardinality(FirstCalls(u)')
                       <= Cardinality(Calls)
  BY DEF OnePerCall
<1>0. OrgTypeOK /\ OrgTypeOK' /\ u \notin left
  BY TypesKept
     DEF OrgInvariant, OrgNext, ListOrganizations, CreatePersonal, CreateOrganization,
         BeginRename, ListNone, ListRenamed, CommitRename, Join, ChangeRank, Leave,
         EndCall, members, NewPersonal, NewOrganization
<1>1. /\ personal[u] \in SUBSET AllOrgs /\ personal'[u] \in SUBSET AllOrgs
      /\ FirstCalls(u) \in SUBSET Calls /\ FirstCalls(u)' \in SUBSET Calls
      /\ ask \in [Calls -> Ask]
  BY <1>0 DEF OrgTypeOK, FirstCalls
<1>2. Cardinality(personal[u]) + Cardinality(FirstCalls(u)) <= Cardinality(Calls)
  BY <1>0 DEF OrgInvariant, OnePerCall
<1>3. CASE personal'[u] = personal[u] /\ OrgsOf(u) # {}
  <2>1. FirstCalls(u)' \subseteq FirstCalls(u)
    BY <1>0, <1>3, NewcomersAreJustified
  <2>2. Cardinality(FirstCalls(u)') <= Cardinality(FirstCalls(u))
    BY <1>1, <2>1, CountCalls, FS_Subset
  <2> QED
    BY <1>1, <1>2, <1>3, <2>2, CountOrgs, CountCalls
<1>4. CASE personal'[u] = personal[u] /\ OrgsOf(u) = {}
  <2>1. personal'[u] = {} /\ Cardinality({}) = 0
    BY <1>0, <1>4, FS_EmptySet DEF OrgInvariant, PersonalIsTheirs
  <2>2. Cardinality(FirstCalls(u)') \in Nat
        /\ Cardinality(FirstCalls(u)') <= Cardinality(Calls) /\ Cardinality(Calls) \in Nat
    BY <1>1, CountCalls
  <2> QED
    BY <2>1, <2>2
<1>5. CASE personal'[u] # personal[u]
  <2>1. PICK c \in FirstCalls(u) : NewPersonal(u) /\ ask' = [ask EXCEPT ![c] = Free]
    BY <1>0, <1>5, PersonalByFirsts
  <2>2. personal'[u] = personal[u] \cup {created + 1}
    BY <1>0, <2>1 DEF NewPersonal, OrgTypeOK
  <2>3. Cardinality(personal'[u]) <= Cardinality(personal[u]) + 1
    <3> DEFINE S == personal[u]
    <3>1. IsFiniteSet(S) /\ Cardinality(S) \in Nat
      BY <1>1, CountOrgs
    <3>2. \A x : \/ Cardinality(S \cup {x}) = Cardinality(S)
                \/ Cardinality(S \cup {x}) = Cardinality(S) + 1
      BY <3>1, FS_AddElement
    <3> HIDE DEF S
    <3>3. Cardinality(personal'[u]) \in {Cardinality(S), Cardinality(S) + 1}
      <4>1. personal'[u] = S \cup {created + 1}
        BY <2>2 DEF S
      <4> QED
        BY <4>1, <3>2
    <3>4. Cardinality(personal'[u]) <= Cardinality(S) + 1
      BY <3>1, <3>3
    <3> QED
      BY <3>4 DEF S
  <2>4. FirstCalls(u)' = FirstCalls(u) \ {c}
    BY <1>1, <2>1 DEF FirstCalls, Free, Firsts
  <2>5. Cardinality(FirstCalls(u)') = Cardinality(FirstCalls(u)) - 1
    BY <1>1, <2>4, CountCalls, FS_RemoveElement
  <2> QED
    BY <1>1, <1>2, <2>3, <2>5, CountOrgs, CountCalls
<1> QED
  BY <1>3, <1>4, <1>5

THEOREM OrgInitial == OrgInit => OrgInvariant
<1> SUFFICES ASSUME OrgInit PROVE OrgInvariant
  OBVIOUS
<1>1. OrgTypeOK
  BY OrganizationsAssumption DEF OrgInit, OrgTypeOK, Ask
<1>2. PersonalIsTheirs
  BY DEF OrgInit, PersonalIsTheirs
<1>3. OnePerCall
  <2>1. \A u \in Users : personal[u] = {} /\ FirstCalls(u) = {}
    BY DEF OrgInit, FirstCalls, Free, Firsts
  <2>2. Cardinality({}) = 0 /\ Cardinality(Calls) \in Nat
    BY CountCalls, FS_EmptySet
  <2> QED
    BY <2>1, <2>2 DEF OnePerCall
<1> QED
  BY <1>1, <1>2, <1>3 DEF OrgInvariant

\* Every step keeps the invariant.
THEOREM OrgStep == OrgInvariant /\ [OrgNext]_orgVars => OrgInvariant'
<1>1. OrgInvariant /\ OrgNext => OrgInvariant'
  BY TypesKept, TheirsKept, CountKept DEF OrgInvariant
<1>2. OrgInvariant /\ UNCHANGED orgVars => OrgInvariant'
  BY DEF orgVars, members, OrgInvariant, OrgTypeOK, PersonalIsTheirs, OnePerCall, OrgsOf,
         FirstCalls
<1> QED
  BY <1>1, <1>2

THEOREM OrgSafe == OrgSpec => []OrgInvariant
  BY OrgInitial, OrgStep, PTL DEF OrgSpec

Housed(u) ==
    OrgsOf(u) # {} /\ FirstCalls(u) = {} =>
        /\ personal'[u] = personal[u]
        /\ OrgsOf(u)' # {} => FirstCalls(u)' = {}

ByAdmin(o, u) ==
    Powerless(o, u) => /\ <<o, u>> \notin renamed'
                       /\ <<o, u>> \in admins' \/ Powerless(o, u)'

ByMember(o, u) ==
    Outsider(o, u) => /\ <<o, u>> \notin renamed'
                      /\ <<o, u>> \in belongs' \/ Outsider(o, u)'

\* Only a rename whose listing was made is committed.
LEMMA RenamedWasListed ==
    ASSUME OrgNext, NEW o \in AllOrgs, NEW u \in Users, <<o, u>> \in renamed'
    PROVE  Renaming(o, u, Listed)
<1>1. PICK c \in Calls : CommitRename(c)
  BY DEF OrgNext, ListOrganizations, CreatePersonal, CreateOrganization, BeginRename,
         ListNone, ListRenamed, Join, ChangeRank, Leave, EndCall
<1> QED
  BY <1>1 DEF CommitRename, Renaming, Listed

\* Memberships, as they are or as a request in flight had read them, decide.
LEMMA MembersDecide ==
    ASSUME OrgInvariant, OrgNext
    PROVE  /\ \A u \in Users : Housed(u)
           /\ \A o \in AllOrgs, u \in Users : ByAdmin(o, u) /\ ByMember(o, u)
<1>0. OrgTypeOK
  BY DEF OrgInvariant
<1>1. \A u \in Users : Housed(u)
  <2> TAKE u \in Users
  <2>1. personal'[u] = personal[u] \/ FirstCalls(u) # {}
    BY <1>0, PersonalByFirsts
  <2> QED
    BY <1>0, <2>1, NewcomersAreJustified DEF Housed
<1>2. ASSUME NEW o \in AllOrgs, NEW u \in Users PROVE ByAdmin(o, u)
  <2>1. Renaming(o, u, Listed) => Renaming(o, u, Renames)
    BY DEF Renaming, Renames
  <2> QED
    BY <1>0, <2>1, RenamedWasListed, NewcomersAreJustified DEF ByAdmin, Powerless
<1>3. ASSUME NEW o \in AllOrgs, NEW u \in Users PROVE ByMember(o, u)
  BY <1>0, RenamedWasListed, NewcomersAreJustified DEF ByMember, Outsider
<1> QED
  BY <1>1, <1>2, <1>3

\* Who is given a personal organization and whose renames land is decided by the
\* memberships, up to what a request in flight had read of them, for any number of
\* users, organizations and requests (list_organizations, rename_organization).
THEOREM MembersHaveTheSay == OrgSpec => MembershipDecides
<1>1. OrgInvariant /\ [OrgNext]_orgVars =>
         /\ [\A u \in Users : Housed(u)]_orgVars
         /\ [\A o \in AllOrgs, u \in Users : ByAdmin(o, u)]_orgVars
         /\ [\A o \in AllOrgs, u \in Users : ByMember(o, u)]_orgVars
  BY MembersDecide
<1>2. OrgSpec => /\ [][\A u \in Users : Housed(u)]_orgVars
                 /\ [][\A o \in AllOrgs, u \in Users : ByAdmin(o, u)]_orgVars
                 /\ [][\A o \in AllOrgs, u \in Users : ByMember(o, u)]_orgVars
  BY <1>1, OrgSafe, PTL DEF OrgSpec
<1>3. OrgInvariant => OnePerCall
  BY DEF OrgInvariant
<1>4. OrgSpec => []OnePerCall
  BY <1>3, OrgSafe, PTL
<1> QED
  BY <1>2, <1>4 DEF MembershipDecides, HousedForGood, RenamedByAdmin, RenamedByMember,
                    Housed, ByAdmin, ByMember
-----------------------------------------------------------------------------
(* Tenancy.  What a request holds belongs to the organization it entered.   *)

TenancyInvariant == TenancyTypeOK /\ NothingForeign

LEMMA Rows == /\ NoRow \notin TenantIds /\ Gone \notin TenantIds /\ NoRow # Gone
              /\ MaxTenants \in Nat
  BY TenancyAssumption DEF TenantIds, NoRow, Gone

\* What a request is doing, by the record that says so.
LEMMA RequestOf ==
    ASSUME TenancyTypeOK, NEW c \in Requests, request[c].pc = "entered"
    PROVE  /\ request[c] \in [pc : {"entered"}, user : People, org : TenantIds,
                              row : Items \cup {NoRow}, member : BOOLEAN]
           /\ request[c].org \in TenantIds /\ request[c].row \in Items \cup {NoRow}
<1>1. request[c] \in Request /\ request[c] # Idle
  BY DEF TenancyTypeOK, Idle
<1> QED
  BY <1>1 DEF Request

THEOREM TenancyInitial == TenancyInit => TenancyInvariant
<1> SUFFICES ASSUME TenancyInit PROVE TenancyInvariant
  OBVIOUS
<1>1. TenancyTypeOK
  BY DEF TenancyInit, TenancyTypeOK, NoRow, Request
<1>2. NothingForeign
  BY DEF TenancyInit, NothingForeign, Idle
<1> QED
  BY <1>1, <1>2 DEF TenancyInvariant
-----------------------------------------------------------------------------
\* A step that only moves one request on, by what it moves it to.
LEMMA RequestMoves ==
    ASSUME TenancyInvariant, NEW c \in Requests, NEW r \in Request,
           request' = [request EXCEPT ![c] = r]
    PROVE  /\ request' \in [Requests -> Request] /\ request'[c] = r
           /\ \A d \in Requests \ {c} : request'[d] = request[d]
  BY DEF TenancyInvariant, TenancyTypeOK

LEMMA RequestEnds ==
    ASSUME TenancyInvariant, NEW c \in Requests, RequestOver(c)
    PROVE  /\ request' \in [Requests -> Request] /\ request'[c] = Idle
           /\ \A d \in Requests \ {c} : request'[d] = request[d]
           /\ request'[c].pc # "entered"
<1>1. Idle \in Request /\ Idle.pc # "entered"
  BY DEF Request, Idle
<1> QED
  BY <1>1, RequestMoves DEF RequestOver

LEMMA EnterKeeps ==
    ASSUME TenancyInvariant, NEW c \in Requests, NEW u \in People, NEW o \in TenantIds,
           Enter(c, u, o)
    PROVE  TenancyInvariant'
<1> DEFINE r == [pc |-> "entered", user |-> u, org |-> o, row |-> NoRow,
                 member |-> <<o, u>> \in memberOf]
<1>1. r \in Request
  BY DEF Request
<1>2. r.pc = "entered" /\ r.row = NoRow
  OBVIOUS
<1>3. r.member = (<<o, u>> \in memberOf)
  BY Zenon
<1>4. /\ request' = [request EXCEPT ![c] = r] /\ <<o, u>> \in memberOf
      /\ UNCHANGED <<memberOf, owner>>
  BY DEF Enter, Admitted
<1> HIDE DEF r
<1>5. r.member
  BY <1>3, <1>4, Zenon
<1>6. /\ request' \in [Requests -> Request] /\ request'[c] = r
      /\ \A d \in Requests \ {c} : request'[d] = request[d]
  BY <1>1, <1>4, RequestMoves
<1>7. NothingForeign'
  BY <1>2, <1>4, <1>5, <1>6 DEF TenancyInvariant, NothingForeign
<1> QED
  BY <1>4, <1>6, <1>7 DEF TenancyInvariant, TenancyTypeOK

LEMMA GetKeeps ==
    ASSUME TenancyInvariant, NEW c \in Requests, NEW i \in Items, GetItem(c, i)
    PROVE  TenancyInvariant'
<1> DEFINE r == [request[c] EXCEPT !.row = i]
<1>1. /\ request[c].pc = "entered" /\ owner[i] = request[c].org
      /\ request' = [request EXCEPT ![c] = r] /\ UNCHANGED <<memberOf, owner>>
  BY DEF GetItem, Query
<1>2. request[c] \in [pc : {"entered"}, user : People, org : TenantIds,
                      row : Items \cup {NoRow}, member : BOOLEAN]
  BY <1>1, RequestOf DEF TenancyInvariant
<1>3. r \in [pc : {"entered"}, user : People, org : TenantIds,
             row : Items \cup {NoRow}, member : BOOLEAN]
  BY <1>2
<1>4. r.pc = "entered" /\ r.row = i /\ r.org = request[c].org
  BY <1>2
<1>5. r.member = request[c].member
  BY <1>2, Zenon
<1>6. request[c].member
  BY <1>1 DEF TenancyInvariant, NothingForeign
<1> HIDE DEF r
<1>7. r \in Request
  BY <1>3 DEF Request
<1>8. /\ request' \in [Requests -> Request] /\ request'[c] = r
      /\ \A d \in Requests \ {c} : request'[d] = request[d]
  BY <1>1, <1>7, RequestMoves
<1>9. NothingForeign'
  <2> SUFFICES ASSUME NEW d \in Requests, request'[d].pc = "entered"
               PROVE  /\ request'[d].member
                      /\ request'[d].row # NoRow =>
                            owner'[request'[d].row] \in {request'[d].org, Gone}
    BY DEF NothingForeign
  <2>1. CASE d = c
    <3>1. request'[d].member
      BY <1>5, <1>6, <1>8, <2>1, Zenon
    <3> QED
      BY <1>1, <1>4, <1>8, <2>1, <3>1
  <2>2. CASE d # c
    BY <1>1, <1>8, <2>2 DEF TenancyInvariant, NothingForeign
  <2> QED
    BY <2>1, <2>2
<1> QED
  BY <1>1, <1>8, <1>9 DEF TenancyInvariant, TenancyTypeOK

LEMMA AddKeeps ==
    ASSUME TenancyInvariant, NEW c \in Requests, NEW i \in Items, AddItem(c, i)
    PROVE  TenancyInvariant'
<1>1. /\ request[c].pc = "entered" /\ owner[i] = NoRow
      /\ owner' = [owner EXCEPT ![i] = request[c].org] /\ UNCHANGED <<memberOf, request>>
  BY DEF AddItem, Stamp
<1>2. request[c].org \in TenantIds /\ owner \in [Items -> TenantIds \cup {NoRow, Gone}]
  BY <1>1, RequestOf DEF TenancyInvariant, TenancyTypeOK
<1>3. owner' \in [Items -> TenantIds \cup {NoRow, Gone}]
  BY <1>1, <1>2
<1>4. NothingForeign'
  <2> SUFFICES ASSUME NEW d \in Requests, request[d].pc = "entered", request[d].row # NoRow
               PROVE  owner'[request[d].row] \in {request[d].org, Gone}
    BY <1>1 DEF NothingForeign, TenancyInvariant
  <2>1. owner[request[d].row] \in {request[d].org, Gone} /\ request[d].org \in TenantIds
    BY RequestOf DEF NothingForeign, TenancyInvariant
  <2>2. request[d].row # i
    BY <1>1, <2>1, Rows
  <2>3. request[d].row \in Items
    BY RequestOf DEF TenancyInvariant
  <2> QED
    BY <1>1, <1>2, <2>1, <2>2, <2>3
<1> QED
  BY <1>1, <1>3, <1>4 DEF TenancyInvariant, TenancyTypeOK

LEMMA DeleteKeeps ==
    ASSUME TenancyInvariant, NEW c \in Requests, DeleteItem(c)
    PROVE  TenancyInvariant'
<1>1. /\ request[c].pc = "entered" /\ request[c].row # NoRow
      /\ owner' = [owner EXCEPT ![request[c].row] = Gone] /\ RequestOver(c)
      /\ UNCHANGED memberOf
  BY DEF DeleteItem
<1>2. owner' \in [Items -> TenantIds \cup {NoRow, Gone}]
  BY <1>1 DEF TenancyInvariant, TenancyTypeOK
<1>3. NothingForeign'
  <2> SUFFICES ASSUME NEW d \in Requests, request'[d].pc = "entered"
               PROVE  /\ request'[d].member
                      /\ request'[d].row # NoRow =>
                            owner'[request'[d].row] \in {request'[d].org, Gone}
    BY DEF NothingForeign
  <2>1. request'[d] = request[d]
    BY <1>1, RequestEnds
  <2>2. /\ request[d].member
        /\ request[d].row # NoRow => owner[request[d].row] \in {request[d].org, Gone}
        /\ request[d].row # NoRow => request[d].row \in Items
    BY <2>1, RequestOf DEF NothingForeign, TenancyInvariant
  <2>3. owner \in [Items -> TenantIds \cup {NoRow, Gone}]
    BY DEF TenancyInvariant, TenancyTypeOK
  <2> QED
    BY <1>1, <2>1, <2>2, <2>3
<1> QED
  BY <1>1, <1>2, <1>3, RequestEnds DEF TenancyInvariant, TenancyTypeOK

\* Who joins or leaves meanwhile touches no row and no request that was let in.
LEMMA OthersKeep ==
    ASSUME TenancyInvariant,
           \/ \E o \in TenantIds, u \in People : Admit(o, u) \/ Dismiss(o, u)
           \/ \E c \in Requests : EndRequest(c)
    PROVE  TenancyInvariant'
<1>1. ASSUME NEW o \in TenantIds, NEW u \in People, Admit(o, u) \/ Dismiss(o, u)
      PROVE  TenancyInvariant'
  <2>1. memberOf' \subseteq TenantIds \X People /\ UNCHANGED <<owner, request>>
    BY <1>1 DEF Admit, Dismiss, TenancyInvariant, TenancyTypeOK
  <2> QED
    BY <2>1 DEF TenancyInvariant, TenancyTypeOK, NothingForeign
<1>2. ASSUME NEW c \in Requests, EndRequest(c)
      PROVE  TenancyInvariant'
  <2>1. RequestOver(c) /\ UNCHANGED <<memberOf, owner>>
    BY <1>2 DEF EndRequest
  <2>2. NothingForeign'
    BY <2>1, RequestEnds DEF NothingForeign, TenancyInvariant
  <2> QED
    BY <2>1, <2>2, RequestEnds DEF TenancyInvariant, TenancyTypeOK
<1> QED
  BY <1>1, <1>2
-----------------------------------------------------------------------------
\* Every step keeps the invariant.
THEOREM TenancyStep == TenancyInvariant /\ [TenancyNext]_tenancyVars => TenancyInvariant'
<1> SUFFICES ASSUME TenancyInvariant, [TenancyNext]_tenancyVars PROVE TenancyInvariant'
  OBVIOUS
<1>1. CASE TenancyNext
  BY <1>1, EnterKeeps, GetKeeps, AddKeeps, DeleteKeeps, OthersKeep DEF TenancyNext
<1>2. CASE UNCHANGED tenancyVars
  BY <1>2 DEF tenancyVars, TenancyInvariant, TenancyTypeOK, NothingForeign
<1> QED
  BY <1>1, <1>2

THEOREM TenancySafe == TenancySpec => []TenancyInvariant
  BY TenancyInitial, TenancyStep, PTL DEF TenancySpec

RowMoves(i) ==
    \E c \in Requests : /\ request[c].pc = "entered"
                        /\ \/ owner[i] = NoRow /\ owner'[i] = request[c].org
                           \/ owner[i] = request[c].org /\ owner'[i] = Gone

\* A step that changes whose a row is adds or deletes it.
LEMMA RowsMove ==
    ASSUME TenancyInvariant, TenancyNext, NEW i \in Items, owner'[i] # owner[i]
    PROVE  RowMoves(i)
<1>0. owner \in [Items -> TenantIds \cup {NoRow, Gone}]
  BY DEF TenancyInvariant, TenancyTypeOK
<1>1. ASSUME NEW c \in Requests, NEW j \in Items, AddItem(c, j) PROVE RowMoves(i)
  <2>1. /\ request[c].pc = "entered" /\ owner[j] = NoRow
        /\ owner' = [owner EXCEPT ![j] = request[c].org]
    BY <1>1 DEF AddItem, Stamp
  <2> QED
    BY <1>0, <2>1 DEF RowMoves
<1>2. ASSUME NEW c \in Requests, DeleteItem(c) PROVE RowMoves(i)
  <2>1. /\ request[c].pc = "entered" /\ request[c].row # NoRow
        /\ owner' = [owner EXCEPT ![request[c].row] = Gone]
    BY <1>2 DEF DeleteItem
  <2>2. owner[request[c].row] \in {request[c].org, Gone}
    BY <2>1 DEF TenancyInvariant, NothingForeign
  <2> QED
    BY <1>0, <2>1, <2>2 DEF RowMoves
<1>3. \/ owner' = owner
      \/ \E c \in Requests, j \in Items : AddItem(c, j)
      \/ \E c \in Requests : DeleteItem(c)
  BY DEF TenancyNext, Admit, Dismiss, EndRequest, Enter, GetItem
<1> QED
  BY <1>1, <1>2, <1>3

\* Tenants are apart, for any number of users, organizations, rows and requests:
\* no request holds or moves a row of an organization its user was not a member
\* of when it came in (get_current_tenant, TenantScopedRepository).
THEOREM TenantsStayApart == TenancySpec => TenantsApart
<1>1. TenancyInvariant => NothingForeign
  BY DEF TenancyInvariant
<1>2. TenancyInvariant /\ [TenancyNext]_tenancyVars =>
         [\A i \in Items : owner'[i] # owner[i] => RowMoves(i)]_tenancyVars
  BY RowsMove
<1>3. TenancySpec => [][\A i \in Items : owner'[i] # owner[i] => RowMoves(i)]_tenancyVars
  BY <1>2, TenancySafe, PTL DEF TenancySpec
<1>4. TenancySpec => RowsStayPut
  BY <1>3 DEF RowsStayPut, RowMoves
<1>5. TenancySpec => []NothingForeign
  BY <1>1, TenancySafe, PTL
<1> QED
  BY <1>4, <1>5 DEF TenantsApart
-----------------------------------------------------------------------------
(* LLMSettings.  The changes an update is going to write complete the row   *)
(* to what was validated, and a slot of the cache tells its object.         *)

Merged(columns, changes) ==
    [c \in Columns |-> IF c \in DOMAIN changes THEN changes[c] ELSE columns[c]]

\* An update in flight changes no key it does not name; where it inserts the row,
\* such a key is the one of a new row.
NamesItsKeys(e) ==
    /\ edit[e].org \in Orgs /\ edit[e].insert \in BOOLEAN
    /\ DOMAIN edit[e].changes \subseteq Columns
    /\ "chat_provider" \in DOMAIN edit[e].changes =>
          edit[e].changes.chat_provider \in DOMAIN CHAT_PROVIDERS
    /\ \A f \in KEY_FIELDS \cap DOMAIN edit[e].changes :
          f \in edit[e].named \/ (edit[e].insert /\ edit[e].changes[f] = NewSettings[f])

\* Where updates do not overlap, the row is still the one that was validated.
StillValid(e) ==
    /\ Valid(Merged(settings[edit[e].org].columns, edit[e].changes))
    /\ \A f \in Editors \ {e} : edit[f] = NoEdit

EditsAreSound ==
    \A e \in Editors : edit[e] # NoEdit =>
        /\ edit[e].pc = "validated"
        /\ NamesItsKeys(e)
        /\ ~overlapping => StillValid(e)

Shape ==
    /\ DOMAIN settings = Orgs /\ DOMAIN edit = Editors /\ DOMAIN cache = Targets
    /\ \A o \in Orgs : {"saved", "columns"} \subseteq DOMAIN settings[o]

Told(slot) == [provider |-> slot[1], model |-> slot[2], key |-> slot[3]]

\* A slot tells its object.
CacheTells ==
    \A target \in Targets :
        /\ IsFiniteSet(DOMAIN cache[target])
        /\ \A s \in DOMAIN cache[target] : cache[target][s] = Told(s)

SettingsInvariant ==
    /\ SettingsTypeOK /\ Shape /\ EditsAreSound /\ CacheTells
    /\ PairInCatalog /\ ServedAsConfigured
-----------------------------------------------------------------------------
LEMMA NewIsValid == /\ Valid(NewSettings) /\ NewSettings.chat_provider \in DOMAIN CHAT_PROVIDERS
                    /\ KEY_FIELDS \subseteq Columns \ {"chat_provider", "chat_model"}
                    /\ "chat_provider" \in Columns
  BY LLMSettingsAssumption DEF Valid, KEY_FIELDS, Columns

THEOREM SettingsInitial == SettingsInit => SettingsInvariant
<1> SUFFICES ASSUME SettingsInit PROVE SettingsInvariant
  OBVIOUS
<1>1. \A o \in Orgs : settings[o] = [saved |-> FALSE, columns |-> NewSettings]
  BY DEF SettingsInit
<1>2. \A target \in Targets : DOMAIN cache[target] = {}
  BY DEF SettingsInit
<1>3. 0 <= CACHE_MAX /\ Cardinality({}) = 0 /\ IsFiniteSet({})
  BY LLMSettingsAssumption, FS_EmptySet
<1>4. SettingsTypeOK
  <2>1. \A o \in Orgs : settings[o].saved = FALSE /\ settings[o].columns = NewSettings
    BY <1>1
  <2>2. \A target \in Targets : Cardinality(DOMAIN cache[target]) <= CACHE_MAX
    BY <1>2, <1>3, Zenon
  <2> QED
    BY <2>1, <2>2, NewIsValid DEF SettingsTypeOK, Columns
<1>5. Shape
  BY DEF SettingsInit, Shape
<1>6. CacheTells /\ PairInCatalog
  BY <1>1, <1>2, <1>3, NewIsValid DEF CacheTells, PairInCatalog
<1>7. EditsAreSound /\ ServedAsConfigured
  BY DEF SettingsInit, EditsAreSound, ServedAsConfigured
<1> QED
  BY <1>4, <1>5, <1>6, <1>7 DEF SettingsInvariant
-----------------------------------------------------------------------------
\* What an update is going to write, merged into the row it was made from, is
\* what was validated.
LEMMA ChangesSuffice ==
    ASSUME NEW old, NEW payload \in Payloads
    PROVE  LET new == Updated(old, payload)
           IN  /\ \A c \in Columns : Merged(old, Changes(old, new, payload))[c] = new[c]
               /\ \A c \in Columns : Merged(old, new)[c] = new[c]
               /\ Valid(new) => /\ Valid(Merged(old, Changes(old, new, payload)))
                                /\ Valid(Merged(old, new))
<1> DEFINE new == Updated(old, payload)
<1>1. DOMAIN new = Columns
  BY DEF Updated
<1>2. \A c \in Columns : Merged(old, Changes(old, new, payload))[c] = new[c]
  BY DEF Merged, Changes
<1>3. \A c \in Columns : Merged(old, new)[c] = new[c]
  BY <1>1 DEF Merged
<1>4. {"chat_provider", "chat_model", "embedding_provider"} \subseteq Columns
  BY LLMSettingsAssumption DEF Columns
<1> HIDE DEF new
<1>5. Valid(new) => /\ Valid(Merged(old, Changes(old, new, payload)))
                    /\ Valid(Merged(old, new))
  BY <1>2, <1>3, <1>4 DEF Valid
<1> QED
  BY <1>2, <1>3, <1>5 DEF new

\* A key that an update does not name stays what it was.
LEMMA UnnamedStays ==
    ASSUME NEW old, NEW payload \in Payloads, NEW f \in KEY_FIELDS, payload[f] = Omitted
    PROVE  LET new == Updated(old, payload)
           IN  new[f] = old[f] /\ f \notin DOMAIN Changes(old, new, payload)
<1> DEFINE new == Updated(old, payload)
<1>1. f \in Columns /\ f # "chat_model"
  BY NewIsValid
<1>2. new[f] = old[f]
  BY <1>1 DEF Updated
<1> HIDE DEF new
<1>3. f \notin DOMAIN Changes(old, new, payload)
  BY <1>2 DEF Changes
<1> QED
  BY <1>2, <1>3 DEF new

LEMMA BeginKeeps ==
    ASSUME SettingsInvariant, NEW e \in Editors, BeginEdit(e)
    PROVE  SettingsInvariant'
<1>1. PICK o \in Orgs, payload \in Payloads :
          LET old == settings[o].columns
              new == Updated(old, payload)
          IN /\ Accepted(new)
             /\ edit' = [edit EXCEPT ![e] =
                   [pc |-> "validated", org |-> o, insert |-> ~settings[o].saved,
                    changes |-> IF settings[o].saved THEN Changes(old, new, payload) ELSE new,
                    named |-> {f \in KEY_FIELDS : payload[f] # Omitted}]]
  BY DEF BeginEdit
<1> DEFINE old == settings[o].columns
           new == Updated(old, payload)
           changes == IF settings[o].saved THEN Changes(old, new, payload) ELSE new
           named == {f \in KEY_FIELDS : payload[f] # Omitted}
           insert == ~settings[o].saved
           r == [pc |-> "validated", org |-> o, insert |-> insert, changes |-> changes,
                 named |-> named]
<1>2. /\ edit' = [edit EXCEPT ![e] = r] /\ Valid(new) /\ served' = Nobody
      /\ UNCHANGED <<settings, cache, overlapping>>
      /\ overlapping \/ \A f \in Editors : edit[f] = NoEdit
  BY <1>1 DEF BeginEdit, Accepted
<1>3. /\ edit'[e] = r /\ \A f \in Editors \ {e} : edit'[f] = edit[f]
      /\ DOMAIN edit' = Editors
  BY <1>2 DEF SettingsInvariant, Shape
<1>4. /\ r.pc = "validated" /\ r.org = o /\ r.changes = changes /\ r.named = named
  OBVIOUS
<1>5. r.insert = insert
  BY Zenon
<1>6. settings[o].saved \in BOOLEAN /\ (~settings[o].saved => old = NewSettings)
  BY DEF SettingsInvariant, SettingsTypeOK
<1>7. Valid(Merged(old, changes))
  BY <1>2, <1>6, ChangesSuffice
<1>8. \A f \in KEY_FIELDS \cap DOMAIN changes :
          f \in named \/ (insert /\ changes[f] = NewSettings[f])
  BY <1>6, UnnamedStays
<1>9. DOMAIN changes \subseteq Columns
  BY DEF Changes, Updated
<1>10. "chat_provider" \in DOMAIN changes => changes.chat_provider \in DOMAIN CHAT_PROVIDERS
  <2>1. old.chat_provider \in DOMAIN CHAT_PROVIDERS
    BY DEF SettingsInvariant, SettingsTypeOK
  <2>2. new["chat_provider"] \in DOMAIN CHAT_PROVIDERS
    BY <2>1, NewIsValid, LLMSettingsAssumption DEF Updated
  <2> HIDE DEF new
  <2> QED
    BY <2>2 DEF Changes
<1> HIDE DEF r, changes, named, insert, old, new
<1>11. NamesItsKeys(e)'
  <2>1. insert \in BOOLEAN
    BY DEF insert
  <2>2. \A f \in KEY_FIELDS \cap DOMAIN edit'[e].changes :
            f \in edit'[e].named
            \/ (edit'[e].insert /\ edit'[e].changes[f] = NewSettings[f])
    <3> SUFFICES ASSUME NEW f \in KEY_FIELDS \cap DOMAIN changes, f \notin named
                 PROVE  edit'[e].insert /\ edit'[e].changes[f] = NewSettings[f]
      BY <1>3, <1>4
    <3>1. insert /\ changes[f] = NewSettings[f]
      BY <1>8
    <3>2. edit'[e].insert
      BY <1>3, <1>5, <3>1, Zenon
    <3> QED
      BY <1>3, <1>4, <3>1, <3>2
  <2>3. edit'[e].insert \in BOOLEAN
    BY <1>3, <1>5, <2>1, Zenon
  <2>4. edit'[e].org \in Orgs /\ DOMAIN edit'[e].changes \subseteq Columns
    BY <1>3, <1>4, <1>9
  <2>5. "chat_provider" \in DOMAIN edit'[e].changes =>
           edit'[e].changes.chat_provider \in DOMAIN CHAT_PROVIDERS
    BY <1>3, <1>4, <1>10
  <2> QED
    BY <2>2, <2>3, <2>4, <2>5 DEF NamesItsKeys
<1>12. ~overlapping => StillValid(e)'
  BY <1>2, <1>3, <1>4, <1>7 DEF StillValid, old
<1>13. EditsAreSound'
  <2> SUFFICES ASSUME NEW f \in Editors, edit'[f] # NoEdit
               PROVE  /\ edit'[f].pc = "validated" /\ NamesItsKeys(f)'
                      /\ ~overlapping => StillValid(f)'
    BY <1>2 DEF EditsAreSound
  <2>1. CASE f = e
    BY <1>3, <1>4, <1>11, <1>12, <2>1
  <2>2. CASE f # e
    <3>1. edit'[f] = edit[f] /\ overlapping
      BY <1>2, <1>3, <2>2
    <3> QED
      BY <3>1 DEF SettingsInvariant, EditsAreSound, NamesItsKeys
  <2> QED
    BY <2>1, <2>2
<1> QED
  BY <1>2, <1>3, <1>13 DEF SettingsInvariant, SettingsTypeOK, Shape, CacheTells,
     PairInCatalog, ServedAsConfigured, Nobody

LEMMA RowWritten ==
    ASSUME SettingsInvariant, NEW e \in Editors, edit[e].pc = "validated",
           edit[e].insert => InsertAccepted(edit[e].org),
           settings' = [settings EXCEPT ![edit[e].org] =
              [saved |-> TRUE, columns |-> Merged(settings[edit[e].org].columns, edit[e].changes)]]
    PROVE  LET o == edit[e].org
           IN  /\ settings'[o].saved /\ {"saved", "columns"} \subseteq DOMAIN settings'[o]
               /\ settings'[o].columns = Merged(settings[o].columns, edit[e].changes)
               /\ \A p \in Orgs \ {o} : settings'[p] = settings[p]
               /\ DOMAIN settings' = Orgs
<1>1. edit[e].org \in Orgs /\ DOMAIN settings = Orgs
  BY DEF SettingsInvariant, EditsAreSound, NamesItsKeys, NoEdit, Shape
<1> QED
  BY <1>1

LEMMA CommitKeeps ==
    ASSUME SettingsInvariant, NEW e \in Editors, CommitEdit(e)
    PROVE  SettingsInvariant'
<1> DEFINE o == edit[e].org
<1>1. /\ edit[e].pc = "validated" /\ edit' = [edit EXCEPT ![e] = NoEdit] /\ served' = Nobody
      /\ cache' = cache /\ overlapping' = overlapping
      /\ \/ settings' = settings
         \/ /\ edit[e].insert => InsertAccepted(o)
            /\ settings' = [settings EXCEPT ![o] =
                  [saved |-> TRUE, columns |-> Merged(settings[o].columns, edit[e].changes)]]
  BY DEF CommitEdit, Merged
<1>2. /\ edit'[e] = NoEdit /\ \A f \in Editors \ {e} : edit'[f] = edit[f]
      /\ DOMAIN edit' = Editors
  BY <1>1 DEF SettingsInvariant, Shape
<1>3. edit[e] # NoEdit /\ NamesItsKeys(e) /\ (~overlapping => StillValid(e))
  BY <1>1 DEF SettingsInvariant, EditsAreSound, NoEdit
<1>4. EditsAreSound'
  BY <1>1, <1>2, <1>3 DEF SettingsInvariant, EditsAreSound, NamesItsKeys, StillValid
<1>5. CASE settings' = settings
  BY <1>1, <1>2, <1>4, <1>5 DEF SettingsInvariant, SettingsTypeOK, Shape, CacheTells,
     PairInCatalog, ServedAsConfigured, Nobody
<1>6. CASE settings' # settings
  <2>1. /\ settings'[o].saved /\ {"saved", "columns"} \subseteq DOMAIN settings'[o]
        /\ settings'[o].columns = Merged(settings[o].columns, edit[e].changes)
        /\ \A p \in Orgs \ {o} : settings'[p] = settings[p]
        /\ DOMAIN settings' = Orgs
        /\ settings'[o].saved = TRUE
    BY <1>1, <1>6, RowWritten
  <2>2. settings'[o].columns.chat_provider \in DOMAIN CHAT_PROVIDERS
    BY <1>3, <2>1, NewIsValid
       DEF SettingsInvariant, SettingsTypeOK, Merged, NamesItsKeys
  <2>3. DOMAIN settings'[o].columns = Columns
    BY <2>1 DEF Merged
  <2>4. SettingsTypeOK'
    BY <1>1, <2>1, <2>2, <2>3 DEF SettingsInvariant, SettingsTypeOK
  <2>5. PairInCatalog'
    BY <1>1, <1>3, <2>1 DEF SettingsInvariant, PairInCatalog, StillValid
  <2> QED
    BY <1>1, <1>2, <1>4, <2>1, <2>4, <2>5 DEF SettingsInvariant, Shape, CacheTells,
       ServedAsConfigured, Nobody
<1> QED
  BY <1>5, <1>6

LEMMA EditFailsKeeps ==
    ASSUME SettingsInvariant, NEW e \in Editors, EditFails(e)
    PROVE  SettingsInvariant'
<1>1. /\ edit' = [edit EXCEPT ![e] = NoEdit] /\ served' = Nobody
      /\ UNCHANGED <<settings, cache, overlapping>>
  BY DEF EditFails
<1>2. /\ edit'[e] = NoEdit /\ \A f \in Editors \ {e} : edit'[f] = edit[f]
      /\ DOMAIN edit' = Editors
  BY <1>1 DEF SettingsInvariant, Shape
<1>3. EditsAreSound'
  BY <1>1, <1>2 DEF SettingsInvariant, EditsAreSound, NamesItsKeys, StillValid
<1> QED
  BY <1>1, <1>2, <1>3 DEF SettingsInvariant, SettingsTypeOK, Shape, CacheTells,
     PairInCatalog, ServedAsConfigured, Nobody

\* There is room for one more object, or the cache is cleared.
LEMMA RoomForOne ==
    ASSUME NEW slots, IsFiniteSet(DOMAIN slots), Cardinality(DOMAIN slots) <= CACHE_MAX,
           NEW slot
    PROVE  /\ IsFiniteSet(DOMAIN Room(slots) \cup {slot})
           /\ Cardinality(DOMAIN Room(slots) \cup {slot}) <= CACHE_MAX
           /\ \A s \in DOMAIN Room(slots) : s \in DOMAIN slots /\ Room(slots)[s] = slots[s]
<1>1. CACHE_MAX \in Nat \ {0} /\ Cardinality(DOMAIN slots) \in Nat
  BY LLMSettingsAssumption, FS_CardinalityType
<1>2. CASE Cardinality(DOMAIN slots) >= CACHE_MAX
  <2>1. DOMAIN Room(slots) = {}
    BY <1>2 DEF Room
  <2>2. IsFiniteSet({}) /\ Cardinality({}) = 0
    BY FS_EmptySet
  <2>3. IsFiniteSet({} \cup {slot}) /\ Cardinality({} \cup {slot}) = 1
    BY <2>2, FS_AddElement
  <2> QED
    BY <1>1, <2>1, <2>3
<1>3. CASE ~(Cardinality(DOMAIN slots) >= CACHE_MAX)
  <2>1. Room(slots) = slots
    BY <1>3 DEF Room
  <2>2. /\ IsFiniteSet(DOMAIN slots \cup {slot})
        /\ \/ Cardinality(DOMAIN slots \cup {slot}) = Cardinality(DOMAIN slots)
           \/ Cardinality(DOMAIN slots \cup {slot}) = Cardinality(DOMAIN slots) + 1
    BY FS_AddElement
  <2> QED
    BY <1>1, <1>3, <2>1, <2>2
<1> QED
  BY <1>2, <1>3

LEMMA ResolveKeeps ==
    ASSUME SettingsInvariant, NEW o \in Orgs, NEW target \in Targets, Resolve(o, target)
    PROVE  SettingsInvariant'
<1> DEFINE wanted == Configured(o, target)
           slot == CacheKey(wanted)
           slots == cache[target]
           room == Room(slots)
           new == [s \in DOMAIN room \cup {slot} |-> IF s = slot THEN wanted ELSE room[s]]
<1>1. /\ cache' = IF slot \in DOMAIN slots THEN cache ELSE [cache EXCEPT ![target] = new]
      /\ served' = [org |-> o, target |-> target, object |-> cache'[target][slot]]
      /\ UNCHANGED <<settings, edit, overlapping>>
  BY DEF Resolve
<1>2. wanted = Told(slot)
  BY DEF Configured, CacheKey, Told
<1>3. IsFiniteSet(DOMAIN slots) /\ Cardinality(DOMAIN slots) <= CACHE_MAX
  BY DEF SettingsInvariant, SettingsTypeOK, CacheTells
<1>4. \A s \in DOMAIN slots : slots[s] = Told(s)
  BY DEF SettingsInvariant, CacheTells
<1>5. /\ IsFiniteSet(DOMAIN room \cup {slot}) /\ Cardinality(DOMAIN room \cup {slot}) <= CACHE_MAX
      /\ \A s \in DOMAIN room : s \in DOMAIN slots /\ room[s] = slots[s]
  BY <1>3, RoomForOne
<1> HIDE DEF slot, wanted, room
<1>6. /\ DOMAIN new = DOMAIN room \cup {slot} /\ new[slot] = wanted
      /\ \A s \in DOMAIN new : s # slot => s \in DOMAIN slots /\ new[s] = slots[s]
  BY <1>5
<1>7. DOMAIN cache = Targets
  BY DEF SettingsInvariant, Shape
<1> HIDE DEF new, slots
<1>8. /\ DOMAIN cache' = Targets
      /\ cache'[target] = IF slot \in DOMAIN slots THEN slots ELSE new
      /\ \A t \in Targets \ {target} : cache'[t] = cache[t]
  BY <1>1, <1>7 DEF slots
<1>9. /\ IsFiniteSet(DOMAIN cache'[target]) /\ Cardinality(DOMAIN cache'[target]) <= CACHE_MAX
      /\ \A s \in DOMAIN cache'[target] : cache'[target][s] = Told(s)
      /\ slot \in DOMAIN cache'[target]
  BY <1>2, <1>3, <1>4, <1>5, <1>6, <1>8
<1>10. CacheTells'
  BY <1>8, <1>9 DEF SettingsInvariant, CacheTells
<1>11. SettingsTypeOK'
  BY <1>1, <1>8, <1>9 DEF SettingsInvariant, SettingsTypeOK
<1>12. ServedAsConfigured'
  <2>1. cache'[target][slot] = wanted
    BY <1>2, <1>9
  <2>2. Configured(o, target)' = wanted
    BY <1>1 DEF wanted, Configured
  <2> QED
    BY <1>1, <2>1, <2>2 DEF ServedAsConfigured
<1> QED
  BY <1>1, <1>8, <1>10, <1>11, <1>12
     DEF SettingsInvariant, Shape, EditsAreSound, NamesItsKeys, StillValid, PairInCatalog
-----------------------------------------------------------------------------
\* Every step keeps the invariant.
THEOREM SettingsStep == SettingsInvariant /\ [SettingsNext]_settingsVars => SettingsInvariant'
<1> SUFFICES ASSUME SettingsInvariant, [SettingsNext]_settingsVars PROVE SettingsInvariant'
  OBVIOUS
<1>1. CASE SettingsNext
  BY <1>1, BeginKeeps, CommitKeeps, EditFailsKeeps, ResolveKeeps DEF SettingsNext
<1>2. CASE UNCHANGED settingsVars
  BY <1>2 DEF settingsVars, SettingsInvariant, SettingsTypeOK, Shape, EditsAreSound,
     NamesItsKeys, StillValid, CacheTells, PairInCatalog, ServedAsConfigured, Configured
<1> QED
  BY <1>1, <1>2

THEOREM SettingsSafe == SettingsSpec => []SettingsInvariant
  BY SettingsInitial, SettingsStep, PTL DEF SettingsSpec

\* Without overlapping updates, every stored pair is one of the catalog, for any
\* catalog and any payloads (LLMSettingsService.update).
THEOREM PairsAreInCatalog == SettingsSpec => []PairInCatalog
<1>1. SettingsInvariant => PairInCatalog
  BY DEF SettingsInvariant
<1> QED
  BY <1>1, SettingsSafe, PTL

\* Nobody is given an object of another provider, model or key than its row says,
\* for any number of organizations and any size of the cache
\* (resolve_chat_provider, resolve_embedding_provider).
THEOREM ObjectsAsConfigured == SettingsSpec => []ServedAsConfigured
<1>1. SettingsInvariant => ServedAsConfigured
  BY DEF SettingsInvariant
<1> QED
  BY <1>1, SettingsSafe, PTL

ByName ==
    \A o \in Orgs, f \in KEY_FIELDS :
        settings'[o].columns[f] # settings[o].columns[f] =>
            \E e \in Editors : /\ edit[e] # NoEdit /\ edit'[e] = NoEdit
                               /\ edit[e].org = o /\ f \in edit[e].named

LEMMA NamedOnly ==
    ASSUME SettingsInvariant, SettingsNext
    PROVE  ByName
<1>1. ASSUME NEW e \in Editors, CommitEdit(e) PROVE ByName
  <2> SUFFICES ASSUME NEW o \in Orgs, NEW f \in KEY_FIELDS,
                      settings'[o].columns[f] # settings[o].columns[f]
               PROVE  /\ edit[e] # NoEdit /\ edit'[e] = NoEdit
                      /\ edit[e].org = o /\ f \in edit[e].named
    BY DEF ByName
  <2>1. /\ edit[e].pc = "validated" /\ edit' = [edit EXCEPT ![e] = NoEdit]
        /\ settings' # settings
        /\ edit[e].insert => InsertAccepted(edit[e].org)
        /\ settings' = [settings EXCEPT ![edit[e].org] =
              [saved |-> TRUE,
               columns |-> Merged(settings[edit[e].org].columns, edit[e].changes)]]
    BY <1>1 DEF CommitEdit, Merged
  <2>2. edit[e] # NoEdit /\ edit'[e] = NoEdit /\ NamesItsKeys(e)
    BY <2>1 DEF NoEdit, SettingsInvariant, EditsAreSound, Shape
  <2>3. /\ edit[e].org = o
        /\ settings'[o].columns = Merged(settings[o].columns, edit[e].changes)
    BY <2>1, RowWritten
  <2>4. f \in DOMAIN edit[e].changes /\ edit[e].changes[f] # settings[o].columns[f]
    BY <2>3, NewIsValid DEF Merged
  <2>5. edit[e].insert => settings[o].columns[f] = NewSettings[f]
    BY <2>1, <2>3 DEF InsertAccepted, SettingsInvariant, SettingsTypeOK
  <2> QED
    BY <2>2, <2>3, <2>4, <2>5 DEF NamesItsKeys
<1>2. settings' = settings \/ \E e \in Editors : CommitEdit(e)
  BY DEF SettingsNext, BeginEdit, EditFails, Resolve
<1> QED
  BY <1>1, <1>2 DEF ByName

\* No key changes but by the commit of a request that names it, however many
\* updates are in flight (LLMSettingsService.update, "omitted = unchanged").
THEOREM KeysByName == SettingsSpec => KeysChangeByName
<1>1. SettingsInvariant /\ [SettingsNext]_settingsVars => [ByName]_settingsVars
  BY NamedOnly
<1>2. SettingsSpec => [][ByName]_settingsVars
  BY <1>1, SettingsSafe, PTL DEF SettingsSpec
<1> QED
  BY <1>2 DEF KeysChangeByName, ByName
=============================================================================

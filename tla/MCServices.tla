----------------------------- MODULE MCServices ------------------------------
(***************************************************************************)
(* Small instances for TLC of the components that share no state with one  *)
(* another.  "component", fixed at the start, says which one moves; the    *)
(* others keep one initial state, so that the states explored are those of *)
(* the components one after the other.                                     *)
(***************************************************************************)
EXTENDS RateLimiter, JwksCache, LLMSettings, Organizations, Tenancy, Chunking,
        StreamReader, UsageBooks, Retrieval

CONSTANTS org_key, server_key

VARIABLE component
-----------------------------------------------------------------------------
Base == [rpm |-> 1, tpd |-> 1]
Pro == [rpm |-> 2, tpd |-> 1]
AdminOverrides == {[rpm |-> NoLimit, tpd |-> NoLimit], [rpm |-> 1, tpd |-> 0]}

TwoProviders == {"anthropic", "openai"}
ChatProviders == [p \in TwoProviders |-> CHAT_CATALOG[p].models]
DefaultModels == [p \in TwoProviders |-> CHAT_CATALOG[p].default]
EmbeddingProviders == [p \in {"voyage"} |-> EMBEDDING_CATALOG[p].model]
KeyFields == [p \in TwoProviders \cup {"voyage"} |->
                 IF p = "voyage" THEN EMBEDDING_CATALOG[p].key ELSE CHAT_CATALOG[p].key]
ServerKeys == [anthropic_api_key |-> server_key, openai_api_key |-> NoKey,
               voyage_api_key |-> server_key]
Defaults == [chat_provider |-> "anthropic", chat_model |-> DefaultModels["anthropic"],
             embedding_provider |-> "voyage", anthropic_api_key |-> NoKey,
             openai_api_key |-> NoKey, voyage_api_key |-> NoKey]
Nothing == [c \in DOMAIN Defaults |-> Omitted]
SomePayloads == {[Nothing EXCEPT !.chat_provider = "openai"],
                 [Nothing EXCEPT !.chat_model = "claude-haiku-4-5"],
                 [Nothing EXCEPT !.anthropic_api_key = org_key],
                 [Nothing EXCEPT !.anthropic_api_key = NoKey]}

ShortDocuments == UNION {[1..n -> 0..9] : n \in 0..3}

\* The first two chunks start alike; d3 belongs to another tenant.
SomePassages ==
    {[doc |-> "d1", page |-> 1, snippet |-> "same", text |-> "first"],
     [doc |-> "d1", page |-> 1, snippet |-> "same", text |-> "second"],
     [doc |-> "d1", page |-> 1, snippet |-> "other", text |-> "fifth"],
     [doc |-> "d2", page |-> 1, snippet |-> "same", text |-> "third"],
     [doc |-> "d3", page |-> 1, snippet |-> "theirs", text |-> "fourth"]}

SmallCalls == {Price(1, 0, 0, 0), Price(25, 0, 0, 0), Price(1000, 3, 7, 1)}
-----------------------------------------------------------------------------
\* Components that share no state may share the values of their sets: users, key
\* ids and organizations are interchangeable together, and so are requests,
\* verifiers and editors.
Interchangeable == Permutations(Users) \cup Permutations(Calls)

Is(c) == component = c

Init ==
    /\ component \in {"limiter", "keys", "settings", "orgs", "tenancy", "chunks", "stream",
                     "books", "library"}
    /\ LimiterInit /\ (~Is("limiter") => redis = "up" /\ limits = Base)
    /\ KeysInit
    /\ SettingsInit /\ (~Is("settings") => ~overlapping)
    /\ OrgInit
    /\ TenancyInit
    /\ ChunkInit /\ (~Is("chunks") => words = <<>>)
    /\ StreamInit
    /\ (~Is("stream") => answer.finish = "stop" /\ answer.text = 0)
    /\ BooksInit
    /\ RetrievalInit

Next ==
    /\ UNCHANGED component
    /\ \/ Is("limiter") /\ LimiterNext
          /\ UNCHANGED <<keyVars, settingsVars, orgVars, tenancyVars, chunkVars,
                         streamVars, booksVars, retrievalVars>>
       \/ Is("keys") /\ KeysNext
          /\ UNCHANGED <<limiterVars, settingsVars, orgVars, tenancyVars, chunkVars,
                         streamVars, booksVars, retrievalVars>>
       \/ Is("settings") /\ SettingsNext
          /\ UNCHANGED <<limiterVars, keyVars, orgVars, tenancyVars, chunkVars,
                         streamVars, booksVars, retrievalVars>>
       \/ Is("orgs") /\ OrgNext
          /\ UNCHANGED <<limiterVars, keyVars, settingsVars, tenancyVars, chunkVars,
                         streamVars, booksVars, retrievalVars>>
       \/ Is("tenancy") /\ TenancyNext
          /\ UNCHANGED <<limiterVars, keyVars, settingsVars, orgVars, chunkVars,
                         streamVars, booksVars, retrievalVars>>
       \/ Is("chunks") /\ ChunkNext
          /\ UNCHANGED <<limiterVars, keyVars, settingsVars, orgVars, tenancyVars,
                         streamVars, booksVars, retrievalVars>>
       \/ Is("stream") /\ StreamNext
          /\ UNCHANGED <<limiterVars, keyVars, settingsVars, orgVars, tenancyVars,
                         chunkVars, booksVars, retrievalVars>>
       \/ Is("books") /\ BooksNext
          /\ UNCHANGED <<limiterVars, keyVars, settingsVars, orgVars, tenancyVars,
                         chunkVars, streamVars, retrievalVars>>
       \/ Is("library") /\ RetrievalNext
          /\ UNCHANGED <<limiterVars, keyVars, settingsVars, orgVars, tenancyVars,
                         chunkVars, streamVars, booksVars>>

Spec == Init /\ [][Next]_<<component, limiterVars, keyVars, settingsVars, orgVars,
                           tenancyVars, chunkVars, streamVars, booksVars, retrievalVars>>

\* The types of all nine components.
ServicesTypeOK ==
    /\ LimiterTypeOK /\ KeysTypeOK /\ SettingsTypeOK /\ OrgTypeOK /\ TenancyTypeOK
    /\ ChunkTypeOK /\ StreamTypeOK /\ BooksTypeOK /\ RetrievalTypeOK
=============================================================================

----------------------------- MODULE LLMSettings -----------------------------
(***************************************************************************)
(* The LLM settings of organizations (domains/llm_settings): rows that     *)
(* name providers and hold keys, requests that update them, and the        *)
(* process-wide caches of provider objects, keyed by what they were built  *)
(* from.                                                                   *)
(*                                                                         *)
(* A row is a function on its columns.  An update loads the row, validates *)
(* the pair of provider and model, and commits later; SQLAlchemy's UPDATE  *)
(* names only the columns whose value differs from the loaded one.         *)
(***************************************************************************)
EXTENDS Naturals, FiniteSets

CONSTANTS Orgs,
          Editors,              \* update requests
          CHAT_PROVIDERS,       \* provider -> the set of its models
          DefaultModel,         \* provider -> one of its models
          EMBEDDING_PROVIDERS,  \* provider -> its model
          KeyField,             \* provider -> the column of its key
          ServerKey,            \* column -> the server's key, or NoKey
          NewSettings,          \* the columns of a row that was never saved
          Payloads,             \* updates: column -> value, NoKey or Omitted
          NoKey, Omitted,
          CACHE_MAX

ASSUME LLMSettingsAssumption ==
    /\ CACHE_MAX \in Nat \ {0}
    /\ \A p \in DOMAIN CHAT_PROVIDERS : DefaultModel[p] \in CHAT_PROVIDERS[p]
    /\ NewSettings.chat_provider \in DOMAIN CHAT_PROVIDERS
    /\ NewSettings.chat_model \in CHAT_PROVIDERS[NewSettings.chat_provider]
    /\ NewSettings.embedding_provider \in DOMAIN EMBEDDING_PROVIDERS
    /\ DOMAIN ServerKey \subseteq DOMAIN NewSettings \ {"chat_provider", "chat_model"}
    /\ {"chat_provider", "chat_model", "embedding_provider"} \subseteq DOMAIN NewSettings
    /\ \A payload \in Payloads :
          /\ DOMAIN payload = DOMAIN NewSettings
          /\ payload.chat_provider \in DOMAIN CHAT_PROVIDERS \cup {Omitted}

VARIABLES settings,     \* committed rows, those not saved yet included
          edit,         \* update requests in flight
          cache,        \* _chat_cache, _embedding_cache: slot -> provider object
          served,       \* the organization that was just given a provider object
          overlapping   \* two updates may be in flight, fixed at the start

settingsVars == <<settings, edit, cache, served, overlapping>>
-----------------------------------------------------------------------------
KEY_FIELDS == DOMAIN ServerKey
Columns == DOMAIN NewSettings
Targets == {"chat", "embedding"}
NoEdit == [pc |-> "none"]
Nobody == [org |-> Omitted]
Valid(columns) ==
    /\ columns.chat_model \in CHAT_PROVIDERS[columns.chat_provider]
    /\ columns.embedding_provider \in DOMAIN EMBEDDING_PROVIDERS

\* Switching the provider without naming a model takes its default.
Model(columns, payload) ==
    IF payload.chat_model # Omitted THEN payload.chat_model
    ELSE IF payload.chat_provider # Omitted THEN DefaultModel[payload.chat_provider]
    ELSE columns.chat_model

Updated(columns, payload) ==
    [c \in Columns |-> IF c = "chat_model" THEN Model(columns, payload)
                       ELSE IF payload[c] # Omitted THEN payload[c] ELSE columns[c]]

\* Mutant: an update writes the row as a whole.
Changes_All(old, new, payload) == new

\* A key that is given is encrypted anew, never to the same text.
Changes(old, new, payload) ==
    [c \in {c \in Columns : \/ new[c] # old[c]
                            \/ c \in KEY_FIELDS /\ payload[c] \notin {NoKey, Omitted}}
        |-> new[c]]
-----------------------------------------------------------------------------
(* PUT /llm-settings by a manager                                           *)

\* Mutant: the pair is not validated.
Accepted_Always(columns) == TRUE

Accepted(columns) == Valid(columns)

BeginEdit(e) ==
    /\ edit[e] = NoEdit
    /\ overlapping \/ \A f \in Editors : edit[f] = NoEdit
    /\ \E o \in Orgs, payload \in Payloads :
          LET old == settings[o].columns
              new == Updated(old, payload)
          IN /\ Accepted(new)
             /\ edit' = [edit EXCEPT ![e] =
                   [pc |-> "validated", org |-> o, insert |-> ~settings[o].saved,
                    changes |-> IF settings[o].saved THEN Changes(old, new, payload) ELSE new,
                    named |-> {f \in KEY_FIELDS : payload[f] # Omitted}]]
    /\ served' = Nobody
    /\ UNCHANGED <<settings, cache, overlapping>>

\* UniqueConstraint("tenant_id")
InsertAccepted(o) == ~settings[o].saved

CommitEdit(e) ==
    /\ edit[e].pc = "validated"
    /\ LET o == edit[e].org
           changes == edit[e].changes
       IN \/ edit[e].insert /\ ~InsertAccepted(o) /\ UNCHANGED settings
          \/ /\ edit[e].insert => InsertAccepted(o)
             /\ settings' = [settings EXCEPT ![o] =
                   [saved |-> TRUE,
                    columns |-> [c \in Columns |-> IF c \in DOMAIN changes
                                    THEN changes[c] ELSE settings[o].columns[c]]]]
    /\ edit' = [edit EXCEPT ![e] = NoEdit]
    /\ served' = Nobody
    /\ UNCHANGED <<cache, overlapping>>

\* The request dies or its connection does.
EditFails(e) ==
    /\ edit[e].pc = "validated"
    /\ edit' = [edit EXCEPT ![e] = NoEdit]
    /\ served' = Nobody
    /\ UNCHANGED <<settings, cache, overlapping>>
-----------------------------------------------------------------------------
(* resolve_chat_provider, resolve_embedding_provider                        *)

\* What the organization asks for: the key is its own, or else the server's.
Configured(o, target) ==
    LET columns == settings[o].columns
        provider == IF target = "chat" THEN columns.chat_provider
                                       ELSE columns.embedding_provider
        own == columns[KeyField[provider]]
    IN [provider |-> provider,
        model |-> IF target = "chat" THEN columns.chat_model
                                     ELSE EMBEDDING_PROVIDERS[provider],
        key |-> IF own # NoKey THEN own ELSE ServerKey[KeyField[provider]]]

\* Mutant: the slot of an object does not depend on its key.
CacheKey_NoKey(wanted) == <<wanted.provider, wanted.model>>

CacheKey(wanted) == <<wanted.provider, wanted.model, wanted.key>>

\* Mutant: the cache is never cleared.
Room_Always(slots) == slots

Room(slots) ==
    IF Cardinality(DOMAIN slots) >= CACHE_MAX THEN [s \in {} |-> NoKey] ELSE slots

\* From the row to the object there is no await after the row is read.
Resolve(o, target) ==
    LET wanted == Configured(o, target)
        slot == CacheKey(wanted)
        slots == cache[target]
        room == Room(slots)
        new == [s \in DOMAIN room \cup {slot} |-> IF s = slot THEN wanted ELSE room[s]]
    IN /\ wanted.key # NoKey        \* else ProviderNotConfigured
       /\ cache' = IF slot \in DOMAIN slots THEN cache
                   ELSE [cache EXCEPT ![target] = new]
       /\ served' = [org |-> o, target |-> target, object |-> cache'[target][slot]]
       /\ UNCHANGED <<settings, edit, overlapping>>
-----------------------------------------------------------------------------
SettingsInit ==
    /\ settings = [o \in Orgs |-> [saved |-> FALSE, columns |-> NewSettings]]
    /\ edit = [e \in Editors |-> NoEdit]
    /\ cache = [target \in Targets |-> [s \in {} |-> NoKey]]
    /\ served = Nobody
    /\ overlapping \in BOOLEAN

SettingsNext ==
    \/ \E e \in Editors : BeginEdit(e) \/ CommitEdit(e) \/ EditFails(e)
    \/ \E o \in Orgs, target \in Targets : Resolve(o, target)

SettingsSpec == SettingsInit /\ [][SettingsNext]_settingsVars
-----------------------------------------------------------------------------
SettingsTypeOK ==
    /\ \A o \in Orgs : /\ settings[o].saved \in BOOLEAN
                       /\ DOMAIN settings[o].columns = Columns
                       /\ settings[o].columns.chat_provider \in DOMAIN CHAT_PROVIDERS
                       /\ ~settings[o].saved => settings[o].columns = NewSettings
    /\ \A target \in Targets : Cardinality(DOMAIN cache[target]) <= CACHE_MAX

\* As long as updates do not overlap, the stored pair of provider and model is
\* one of the catalog, although provider and model are columns of their own and
\* each may be updated without the other (LLMSettingsService.update).
PairInCatalog ==
    ~overlapping => \A o \in Orgs : Valid(settings[o].columns)

\* An organization is given an object with exactly the provider, the model and
\* the key of its row, or the server's key: a rotated or cleared key is not used
\* again and nobody is given the object of another organization's key, whatever
\* is in the process-wide cache (resolve_chat_provider).
ServedAsConfigured ==
    served # Nobody => served.object = Configured(served.org, served.target)

\* A key changes only by the commit of a request that names it: an update of the
\* model that was in flight meanwhile does not bring a rotated or cleared key
\* back, and a second first save does not wipe the keys (update, "omitted =
\* unchanged").
KeysChangeByName ==
    [][\A o \in Orgs, f \in KEY_FIELDS :
          settings'[o].columns[f] # settings[o].columns[f] =>
             \E e \in Editors : /\ edit[e] # NoEdit /\ edit'[e] = NoEdit
                                /\ edit[e].org = o /\ f \in edit[e].named]_settingsVars
=============================================================================

------------------------------- MODULE Catalog -------------------------------
(***************************************************************************)
(* What organizations can pick (llm/catalog.py), and what it costs         *)
(* (llm/pricing.py).                                                       *)
(***************************************************************************)
EXTENDS Naturals

ChatInfo(models, default, key) == [models |-> models, default |-> default, key |-> key]

CHAT_CATALOG ==
    [anthropic |-> ChatInfo({"claude-sonnet-4-6", "claude-haiku-4-5", "claude-opus-4-8"},
                            "claude-sonnet-4-6", "anthropic_api_key"),
     openai |-> ChatInfo({"gpt-5.1", "gpt-5.1-mini"}, "gpt-5.1-mini", "openai_api_key"),
     gemini |-> ChatInfo({"gemini-3-pro-preview", "gemini-2.5-pro", "gemini-2.5-flash"},
                         "gemini-2.5-flash", "gemini_api_key"),
     mistral |-> ChatInfo({"mistral-large-latest", "mistral-medium-latest",
                           "mistral-small-latest"}, "mistral-small-latest",
                          "mistral_api_key"),
     xai |-> ChatInfo({"grok-4", "grok-4-fast"}, "grok-4-fast", "xai_api_key"),
     deepseek |-> ChatInfo({"deepseek-chat", "deepseek-reasoner"}, "deepseek-chat",
                           "deepseek_api_key"),
     groq |-> ChatInfo({"llama-3.3-70b-versatile", "llama-3.1-8b-instant"},
                       "llama-3.3-70b-versatile", "groq_api_key"),
     openrouter |-> ChatInfo({"openrouter/auto", "meta-llama/llama-3.3-70b-instruct",
                              "qwen/qwen3-235b-a22b"}, "openrouter/auto",
                             "openrouter_api_key")]

EmbeddingInfo(model, key) == [model |-> model, key |-> key]

EMBEDDING_CATALOG ==
    [voyage |-> EmbeddingInfo("voyage-3.5", "voyage_api_key"),
     openai |-> EmbeddingInfo("text-embedding-3-small", "openai_api_key"),
     gemini |-> EmbeddingInfo("gemini-embedding-001", "gemini_api_key"),
     mistral |-> EmbeddingInfo("mistral-embed", "mistral_api_key"),
     cohere |-> EmbeddingInfo("embed-v4.0", "cohere_api_key")]

CATALOG_KEYS == {info.key : info \in {CHAT_CATALOG[p] : p \in DOMAIN CHAT_CATALOG}
                                     \cup {EMBEDDING_CATALOG[p] : p \in DOMAIN EMBEDDING_CATALOG}}
-----------------------------------------------------------------------------
\* Thousandths of a dollar per million tokens; a token at 1 costs a nanodollar.
Price(input, output, read, write) ==
    [input |-> input, output |-> output, read |-> read, write |-> write]
Embedding(input) == Price(input, 0, 0, 0)

\* The entries of PRICING, by model.
PRICE_LIST ==
    {<<"claude-sonnet-4-6", Price(3000, 15000, 300, 3750)>>,
     <<"claude-haiku-4-5", Price(1000, 5000, 100, 1250)>>,
     <<"claude-opus-4-8", Price(5000, 25000, 500, 6250)>>,
     <<"voyage-3.5", Embedding(60)>>,
     <<"gpt-5.1", Price(1250, 10000, 125, 0)>>,
     <<"gpt-5.1-mini", Price(250, 2000, 25, 0)>>,
     <<"text-embedding-3-small", Embedding(20)>>,
     <<"gemini-3-pro-preview", Price(2000, 12000, 200, 0)>>,
     <<"gemini-2.5-pro", Price(1250, 10000, 125, 0)>>,
     <<"gemini-2.5-flash", Price(300, 2500, 30, 0)>>,
     <<"gemini-embedding-001", Embedding(150)>>,
     <<"mistral-large-latest", Price(2000, 6000, 0, 0)>>,
     <<"mistral-medium-latest", Price(400, 2000, 0, 0)>>,
     <<"mistral-small-latest", Price(100, 300, 0, 0)>>,
     <<"mistral-embed", Embedding(100)>>,
     <<"grok-4", Price(3000, 15000, 750, 0)>>,
     <<"grok-4-fast", Price(200, 500, 50, 0)>>,
     <<"deepseek-chat", Price(280, 420, 28, 0)>>,
     <<"deepseek-reasoner", Price(280, 420, 28, 0)>>,
     <<"llama-3.3-70b-versatile", Price(590, 790, 0, 0)>>,
     <<"llama-3.1-8b-instant", Price(50, 80, 0, 0)>>,
     <<"embed-v4.0", Embedding(120)>>}

PRICING ==
    [model \in {row[1] : row \in PRICE_LIST} |->
        (CHOOSE row \in PRICE_LIST : row[1] = model)[2]]
=============================================================================

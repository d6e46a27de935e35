------------------------------ MODULE Retrieval ------------------------------
(***************************************************************************)
(* The documents one chat turn reads (documents/retrieval.py and the       *)
(* search tool of chat/agent.py).  A search embeds the query first and     *)
(* asks the database afterwards; ingestion and deletion go on meanwhile.   *)
(* A document keeps its chunks while it is processed again and when that   *)
(* fails (see Ingestion).  The vector index is external: it is approximate *)
(* and may leave out rows that match.                                      *)
(***************************************************************************)
EXTENDS Naturals, SequencesExt

CONSTANTS Passages,     \* chunks: [doc, page, snippet, text]
          Foreign,      \* the documents of other tenants
          TOP_K,        \* rows of a search
          MaxSearches   \* bound: searches of a turn

ASSUME RetrievalAssumption == IsFiniteSet(Passages) /\ TOP_K \in Nat /\ MaxSearches \in Nat

VARIABLES library,      \* status of each document; indexed once it has chunks
          turn,         \* progress of the turn, and the searches it made
          hits,         \* what the last search gave the model
          relevant,     \* history: the hits above CITATION_MIN_SCORE
          citations     \* toolbox.citations

retrievalVars == <<library, turn, hits, relevant, citations>>
-----------------------------------------------------------------------------
Library == {p.doc : p \in Passages}
DocumentRow == [status : {"uploaded", "processing", "ready", "failed", "deleted"},
                indexed : BOOLEAN]

HasReady == \E d \in Library \ Foreign : library[d].status = "ready"

\* Mutant: documents of any status are searched.
Matches_AnyStatus(p) == p.doc \notin Foreign /\ library[p.doc].indexed

Matches(p) ==
    p.doc \notin Foreign /\ library[p.doc].indexed /\ library[p.doc].status = "ready"

\* Rows by distance: all that match, or what is left of them.
Rankings == UNION {SetToSeqs(S) : S \in SUBSET {p \in Passages : Matches(p)}}

SameSource(p, q) == p.doc = q.doc /\ p.page = q.page /\ p.snippet = q.snippet

Cite(cited, p) ==
    IF \E i \in DOMAIN cited : SameSource(cited[i], p) THEN cited ELSE Append(cited, p)
-----------------------------------------------------------------------------
(* The turn                                                                 *)

BeginTurn ==
    /\ turn.pc = "idle" /\ HasReady
    /\ turn' = [turn EXCEPT !.pc = "model"]
    /\ UNCHANGED <<library, hits, relevant, citations>>

EmbedQuery ==
    /\ turn.pc = "model" /\ turn.searches < MaxSearches
    /\ turn' = [pc |-> "embedding", searches |-> turn.searches + 1]
    /\ UNCHANGED <<library, hits, relevant, citations>>

\* LLMError: the turn is over.
EmbedQueryFails ==
    /\ turn.pc = "embedding"
    /\ turn' = [turn EXCEPT !.pc = "over"]
    /\ UNCHANGED <<library, hits, relevant, citations>>

\* The first "good" rows score CITATION_MIN_SCORE or more.
Search ==
    /\ turn.pc = "embedding"
    /\ turn' = [turn EXCEPT !.pc = "model"]
    /\ \E rows \in Rankings :
          /\ Len(rows) <= TOP_K
          /\ hits' = {rows[i] : i \in DOMAIN rows}
          /\ \E good \in 0..Len(rows) :
                /\ relevant' = relevant \cup {rows[i] : i \in 1..good}
                /\ citations' = FoldLeft(Cite, citations, SubSeq(rows, 1, good))
    /\ UNCHANGED library
-----------------------------------------------------------------------------
(* Ingestion and deletion, each a committed step                            *)

SetRow(d, from, row) ==
    /\ library[d].status \in from
    /\ library' = [library EXCEPT ![d] = row]
    /\ UNCHANGED <<turn, hits, relevant, citations>>

Process(d) ==
    SetRow(d, {"uploaded", "processing", "ready", "failed"},
           [library[d] EXCEPT !.status = "processing"])
MakeReady(d) == SetRow(d, {"processing"}, [status |-> "ready", indexed |-> TRUE])
MakeFailed(d) == SetRow(d, {"processing"}, [library[d] EXCEPT !.status = "failed"])
Discard(d) ==
    SetRow(d, {"uploaded", "processing", "ready", "failed"},
           [status |-> "deleted", indexed |-> FALSE])
-----------------------------------------------------------------------------
RetrievalInit ==
    /\ library = [d \in Library |-> [status |-> "uploaded", indexed |-> FALSE]]
    /\ turn = [pc |-> "idle", searches |-> 0]
    /\ hits = {} /\ relevant = {} /\ citations = <<>>

RetrievalNext ==
    \/ BeginTurn \/ EmbedQuery \/ EmbedQueryFails \/ Search
    \/ \E d \in Library : Process(d) \/ MakeReady(d) \/ MakeFailed(d) \/ Discard(d)

RetrievalSpec == RetrievalInit /\ [][RetrievalNext]_retrievalVars
-----------------------------------------------------------------------------
RetrievalTypeOK ==
    /\ library \in [Library -> DocumentRow]
    /\ turn \in [pc : {"idle", "model", "embedding", "over"}, searches : 0..MaxSearches]
    /\ hits \subseteq Passages /\ relevant \subseteq Passages
    /\ \A i \in DOMAIN citations : citations[i] \in Passages

\* However often a turn searches, it cites no source twice, and every passage that
\* scored high enough in any of its searches has its source among the citations,
\* which name nothing else (AgentToolbox._search).
SourcesAreCited ==
    /\ \A i, j \in DOMAIN citations : SameSource(citations[i], citations[j]) => i = j
    /\ \A p \in relevant : \E i \in DOMAIN citations :
          LET c == citations[i] IN c.doc = p.doc /\ c.page = p.page /\ c.snippet = p.snippet
    /\ \A i \in DOMAIN citations : citations[i] \in relevant

\* What a search brings up belongs to documents of the tenant that are ready when
\* the model gets it: not to one that is deleted or processed again while the
\* query is embedded, and not to one whose chunks are left over from before a
\* failure (RetrievalService.search).
HitsAreReady ==
    [][\A p \in hits' : hits' # hits =>
          p.doc \notin Foreign /\ library'[p.doc].status = "ready"]_retrievalVars

\* What the model is given may be seen, and what it was given is cited.
SearchesHold == []SourcesAreCited /\ HitsAreReady
=============================================================================

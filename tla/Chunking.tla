------------------------------ MODULE Chunking -------------------------------
(***************************************************************************)
(* chunk_pages (documents/parsing.py): the words of a document's pages cut *)
(* into windows that overlap.  One step is one turn of the inner loop, or  *)
(* the outer loop moving on.  A word is its page and its index; a chunk's  *)
(* content is the sequence of the half-open spans it was joined from.      *)
(***************************************************************************)
EXTENDS Integers, Sequences

CONSTANTS TARGET_WORDS, OVERLAP_WORDS, MIN_CHUNK_WORDS,
          Documents         \* bound: the documents, as words per page

ASSUME ChunkingAssumption ==
    /\ TARGET_WORDS \in Nat /\ OVERLAP_WORDS \in Nat /\ MIN_CHUNK_WORDS \in Nat
    /\ MIN_CHUNK_WORDS <= OVERLAP_WORDS /\ OVERLAP_WORDS < TARGET_WORDS
    /\ Documents \subseteq Seq(Nat)

VARIABLES words,    \* the number of words of each page
          page,     \* the page the outer loop is at
          start,    \* the first word of the next window
          chunks

chunkVars == <<words, page, start, chunks>>
-----------------------------------------------------------------------------
Span == [page : Nat, from : Nat, to : Nat]
Chunk == [page : Nat, spans : Seq(Span)]

NextStart(s) == s + TARGET_WORDS - OVERLAP_WORDS

More == page <= Len(words)
IsTail == start + TARGET_WORDS >= words[page]
Window == [page |-> page, from |-> start,
           to |-> IF IsTail THEN words[page] ELSE start + TARGET_WORDS]

Size(span) == span.to - span.from

\* Mutant: whatever is shorter than a window counts as tiny.
Tiny_BelowTarget(span) == Size(span) < TARGET_WORDS

Tiny(span) == Size(span) < MIN_CHUNK_WORDS

Merges == chunks # <<>> /\ IsTail /\ Tiny(Window)
NextPage == page' = page + 1 /\ start' = 0

SkipEmpty ==
    /\ More /\ words[page] = 0
    /\ NextPage /\ UNCHANGED <<words, chunks>>

\* A tiny tail goes to the previous chunk, which keeps its page.
MergeTail ==
    /\ More /\ words[page] > 0 /\ Merges
    /\ chunks' = [chunks EXCEPT ![Len(chunks)].spans = Append(@, Window)]
    /\ NextPage /\ UNCHANGED words

EmitChunk ==
    /\ More /\ words[page] > 0 /\ ~Merges
    /\ chunks' = Append(chunks, [page |-> page, spans |-> <<Window>>])
    /\ \/ IsTail /\ NextPage
       \/ ~IsTail /\ start' = NextStart(start) /\ UNCHANGED page
    /\ UNCHANGED words
-----------------------------------------------------------------------------
ChunkInit == words \in Documents /\ page = 1 /\ start = 0 /\ chunks = <<>>
ChunkNext == SkipEmpty \/ MergeTail \/ EmitChunk
ChunkSpec == ChunkInit /\ [][ChunkNext]_chunkVars
-----------------------------------------------------------------------------
ChunkTypeOK ==
    /\ words \in Seq(Nat)
    /\ page \in 1..(Len(words) + 1)
    /\ start \in Nat /\ (More => start <= words[page])
    /\ chunks \in Seq(Chunk)

Holds(chunk, p, w) ==
    \E k \in DOMAIN chunk.spans : /\ chunk.spans[k].page = p
                                  /\ chunk.spans[k].from <= w /\ w < chunk.spans[k].to

\* Every word before the cursor is in a chunk: no gap between windows, and no
\* word lost with a tail that is merged (chunk_pages).
EveryWordKept ==
    \A p \in DOMAIN words : \A w \in 0..(words[p] - 1) :
        p < page \/ (p = page /\ w < start) =>
            \E i \in DOMAIN chunks : Holds(chunks[i], p, w)

\* The page a chunk is cited with is the page of all its words, but for whole
\* pages of fewer than MIN_CHUNK_WORDS words, which are merged into it.
CitedPage ==
    \A i \in DOMAIN chunks : \A k \in DOMAIN chunks[i].spans :
        LET span == chunks[i].spans[k]
        IN span.page # chunks[i].page =>
              /\ span.from = 0 /\ span.to = words[span.page]
              /\ Size(span) < MIN_CHUNK_WORDS

\* Only the first chunk may be a fragment, one that starts with fewer than
\* MIN_CHUNK_WORDS words: there is nothing yet to merge it into (chunk_pages).
NoFragments ==
    \A i \in DOMAIN chunks : i > 1 => Size(chunks[i].spans[1]) >= MIN_CHUNK_WORDS

\* No chunk repeats a word: a tail that shares words with the chunk before it is
\* never so short that it would be merged into it, because MIN_CHUNK_WORDS does
\* not exceed OVERLAP_WORDS.
NoWordTwice ==
    \A i \in DOMAIN chunks : \A j, k \in DOMAIN chunks[i].spans :
        j # k => chunks[i].spans[j].page # chunks[i].spans[k].page

\* The chunks hold every word of the document, under its page, and once each.
ChunksAreSound == EveryWordKept /\ CitedPage /\ NoFragments /\ NoWordTwice
=============================================================================

--------------------------- MODULE ServicesProofs ---------------------------
(***************************************************************************)
(* Theorems about Chunking, StreamReader, UsageBooks and Retrieval, and    *)
(* about MCServices, which puts nine components side by side: a behaviour  *)
(* of it is one of each of them, so that what was proved of each component *)
(* alone holds of their composition.                                       *)
(***************************************************************************)
EXTENDS MCServices, RateLimiterProofs, AccessProofs, FiniteSetTheorems,
        WellFoundedInduction, TLAPS
-----------------------------------------------------------------------------
(* Folds.  The folds of the community modules pick the elements of a finite *)
(* set one by one with a recursive function on its subsets.  That function  *)
(* exists: the smallest set it had no value for would have one.             *)

LEMMA LeastNumber ==
    ASSUME NEW N \in SUBSET Nat, N # {}
    PROVE  \E n \in N : \A m \in N : n <= m
<1>1. PICK n \in N : \A m \in N : ~(<<m, n>> \in OpToRel(<, Nat))
  BY WFMin, NatLessThanWellFounded, Zenon
<1>2. ASSUME NEW m \in N, m < n PROVE FALSE
  <2>1. <<m, n>> \in OpToRel(<, Nat)
    BY <1>2 DEF OpToRel
  <2> QED
    BY <1>1, <2>1
<1>3. \A m \in N : n <= m
  BY <1>2
<1> QED
  BY <1>3

\* A set of subsets of a finite set has a smallest member.
LEMMA SmallestSet ==
    ASSUME NEW S, IsFiniteSet(S), NEW B \in SUBSET SUBSET S, B # {}
    PROVE  \E s \in B : \A r \in B : r \subseteq s => r = s
<1>1. IsWellFoundedOn(StrictSubsetOrdering(S), SUBSET S)
  BY FS_StrictSubsetOrderingWellFounded, FS_FiniteSubsetsOfFinite
<1>2. PICK s \in B : \A r \in B : ~(<<r, s>> \in StrictSubsetOrdering(S))
  BY <1>1, WFMin, Zenon
<1>3. ASSUME NEW r \in B, r \subseteq s, r # s PROVE FALSE
  <2>1. <<r, s>> \in StrictSubsetOrdering(S)
    BY <1>3 DEF StrictSubsetOrdering
  <2> QED
    BY <1>2, <2>1
<1> QED
  BY <1>3

\* What a fold has for every subset of S.
FoldTable(t, S, base, step, pick) ==
    t = [s \in SUBSET S |-> IF s = {} THEN base
                            ELSE step[<<pick[s], t[s \ {pick[s]}]>>]]

\* The subsets of S that have n elements or less.
Level(S, n) == {s \in SUBSET S : Cardinality(s) <= n}

LEMMA LevelFacts ==
    ASSUME NEW S, IsFiniteSet(S), NEW n \in Nat, NEW s \in Level(S, n), NEW x \in s
    PROVE  n > 0 /\ s \ {x} \in Level(S, n - 1)
<1>1. IsFiniteSet(s) /\ s \in SUBSET S /\ Cardinality(s) <= n
  BY FS_Subset DEF Level
<1>2. /\ IsFiniteSet(s \ {x}) /\ Cardinality(s \ {x}) = Cardinality(s) - 1
      /\ Cardinality(s) \in Nat /\ Cardinality(s \ {x}) \in Nat
  <2>1. IsFiniteSet(s \ {x}) /\ Cardinality(s \ {x}) = Cardinality(s) - 1
    BY <1>1, FS_RemoveElement
  <2> QED
    BY <1>1, <2>1, FS_CardinalityType
<1>3. n > 0 /\ Cardinality(s \ {x}) <= n - 1 /\ s \ {x} \in SUBSET S
  BY <1>1, <1>2
<1> QED
  BY <1>3 DEF Level

LEMMA TableExists ==
    ASSUME NEW S, IsFiniteSet(S), NEW V, NEW base \in V, NEW step \in [S \X V -> V],
           NEW pick, \A s \in SUBSET S : s # {} => pick[s] \in s
    PROVE  \E t \in [SUBSET S -> V] : FoldTable(t, S, base, step, pick)
<1> DEFINE Fits(t, n) ==
             \A s \in Level(S, n) :
                t[s] = IF s = {} THEN base ELSE step[<<pick[s], t[s \ {pick[s]}]>>]
           Has(n) == \E t \in [Level(S, n) -> V] : Fits(t, n)
           Bad == {n \in Nat : ~Has(n)}
<1>1. Has(0)
  <2> DEFINE t == [s \in Level(S, 0) |-> base]
  <2>1. t \in [Level(S, 0) -> V]
    OBVIOUS
  <2>2. ASSUME NEW s \in Level(S, 0), NEW x \in s PROVE FALSE
    <3>1. 0 \in Nat
      OBVIOUS
    <3>2. 0 > 0
      BY <2>2, <3>1, LevelFacts, Zenon
    <3> QED
      BY <3>2
  <2>3. Fits(t, 0)
    BY <2>2
  <2> QED
    BY <2>1, <2>3
<1>2. ASSUME NEW n \in Nat, n > 0, Has(n - 1) PROVE Has(n)
  <2>1. PICK t \in [Level(S, n - 1) -> V] : Fits(t, n - 1)
    BY <1>2
  <2> DEFINE u == [s \in Level(S, n) |->
                      IF s = {} THEN base ELSE step[<<pick[s], t[s \ {pick[s]}]>>]]
  <2>2. ASSUME NEW s \in Level(S, n), s # {}
        PROVE  /\ pick[s] \in S /\ s \ {pick[s]} \in Level(S, n - 1)
               /\ s \ {pick[s]} \in Level(S, n)
    <3>1. s \in SUBSET S /\ pick[s] \in s
      BY <2>2 DEF Level
    <3>2. s \ {pick[s]} \in Level(S, n - 1)
      BY <3>1, LevelFacts
    <3>3. \A r \in Level(S, n - 1) : r \in Level(S, n)
      <4> SUFFICES ASSUME NEW r \in Level(S, n - 1) PROVE r \in Level(S, n)
        OBVIOUS
      <4>1. r \in SUBSET S /\ Cardinality(r) <= n - 1 /\ IsFiniteSet(r)
        BY FS_Subset DEF Level
      <4>2. Cardinality(r) \in Nat
        BY <4>1, FS_CardinalityType
      <4>3. Cardinality(r) <= n
        BY <4>1, <4>2
      <4> QED
        BY <4>1, <4>3 DEF Level
    <3> QED
      BY <3>1, <3>2, <3>3
  <2>3. u \in [Level(S, n) -> V]
    <3>1. ASSUME NEW s \in Level(S, n), s # {}
          PROVE  step[<<pick[s], t[s \ {pick[s]}]>>] \in V
      BY <2>2, <3>1
    <3> QED
      BY <3>1
  <2>4. ASSUME NEW r \in Level(S, n - 1), r \in Level(S, n) PROVE t[r] = u[r]
    BY <2>1, <2>4
  <2>5. ASSUME NEW s \in Level(S, n), s # {}
        PROVE  t[s \ {pick[s]}] = u[s \ {pick[s]}]
    BY <2>2, <2>4, <2>5
  <2>6. Fits(u, n)
    BY <2>5
  <2> HIDE DEF Fits, u
  <2> QED
    BY <2>3, <2>6
<1> HIDE DEF Has
<1>3. Bad = {}
  <2> SUFFICES ASSUME Bad # {} PROVE FALSE
    OBVIOUS
  <2>1. PICK n \in Bad : \A m \in Bad : n <= m
    BY LeastNumber
  <2>2. n \in Nat /\ n # 0
    BY <1>1
  <2>3. n - 1 \in Nat /\ n - 1 \notin Bad
    BY <2>1, <2>2
  <2>4. Has(n)
    BY <1>2, <2>2, <2>3
  <2> QED
    BY <2>4
<1>4. Cardinality(S) \in Nat /\ Level(S, Cardinality(S)) = SUBSET S
  <2>1. Cardinality(S) \in Nat
    BY FS_CardinalityType
  <2>2. \A s \in SUBSET S : Cardinality(s) <= Cardinality(S)
    BY FS_Subset
  <2> QED
    BY <2>1, <2>2 DEF Level
<1>5. PICK t \in [SUBSET S -> V] : Fits(t, Cardinality(S))
  <2>1. Has(Cardinality(S))
    BY <1>3, <1>4
  <2> QED
    BY <1>4, <2>1 DEF Has
<1>6. \A s \in SUBSET S :
          t[s] = IF s = {} THEN base ELSE step[<<pick[s], t[s \ {pick[s]}]>>]
  BY <1>4, <1>5
<1>7. FoldTable(t, S, base, step, pick)
  BY <1>6 DEF FoldTable
<1> QED
  BY <1>7

-----------------------------------------------------------------------------
(* Sums                                                                     *)

Pick(s) == CHOOSE x \in s : TRUE

\* The sums of f over the subsets of S.
SumTable(t, f, S) ==
    t = [s \in SUBSET S |-> IF s = {} THEN 0 ELSE f[Pick(s)] + t[s \ {Pick(s)}]]

LEMMA SumUnfolds ==
    ASSUME NEW f, NEW S
    PROVE  SumFunctionOnSet(f, S) = (CHOOSE t : SumTable(t, f, S))[S]
  BY Zenon DEF SumFunctionOnSet, FoldFunctionOnSet, MapThenFoldSet, SumTable, Pick

LEMMA PickIn == ASSUME NEW s, s # {} PROVE Pick(s) \in s
  BY DEF Pick

LEMMA SumTableExists ==
    ASSUME NEW S, IsFiniteSet(S), NEW f, \A x \in S : f[x] \in Int
    PROVE  \E t \in [SUBSET S -> Int] : SumTable(t, f, S)
<1> DEFINE step == [p \in S \X Int |-> f[p[1]] + p[2]]
           pick == [s \in SUBSET S |-> Pick(s)]
<1>1. step \in [S \X Int -> Int]
  <2>1. ASSUME NEW p \in S \X Int PROVE f[p[1]] + p[2] \in Int
    OBVIOUS
  <2> QED
    BY <2>1
<1>2. \A s \in SUBSET S : s # {} => pick[s] \in s
  BY PickIn
<1>3. \A x \in S, v \in Int : step[<<x, v>>] = f[x] + v
  OBVIOUS
<1>4. \A s \in SUBSET S : pick[s] = Pick(s)
  OBVIOUS
<1> HIDE DEF step, pick
<1>5. 0 \in Int
  OBVIOUS
<1>6. PICK t \in [SUBSET S -> Int] : FoldTable(t, S, 0, step, pick)
  BY <1>1, <1>2, <1>5, TableExists
<1>7. ASSUME NEW s \in SUBSET S, s # {}
      PROVE  step[<<pick[s], t[s \ {pick[s]}]>>] = f[Pick(s)] + t[s \ {Pick(s)}]
  <2>1. Pick(s) \in S /\ pick[s] = Pick(s)
    BY <1>4, <1>7, PickIn
  <2>2. t[s \ {Pick(s)}] \in Int
    OBVIOUS
  <2> QED
    BY <1>3, <2>1, <2>2
<1>8. SumTable(t, f, S)
  BY <1>6, <1>7 DEF FoldTable, SumTable
<1> QED
  BY <1>8

LEMMA SumTablesAgree ==
    ASSUME NEW S, IsFiniteSet(S), NEW T \in SUBSET S, NEW f,
           NEW g, \A x \in T : f[x] = g[x],
           NEW t, SumTable(t, f, S), NEW u, SumTable(u, g, T)
    PROVE  \A s \in SUBSET T : t[s] = u[s]
<1> DEFINE Bad == {s \in SUBSET T : t[s] # u[s]}
<1> SUFFICES ASSUME Bad # {} PROVE FALSE
  OBVIOUS
<1>1. IsFiniteSet(T) /\ Bad \in SUBSET SUBSET T
  BY FS_Subset
<1>2. PICK s \in Bad : \A r \in Bad : r \subseteq s => r = s
  <2> HIDE DEF Bad
  <2> QED
    BY <1>1, SmallestSet
<1>3. /\ t[s] = IF s = {} THEN 0 ELSE f[Pick(s)] + t[s \ {Pick(s)}]
      /\ u[s] = IF s = {} THEN 0 ELSE g[Pick(s)] + u[s \ {Pick(s)}]
  <2>1. s \in SUBSET S /\ s \in SUBSET T
    OBVIOUS
  <2> QED
    BY <2>1, Zenon DEF SumTable
<1>4. s # {} /\ Pick(s) \in s
  BY <1>3, PickIn
<1>5. s \ {Pick(s)} \notin Bad /\ s \ {Pick(s)} \in SUBSET T
  BY <1>2, <1>4
<1>6. f[Pick(s)] = g[Pick(s)] /\ t[s \ {Pick(s)}] = u[s \ {Pick(s)}]
  BY <1>4, <1>5
<1>7. t[s] = u[s]
  BY <1>3, <1>6, Zenon
<1> QED
  BY <1>7

\* What a sum over a finite set is, one element at a time.
LEMMA SumFacts ==
    ASSUME NEW S, IsFiniteSet(S), NEW f, \A x \in S : f[x] \in Int
    PROVE  /\ SumFunctionOnSet(f, S) \in Int
           /\ S = {} => SumFunctionOnSet(f, S) = 0
           /\ S # {} => SumFunctionOnSet(f, S)
                         = f[Pick(S)] + SumFunctionOnSet(f, S \ {Pick(S)})
<1>1. PICK t \in [SUBSET S -> Int] : SumTable(t, f, S)
  BY SumTableExists
<1>2. ASSUME NEW T \in SUBSET S PROVE SumFunctionOnSet(f, T) = t[T]
  <2>1. IsFiniteSet(T) /\ \A x \in T : f[x] \in Int
    BY FS_Subset
  <2>2. \E u : SumTable(u, f, T)
    BY <2>1, SumTableExists
  <2> DEFINE u == CHOOSE u : SumTable(u, f, T)
  <2>3. SumTable(u, f, T)
    BY <2>2, Zenon
  <2>4. SumFunctionOnSet(f, T) = u[T]
    BY SumUnfolds, Zenon
  <2> HIDE DEF u
  <2>5. t[T] = u[T]
    BY <1>1, <2>3, SumTablesAgree
  <2> QED
    BY <2>4, <2>5
<1>3. /\ SumFunctionOnSet(f, S) = t[S]
      /\ SumFunctionOnSet(f, S \ {Pick(S)}) = t[S \ {Pick(S)}]
  BY <1>2
<1>4. t[S] = IF S = {} THEN 0 ELSE f[Pick(S)] + t[S \ {Pick(S)}]
  BY <1>1, Zenon DEF SumTable
<1> QED
  BY <1>3, <1>4

\* Where two functions agree, so do their sums.
LEMMA SumOfSame ==
    ASSUME NEW S, IsFiniteSet(S), NEW f, NEW g,
           \A x \in S : f[x] \in Int /\ g[x] = f[x]
    PROVE  SumFunctionOnSet(f, S) = SumFunctionOnSet(g, S)
<1> DEFINE t == CHOOSE t : SumTable(t, f, S)
           u == CHOOSE u : SumTable(u, g, S)
<1>1. SumTable(t, f, S)
  BY SumTableExists, Zenon
<1>2. SumTable(u, g, S)
  <2>1. \A x \in S : g[x] \in Int
    OBVIOUS
  <2> QED
    BY <2>1, SumTableExists, Zenon
<1>3. SumFunctionOnSet(f, S) = t[S] /\ SumFunctionOnSet(g, S) = u[S]
  BY SumUnfolds, Zenon
<1> HIDE DEF t, u
<1>4. t[S] = u[S]
  BY <1>1, <1>2, SumTablesAgree
<1> QED
  BY <1>3, <1>4

\* Any element may be taken first.
LEMMA SumWithout ==
    ASSUME NEW S, IsFiniteSet(S), NEW f, \A x \in S : f[x] \in Int, NEW e \in S
    PROVE  SumFunctionOnSet(f, S) = f[e] + SumFunctionOnSet(f, S \ {e})
<1> DEFINE Sum(T) == SumFunctionOnSet(f, T)
           Bad == {T \in SUBSET S : \E x \in T : Sum(T) # f[x] + Sum(T \ {x})}
<1> SUFFICES ASSUME Bad # {} PROVE FALSE
  BY Zenon
<1>1. PICK T \in Bad : \A R \in Bad : R \subseteq T => R = T
  <2>1. Bad \in SUBSET SUBSET S
    OBVIOUS
  <2> HIDE DEF Bad
  <2> QED
    BY <2>1, SmallestSet
<1>2. PICK x \in T : Sum(T) # f[x] + Sum(T \ {x})
  OBVIOUS
<1> DEFINE p == Pick(T)
<1>3. /\ T \in SUBSET S /\ p \in T
      /\ \A R \in SUBSET T : IsFiniteSet(R) /\ \A y \in R : f[y] \in Int
  BY FS_Subset, PickIn
<1>4. Sum(T) = f[p] + Sum(T \ {p})
  BY <1>3, SumFacts
<1>5. p # x
  BY <1>2, <1>4
<1>6. /\ x \in T \ {p} /\ p \in T \ {x} /\ T \ {p} \notin Bad /\ T \ {x} \notin Bad
      /\ T \ {p} \in SUBSET T /\ T \ {x} \in SUBSET T
      /\ T \ {p} \in SUBSET S /\ T \ {x} \in SUBSET S
  BY <1>1, <1>3, <1>5
<1>7. /\ Sum(T \ {p}) = f[x] + Sum((T \ {p}) \ {x})
      /\ Sum(T \ {x}) = f[p] + Sum((T \ {x}) \ {p})
  BY <1>6, Zenon
<1>8. (T \ {p}) \ {x} = (T \ {x}) \ {p}
  OBVIOUS
<1>9. Sum((T \ {x}) \ {p}) \in Int /\ f[x] \in Int /\ f[p] \in Int
  BY <1>3, SumFacts
<1> DEFINE both == Sum((T \ {x}) \ {p})
<1>10. Sum(T) = f[p] + (f[x] + both) /\ Sum(T \ {x}) = f[p] + both
  BY <1>4, <1>7, <1>8, Zenon
<1>11. both \in Int
  BY <1>9
<1> HIDE DEF Sum, p, both
<1>12. Sum(T) = f[x] + Sum(T \ {x})
  BY <1>9, <1>10, <1>11
<1> QED
  BY <1>2, <1>12

LEMMA SumWith ==
    ASSUME NEW S, IsFiniteSet(S), NEW f, NEW e, e \notin S,
           \A x \in S \cup {e} : f[x] \in Int
    PROVE  SumFunctionOnSet(f, S \cup {e}) = f[e] + SumFunctionOnSet(f, S)
<1>1. IsFiniteSet(S \cup {e}) /\ (S \cup {e}) \ {e} = S
  BY FS_AddElement
<1> QED
  BY <1>1, SumWithout

\* The sums of two sets without common elements.
LEMMA SumOfUnion ==
    ASSUME NEW S, IsFiniteSet(S), NEW T, IsFiniteSet(T), S \cap T = {}, NEW f,
           \A x \in S \cup T : f[x] \in Int
    PROVE  SumFunctionOnSet(f, S \cup T)
           = SumFunctionOnSet(f, S) + SumFunctionOnSet(f, T)
<1> DEFINE Sum(R) == SumFunctionOnSet(f, R)
           Bad == {R \in SUBSET T : Sum(S \cup R) # Sum(S) + Sum(R)}
<1> SUFFICES ASSUME Bad # {} PROVE FALSE
  OBVIOUS
<1>1. PICK R \in Bad : \A Q \in Bad : Q \subseteq R => Q = R
  <2>1. Bad \in SUBSET SUBSET T
    OBVIOUS
  <2> HIDE DEF Bad
  <2> QED
    BY <2>1, SmallestSet
<1>2. /\ IsFiniteSet(R) /\ IsFiniteSet(S \cup R) /\ \A x \in S \cup R : f[x] \in Int
  BY FS_Subset, FS_Union
<1>3. Sum(S) \in Int
  BY SumFacts
<1>4. CASE R = {}
  <2>1. Sum(R) = 0 /\ S \cup R = S
    BY <1>2, <1>4, SumFacts
  <2> QED
    BY <1>3, <2>1
<1>5. CASE R # {}
  <2>1. PICK x \in R : TRUE
    BY <1>5
  <2>2. R \ {x} \notin Bad /\ R \ {x} \in SUBSET T
    BY <1>1, <2>1
  <2>3. Sum(S \cup (R \ {x})) = Sum(S) + Sum(R \ {x})
    BY <2>2
  <2>4. Sum(R) = f[x] + Sum(R \ {x})
    BY <1>2, SumWithout
  <2>5. (S \cup R) \ {x} = S \cup (R \ {x}) /\ x \in S \cup R
    BY <2>1
  <2>6. Sum(S \cup R) = f[x] + Sum(S \cup (R \ {x}))
    BY <1>2, <2>5, SumWithout
  <2>7. f[x] \in Int /\ Sum(R \ {x}) \in Int
    <3>1. IsFiniteSet(R \ {x}) /\ \A y \in R \ {x} : f[y] \in Int
      BY <1>2, FS_Subset
    <3> QED
      BY <1>2, <3>1, SumFacts
  <2> HIDE DEF Sum
  <2>8. Sum(S \cup R) = Sum(S) + Sum(R)
    BY <1>3, <2>3, <2>4, <2>6, <2>7
  <2> QED
    BY <2>8
<1> QED
  BY <1>4, <1>5
-----------------------------------------------------------------------------
(* Chunking, for any documents and any window sizes with                    *)
(* MIN_CHUNK_WORDS <= OVERLAP_WORDS < TARGET_WORDS.  The invariant adds two *)
(* facts about the cursor.  A window that starts inside a page leaves more  *)
(* than OVERLAP_WORDS words, hence a tail that is merged starts its page;   *)
(* and spans lie before the cursor, hence that page has no span yet.        *)

\* Inside a page, more words are left than an overlap.
LongRest == More /\ start > 0 => start + OVERLAP_WORDS < words[page]

\* Spans are of pages the cursor has entered.
SpansBehind ==
    \A i \in DOMAIN chunks :
        /\ chunks[i].spans # <<>>
        /\ \A k \in DOMAIN chunks[i].spans :
              LET p == chunks[i].spans[k].page
              IN p \in DOMAIN words /\ (p < page \/ (p = page /\ start > 0))

ChunkInvariant == ChunkTypeOK /\ LongRest /\ SpansBehind
-----------------------------------------------------------------------------
LEMMA WindowFits ==
    ASSUME ChunkTypeOK, More, words[page] > 0, start < words[page]
    PROVE  /\ page \in DOMAIN words /\ words[page] \in Nat
           /\ Window \in Span /\ Size(Window) \in Nat \ {0}
           /\ Window.page = page /\ Window.from = start /\ Window.to <= words[page]
           /\ IsTail => Window.to = words[page]
           /\ ~IsTail => Window.to = start + TARGET_WORDS
<1>1. page \in DOMAIN words /\ words[page] \in Nat
  BY DEF ChunkTypeOK, More
<1>2. TARGET_WORDS \in Nat /\ TARGET_WORDS > 0 /\ start \in Nat
  BY ChunkingAssumption DEF ChunkTypeOK
<1>3. CASE IsTail
  <2>1. Window = [page |-> page, from |-> start, to |-> words[page]]
    BY <1>3 DEF Window
  <2>2. Window.page = page /\ Window.from = start /\ Window.to = words[page]
    BY <2>1
  <2>3. Window \in Span
    BY <1>1, <1>2, <2>1, ChunkTypeOK DEF Span, ChunkTypeOK
  <2> QED
    BY <1>1, <1>2, <1>3, <2>2, <2>3 DEF Size
<1>4. CASE ~IsTail
  <2>1. Window = [page |-> page, from |-> start, to |-> start + TARGET_WORDS]
    BY <1>4 DEF Window
  <2>2. start + TARGET_WORDS < words[page]
    BY <1>1, <1>2, <1>4 DEF IsTail
  <2>3. /\ Window.page = page /\ Window.from = start
        /\ Window.to = start + TARGET_WORDS
    BY <2>1
  <2>4. Window \in Span
    BY <1>1, <1>2, <2>1, ChunkTypeOK DEF Span, ChunkTypeOK
  <2> QED
    BY <1>1, <1>2, <1>4, <2>2, <2>3, <2>4 DEF Size
<1> QED
  BY <1>3, <1>4

LEMMA StartInside ==
    ASSUME ChunkTypeOK, LongRest, More, words[page] > 0
    PROVE  start < words[page]
<1>1. page \in DOMAIN words /\ words[page] \in Nat /\ start \in Nat
  BY DEF ChunkTypeOK, More
<1>2. OVERLAP_WORDS \in Nat
  BY ChunkingAssumption
<1> QED
  BY <1>1, <1>2 DEF LongRest

\* A tiny tail is a whole page.
LEMMA TinyTailIsPage ==
    ASSUME ChunkTypeOK, LongRest, More, words[page] > 0, Merges
    PROVE  start = 0 /\ Size(Window) < MIN_CHUNK_WORDS /\ Window.to = words[page]
<1>1. start < words[page]
  BY StartInside
<1>2. Size(Window) < MIN_CHUNK_WORDS /\ Window.to = words[page] /\ Window.from = start
  BY <1>1, WindowFits DEF Merges, Tiny
<1>3. /\ words[page] \in Nat /\ start \in Nat
      /\ OVERLAP_WORDS \in Nat /\ MIN_CHUNK_WORDS \in Nat /\ MIN_CHUNK_WORDS <= OVERLAP_WORDS
  BY <1>1, WindowFits, ChunkingAssumption DEF ChunkTypeOK
<1>4. ~(start > 0)
  <2>1. Size(Window) = words[page] - start
    BY <1>2 DEF Size
  <2> QED
    BY <2>1, <1>2, <1>3 DEF LongRest
<1> QED
  BY <1>2, <1>3, <1>4
-----------------------------------------------------------------------------
LEMMA ChunkStart == ChunkInit => ChunkInvariant
<1> SUFFICES ASSUME ChunkInit PROVE ChunkInvariant
  OBVIOUS
<1> USE DEF ChunkInit
<1>1. words \in Seq(Nat) /\ chunks = <<>> /\ page = 1 /\ start = 0
  BY ChunkingAssumption
<1>2. ChunkTypeOK
  <2>1. More => start <= words[page]
    BY <1>1 DEF More
  <2> QED
    BY <1>1, <2>1 DEF ChunkTypeOK
<1> QED
  BY <1>1, <1>2 DEF ChunkInvariant, LongRest, SpansBehind

\* What moving to the next page keeps.
LEMMA NextPageTypes ==
    ASSUME ChunkTypeOK, More, NextPage, UNCHANGED words
    PROVE  /\ words' \in Seq(Nat) /\ page' \in 1..(Len(words') + 1) /\ start' \in Nat
           /\ More' => start' <= words'[page']
           /\ LongRest'
<1>1. words \in Seq(Nat) /\ page \in 1..(Len(words) + 1) /\ page <= Len(words)
  BY DEF ChunkTypeOK, More
<1>2. page' = page + 1 /\ start' = 0 /\ words' = words
  BY DEF NextPage
<1>3. page' \in 1..(Len(words') + 1)
  BY <1>1, <1>2
<1>4. More' => words'[page'] \in Nat
  BY <1>1, <1>2, <1>3 DEF More
<1> QED
  BY <1>1, <1>2, <1>3, <1>4 DEF LongRest

LEMMA SkipKeeps == ChunkInvariant /\ SkipEmpty => ChunkInvariant'
<1> SUFFICES ASSUME ChunkInvariant, SkipEmpty PROVE ChunkInvariant'
  OBVIOUS
<1> USE DEF ChunkInvariant, SkipEmpty
<1>1. ChunkTypeOK' /\ LongRest'
  BY NextPageTypes DEF ChunkTypeOK
<1>2. SpansBehind'
  <2>1. page \in Nat /\ page' = page + 1 /\ words' = words /\ chunks' = chunks
    BY DEF ChunkTypeOK, NextPage
  <2>2. DOMAIN words \subseteq Nat
    BY DEF ChunkTypeOK
  <2>3. \A p \in DOMAIN words : p <= page => p < page'
    BY <2>1, <2>2
  <2>4. \A p \in DOMAIN words : p < page => p <= page
    BY <2>1, <2>2
  <2>5. \A p \in DOMAIN words : p = page => p <= page
    BY <2>1
  <2> QED
    BY <2>1, <2>3, <2>4, <2>5 DEF SpansBehind
<1> QED
  BY <1>1, <1>2

LEMMA ExtendedChunk ==
    ASSUME NEW r \in Chunk, NEW spans
    PROVE  [r EXCEPT !.spans = spans] = [page |-> r.page, spans |-> spans]
  BY DEF Chunk

\* The chunks after a tail was merged.
LEMMA MergedChunks ==
    ASSUME ChunkInvariant, MergeTail
    PROVE  /\ Len(chunks) \in DOMAIN chunks /\ DOMAIN chunks' = DOMAIN chunks
           /\ chunks' \in Seq(Chunk)
           /\ \A i \in DOMAIN chunks : chunks'[i].page = chunks[i].page
           /\ \A i \in DOMAIN chunks : i # Len(chunks) => chunks'[i] = chunks[i]
           /\ chunks'[Len(chunks)].spans = Append(chunks[Len(chunks)].spans, Window)
<1>1. Window \in Span
  BY StartInside, WindowFits DEF ChunkInvariant, MergeTail
<1>2. chunks \in Seq(Chunk) /\ chunks # <<>>
  BY DEF ChunkInvariant, ChunkTypeOK, MergeTail, Merges
<1>3. Len(chunks) \in DOMAIN chunks /\ chunks[Len(chunks)] \in Chunk
  BY <1>2
<1> DEFINE last == chunks[Len(chunks)]
           new == [page |-> last.page, spans |-> Append(last.spans, Window)]
<1>4. new \in Chunk /\ new.page = last.page /\ new.spans = Append(last.spans, Window)
  BY <1>1, <1>3 DEF Chunk
<1>5. chunks' = [chunks EXCEPT ![Len(chunks)] = new]
  <2>1. chunks' = [chunks EXCEPT ![Len(chunks)] =
                      [last EXCEPT !.spans = Append(last.spans, Window)]]
    BY Zenon DEF MergeTail
  <2>2. [last EXCEPT !.spans = Append(last.spans, Window)] = new
    BY <1>3, ExtendedChunk, Zenon
  <2> QED
    BY <2>1, <2>2, Zenon
<1> HIDE DEF new
<1> QED
  BY <1>2, <1>3, <1>4, <1>5

LEMMA MergeKeeps == ChunkInvariant /\ MergeTail => ChunkInvariant'
<1> SUFFICES ASSUME ChunkInvariant, MergeTail PROVE ChunkInvariant'
  OBVIOUS
<1>1. ChunkTypeOK' /\ LongRest'
  BY NextPageTypes, MergedChunks DEF ChunkTypeOK, ChunkInvariant, MergeTail
<1>2. /\ page \in Nat /\ page' = page + 1 /\ words' = words
      /\ chunks \in Seq(Chunk) /\ page \in DOMAIN words
  BY DEF ChunkInvariant, ChunkTypeOK, MergeTail, NextPage, More
<1>3. Window.page = page
  BY StartInside, WindowFits DEF ChunkInvariant, MergeTail
<1>4. SpansBehind'
  <2> SUFFICES ASSUME NEW i \in DOMAIN chunks'
               PROVE  /\ chunks'[i].spans # <<>>
                      /\ \A k \in DOMAIN chunks'[i].spans :
                            /\ chunks'[i].spans[k].page \in DOMAIN words
                            /\ chunks'[i].spans[k].page < page'
    BY <1>2 DEF SpansBehind
  <2>1. i \in DOMAIN chunks /\ chunks[i] \in Chunk
    BY MergedChunks, <1>2
  <2>2. \A k \in DOMAIN chunks[i].spans :
            chunks[i].spans[k].page \in DOMAIN words /\ chunks[i].spans[k].page <= page
    BY <2>1, <1>2 DEF ChunkInvariant, SpansBehind
  <2>. DOMAIN words \subseteq Nat
    BY DEF ChunkInvariant, ChunkTypeOK
  <2>. \A p \in DOMAIN words : p <= page => p < page'
    BY <1>2
  <2>3. CASE i # Len(chunks)
    <3>1. chunks'[i] = chunks[i] /\ chunks[i].spans # <<>>
      BY <2>1, <2>3, MergedChunks DEF ChunkInvariant, SpansBehind
    <3> QED
      BY <3>1, <2>2
  <2>4. CASE i = Len(chunks)
    <3> DEFINE old == chunks[i].spans
    <3>1. chunks'[i].spans = Append(old, Window) /\ old \in Seq(Span)
      BY <2>1, <2>4, MergedChunks DEF Chunk
    <3> HIDE DEF old
    <3>2. \A k \in DOMAIN Append(old, Window) :
             Append(old, Window)[k] = IF k = Len(old) + 1 THEN Window ELSE old[k]
      BY <3>1
    <3>3. \A k \in DOMAIN Append(old, Window) : k # Len(old) + 1 => k \in DOMAIN old
      BY <3>1
    <3>4. \A k \in DOMAIN old : old[k].page \in DOMAIN words /\ old[k].page <= page
      BY <2>2 DEF old
    <3>5. \A k \in DOMAIN Append(old, Window) :
             /\ Append(old, Window)[k].page \in DOMAIN words
             /\ Append(old, Window)[k].page <= page
      BY <3>2, <3>3, <3>4, <1>2, <1>3
    <3>6. Append(old, Window) # <<>>
      BY <3>1
    <3> QED
      BY <3>1, <3>5, <3>6
  <2> QED
    BY <2>3, <2>4
<1> QED
  BY <1>1, <1>4 DEF ChunkInvariant

\* The chunks after a window became one.
LEMMA EmittedChunks ==
    ASSUME ChunkInvariant, EmitChunk
    PROVE  /\ chunks' \in Seq(Chunk) /\ Len(chunks) \in Nat
           /\ DOMAIN chunks = 1..Len(chunks)
           /\ DOMAIN chunks' = DOMAIN chunks \cup {Len(chunks) + 1}
           /\ \A i \in DOMAIN chunks : chunks'[i] = chunks[i]
           /\ chunks'[Len(chunks) + 1] = [page |-> page, spans |-> <<Window>>]
<1>1. Window \in Span
  BY StartInside, WindowFits DEF ChunkInvariant, EmitChunk
<1>2. chunks \in Seq(Chunk) /\ page \in Nat
  BY DEF ChunkInvariant, ChunkTypeOK
<1> DEFINE new == [page |-> page, spans |-> <<Window>>]
<1>3. new \in Chunk
  BY <1>1, <1>2 DEF Chunk
<1>4. chunks' = Append(chunks, new)
  BY DEF EmitChunk
<1> HIDE DEF new
<1>5. /\ chunks' \in Seq(Chunk) /\ Len(chunks) \in Nat
      /\ DOMAIN chunks = 1..Len(chunks) /\ DOMAIN chunks' = 1..(Len(chunks) + 1)
      /\ \A i \in DOMAIN chunks : chunks'[i] = chunks[i]
      /\ chunks'[Len(chunks) + 1] = new
  BY <1>2, <1>3, <1>4
<1> QED
  BY <1>5 DEF new

\* Where the cursor goes after a window that is not a tail.
LEMMA NextWindow ==
    ASSUME ChunkInvariant, EmitChunk, ~IsTail
    PROVE  /\ page' = page /\ words' = words /\ page \in DOMAIN words
           /\ start' \in Nat /\ start' > start
           /\ start' + OVERLAP_WORDS = start + TARGET_WORDS
           /\ start' + OVERLAP_WORDS < words[page]
<1>1. page' = page /\ words' = words /\ start' = start + TARGET_WORDS - OVERLAP_WORDS
  BY DEF EmitChunk, NextStart
<1>2. start \in Nat /\ page \in DOMAIN words /\ words[page] \in Nat
  BY DEF ChunkInvariant, ChunkTypeOK, EmitChunk, More
<1>3. TARGET_WORDS \in Nat /\ OVERLAP_WORDS \in Nat /\ OVERLAP_WORDS < TARGET_WORDS
  BY ChunkingAssumption
<1>4. start + TARGET_WORDS < words[page]
  BY <1>2, <1>3 DEF IsTail
<1> QED
  BY <1>1, <1>2, <1>3, <1>4

LEMMA EmitKeeps == ChunkInvariant /\ EmitChunk => ChunkInvariant'
<1> SUFFICES ASSUME ChunkInvariant, EmitChunk PROVE ChunkInvariant'
  OBVIOUS
<1>1. ChunkTypeOK' /\ LongRest'
  <2>1. CASE IsTail
    <3>1. NextPage /\ UNCHANGED words /\ More
      BY <2>1 DEF EmitChunk
    <3> QED
      BY <3>1, NextPageTypes, EmittedChunks DEF ChunkTypeOK, ChunkInvariant
  <2>2. CASE ~IsTail
    <3>1. start' <= words'[page'] /\ (LongRest)'
      <4>1. words[page] \in Nat /\ OVERLAP_WORDS \in Nat
        BY <2>2, NextWindow, ChunkingAssumption DEF ChunkInvariant, ChunkTypeOK
      <4> QED
        BY <4>1, <2>2, NextWindow DEF LongRest
    <3> QED
      BY <3>1, <2>2, NextWindow, EmittedChunks DEF ChunkTypeOK, ChunkInvariant
  <2> QED
    BY <2>1, <2>2
<1>2. SpansBehind'
  <2>1. Window.page = page /\ page \in DOMAIN words /\ words' = words
    BY StartInside, WindowFits DEF ChunkInvariant, EmitChunk
  <2>2. \A p \in DOMAIN words : p < page \/ p = page =>
            p < page' \/ (p = page' /\ start' > 0)
    <3>1. DOMAIN words \subseteq Nat /\ start \in Nat
      BY DEF ChunkInvariant, ChunkTypeOK
    <3>2. CASE IsTail
      BY <3>1, <3>2, <2>1 DEF EmitChunk, NextPage
    <3>3. CASE ~IsTail
      BY <3>1, <3>3, NextWindow
    <3> QED
      BY <3>2, <3>3
  <2> SUFFICES ASSUME NEW i \in DOMAIN chunks'
               PROVE  /\ chunks'[i].spans # <<>>
                      /\ \A k \in DOMAIN chunks'[i].spans :
                            /\ chunks'[i].spans[k].page \in DOMAIN words
                            /\ \/ chunks'[i].spans[k].page < page
                               \/ chunks'[i].spans[k].page = page
    BY <2>1, <2>2 DEF SpansBehind
  <2>3. CASE i \in DOMAIN chunks
    <3>1. chunks'[i] = chunks[i]
      BY <2>3, EmittedChunks
    <3> QED
      BY <2>3, <3>1 DEF ChunkInvariant, SpansBehind
  <2>4. CASE i = Len(chunks) + 1
    <3>1. chunks'[i].spans = <<Window>>
      BY <2>4, EmittedChunks
    <3> QED
      BY <2>1, <3>1
  <2> QED
    BY <2>3, <2>4, EmittedChunks
<1> QED
  BY <1>1, <1>2 DEF ChunkInvariant

LEMMA ChunkStep == ChunkInvariant /\ [ChunkNext]_chunkVars => ChunkInvariant'
<1>1. CASE UNCHANGED chunkVars
  BY <1>1 DEF chunkVars, ChunkInvariant, ChunkTypeOK, LongRest, SpansBehind, More
<1> QED
  BY <1>1, SkipKeeps, MergeKeeps, EmitKeeps DEF ChunkNext

\* The cursor stays inside the document and the chunks are well-formed.
THEOREM ChunkingInvariant == ChunkSpec => []ChunkInvariant
  BY ChunkStart, ChunkStep, PTL DEF ChunkSpec
-----------------------------------------------------------------------------
\* The spans a merge leaves: the old ones, and the tail at the end of the last.
LEMMA MergedSpans ==
    ASSUME ChunkInvariant, MergeTail, NEW i \in DOMAIN chunks
    PROVE  /\ chunks'[i].page = chunks[i].page
           /\ chunks[i].spans \in Seq(Span) /\ chunks[i].spans # <<>>
           /\ \A k \in DOMAIN chunks[i].spans :
                 k \in DOMAIN chunks'[i].spans /\ chunks'[i].spans[k] = chunks[i].spans[k]
           /\ \A k \in DOMAIN chunks'[i].spans :
                 \/ k \in DOMAIN chunks[i].spans
                 \/ k = Len(chunks[i].spans) + 1 /\ chunks'[i].spans[k] = Window
<1>1. chunks[i] \in Chunk /\ chunks[i].spans # <<>>
  BY DEF ChunkInvariant, ChunkTypeOK, SpansBehind
<1> DEFINE old == chunks[i].spans
<1>2. old \in Seq(Span)
  BY <1>1 DEF Chunk
<1>3. CASE i # Len(chunks)
  BY <1>1, <1>2, <1>3, MergedChunks
<1>4. CASE i = Len(chunks)
  <2>1. chunks'[i].spans = Append(old, Window)
    BY <1>4, MergedChunks
  <2> HIDE DEF old
  <2>2. /\ \A k \in DOMAIN old : k \in DOMAIN Append(old, Window)
                                 /\ Append(old, Window)[k] = old[k]
        /\ \A k \in DOMAIN Append(old, Window) :
              k \in DOMAIN old \/ (k = Len(old) + 1 /\ Append(old, Window)[k] = Window)
    BY <1>2
  <2>3. chunks'[i].page = chunks[i].page
    BY MergedChunks
  <2> QED
    BY <1>1, <1>2, <2>1, <2>2, <2>3 DEF old
<1> QED
  BY <1>3, <1>4

LEMMA MergeFacts ==
    ASSUME ChunkInvariant, MergeTail
    PROVE  /\ DOMAIN chunks' = DOMAIN chunks /\ Len(chunks) \in DOMAIN chunks
           /\ words' = words /\ page' = page + 1 /\ start' = 0 /\ start = 0
           /\ page \in DOMAIN words /\ page \in Nat
           /\ Window.page = page /\ Window.from = 0 /\ Window.to = words[page]
           /\ Size(Window) < MIN_CHUNK_WORDS
  BY MergedChunks, StartInside, WindowFits, TinyTailIsPage
  DEF ChunkInvariant, ChunkTypeOK, MergeTail, NextPage

LEMMA EmitFacts ==
    ASSUME ChunkInvariant, EmitChunk
    PROVE  /\ words' = words /\ page \in DOMAIN words /\ page \in Nat
           /\ words[page] \in Nat /\ start \in Nat
           /\ Window.page = page /\ Window.from = start
           /\ IsTail => Window.to = words[page] /\ page' = page + 1 /\ start' = 0
           /\ ~IsTail => /\ Window.to = start + TARGET_WORDS
                         /\ page' = page /\ start' \in Nat /\ start' <= start + TARGET_WORDS
<1>1. words' = words /\ page \in Nat /\ start \in Nat
  BY DEF ChunkInvariant, ChunkTypeOK, EmitChunk
<1>2. /\ page \in DOMAIN words /\ words[page] \in Nat
      /\ Window.page = page /\ Window.from = start
      /\ IsTail => Window.to = words[page]
      /\ ~IsTail => Window.to = start + TARGET_WORDS
  BY StartInside, WindowFits DEF ChunkInvariant, EmitChunk
<1>3. IsTail => page' = page + 1 /\ start' = 0
  BY DEF EmitChunk, NextPage
<1>4. ~IsTail => page' = page /\ start' \in Nat /\ start' <= start + TARGET_WORDS
  <2>1. MIN_CHUNK_WORDS \in Nat /\ OVERLAP_WORDS \in Nat /\ TARGET_WORDS \in Nat
    BY ChunkingAssumption
  <2>2. ~IsTail => page' = page /\ start' = start + TARGET_WORDS - OVERLAP_WORDS
                   /\ start' \in Nat
    BY NextWindow DEF EmitChunk, NextStart
  <2> QED
    BY <1>1, <2>1, <2>2
<1> QED
  BY <1>1, <1>2, <1>3, <1>4
-----------------------------------------------------------------------------
InChunks(p, w) == \E i \in DOMAIN chunks : Holds(chunks[i], p, w)

LEMMA MergeHolds ==
    ASSUME ChunkInvariant, MergeTail, NEW p, NEW w, InChunks(p, w)
    PROVE  InChunks(p, w)'
<1>1. PICK i \in DOMAIN chunks : Holds(chunks[i], p, w)
  BY DEF InChunks
<1>2. Holds(chunks'[i], p, w)
  BY <1>1, MergedSpans DEF Holds
<1> QED
  BY <1>1, <1>2, MergeFacts DEF InChunks

LEMMA EmitHolds ==
    ASSUME ChunkInvariant, EmitChunk, NEW p, NEW w, InChunks(p, w)
    PROVE  InChunks(p, w)'
<1>1. PICK i \in DOMAIN chunks : Holds(chunks[i], p, w)
  BY DEF InChunks
<1> QED
  BY <1>1, EmittedChunks DEF InChunks

LEMMA WordsStay == [ChunkNext]_chunkVars => words' = words
  BY Zenon DEF ChunkNext, SkipEmpty, MergeTail, EmitChunk, chunkVars

LEMMA WordsStep ==
    ChunkInvariant /\ EveryWordKept /\ [ChunkNext]_chunkVars => EveryWordKept'
<1> SUFFICES ASSUME ChunkInvariant, EveryWordKept, [ChunkNext]_chunkVars,
                    words' = words,
                    NEW p \in DOMAIN words, NEW w \in 0..(words[p] - 1),
                    p < page' \/ (p = page' /\ w < start')
             PROVE  InChunks(p, w)'
  BY WordsStay DEF EveryWordKept, InChunks
<1>1. p \in Nat /\ words[p] \in Nat /\ page \in Nat /\ start \in Nat /\ w \in Nat /\ w < words[p]
  BY DEF ChunkInvariant, ChunkTypeOK
<1>2. p < page \/ (p = page /\ w < start) => InChunks(p, w)
  BY DEF EveryWordKept, InChunks
<1>3. CASE UNCHANGED chunkVars
  BY <1>2, <1>3 DEF chunkVars, InChunks
<1>4. CASE SkipEmpty
  <2>1. page' = page + 1 /\ start' = 0 /\ words[page] = 0 /\ chunks' = chunks
    BY <1>4 DEF SkipEmpty, NextPage
  <2>2. p < page
    BY <2>1, <1>1
  <2> QED
    BY <2>1, <2>2, <1>2 DEF InChunks
<1>5. CASE MergeTail
  <2>1. p < page \/ p = page
    BY <1>1, <1>5, MergeFacts
  <2>2. CASE p < page
    BY <2>2, <1>2, <1>5, MergeHolds
  <2>3. CASE p = page
    <3>1. Len(chunks) \in DOMAIN chunks /\ chunks[Len(chunks)].spans \in Seq(Span)
      BY <1>5, MergeFacts, MergedSpans
    <3> DEFINE old == chunks[Len(chunks)].spans
    <3>2. chunks'[Len(chunks)].spans = Append(old, Window)
      BY <1>5, MergedChunks
    <3> HIDE DEF old
    <3>3. /\ Len(old) + 1 \in DOMAIN Append(old, Window)
          /\ Append(old, Window)[Len(old) + 1] = Window
      BY <3>1 DEF old
    <3>4. Window.page = p /\ Window.from <= w /\ w < Window.to
      BY <2>3, <1>1, <1>5, MergeFacts
    <3>5. Holds(chunks'[Len(chunks)], p, w)
      BY <3>2, <3>3, <3>4 DEF Holds
    <3> QED
      BY <3>1, <3>5, <1>5, MergeFacts DEF InChunks
  <2> QED
    BY <2>1, <2>2, <2>3
<1>6. CASE EmitChunk
  <2>1. CASE p < page \/ (p = page /\ w < start)
    BY <2>1, <1>2, <1>6, EmitHolds
  <2>2. CASE ~(p < page \/ (p = page /\ w < start))
    <3>1. p = page /\ w >= start /\ w < Window.to /\ Window.page = p /\ Window.from <= w
      <4> TARGET_WORDS \in Nat
        BY ChunkingAssumption
      <4>1. CASE IsTail
        BY <4>1, <2>2, <1>1, <1>6, EmitFacts
      <4>2. CASE ~IsTail
        BY <4>2, <2>2, <1>1, <1>6, EmitFacts
      <4> QED
        BY <4>1, <4>2
    <3> DEFINE new == chunks'[Len(chunks) + 1]
    <3>2. new.spans = <<Window>> /\ Len(chunks) + 1 \in DOMAIN chunks'
      BY <1>6, EmittedChunks
    <3>3. Holds(new, p, w)
      BY <3>1, <3>2 DEF Holds
    <3> QED
      BY <3>2, <3>3 DEF InChunks
  <2> QED
    BY <2>1, <2>2
<1> QED
  BY <1>3, <1>4, <1>5, <1>6 DEF ChunkNext

\* No word of any document is lost between chunks.
THEOREM WordsKept == ChunkSpec => []EveryWordKept
<1>1. ChunkInit => EveryWordKept
  <2> SUFFICES ASSUME ChunkInit, NEW p \in DOMAIN words, NEW w \in 0..(words[p] - 1),
                      p < page \/ (p = page /\ w < start)
               PROVE  FALSE
    BY DEF EveryWordKept
  <2>1. words \in Seq(Nat) /\ page = 1 /\ start = 0
    BY ChunkingAssumption DEF ChunkInit
  <2>2. p \in Nat /\ p >= 1 /\ w \in Nat
    BY <2>1
  <2> QED
    BY <2>1, <2>2
<1> QED
  BY <1>1, WordsStep, ChunkingInvariant, PTL DEF ChunkSpec
-----------------------------------------------------------------------------
\* A fact about every span of every chunk holds of the spans a step adds, or of
\* those that were there.
LEMMA PagesStep == ChunkInvariant /\ CitedPage /\ [ChunkNext]_chunkVars => CitedPage'
<1> SUFFICES ASSUME ChunkInvariant, CitedPage, [ChunkNext]_chunkVars, words' = words,
                    NEW i \in DOMAIN chunks', NEW k \in DOMAIN chunks'[i].spans,
                    chunks'[i].spans[k].page # chunks'[i].page
             PROVE  LET span == chunks'[i].spans[k]
                    IN /\ span.from = 0 /\ span.to = words[span.page]
                       /\ Size(span) < MIN_CHUNK_WORDS
  BY WordsStay DEF CitedPage, Size
<1>1. CASE UNCHANGED chunks
  BY <1>1 DEF CitedPage, Size
<1>2. CASE MergeTail
  <2>1. i \in DOMAIN chunks
    BY <1>2, MergeFacts
  <2>2. CASE k \in DOMAIN chunks[i].spans
    BY <1>2, <2>1, <2>2, MergedSpans DEF CitedPage, Size
  <2>3. CASE k \notin DOMAIN chunks[i].spans
    <3>1. chunks'[i].spans[k] = Window
      BY <1>2, <2>1, <2>3, MergedSpans
    <3> QED
      BY <1>2, <3>1, MergeFacts
  <2> QED
    BY <2>2, <2>3
<1>3. CASE EmitChunk
  <2>1. CASE i \in DOMAIN chunks
    BY <1>3, <2>1, EmittedChunks DEF CitedPage, Size
  <2>2. CASE i = Len(chunks) + 1
    <3>1. chunks'[i].page = page /\ chunks'[i].spans = <<Window>>
      BY <1>3, <2>2, EmittedChunks
    <3> QED
      BY <1>3, <3>1, EmitFacts
  <2> QED
    BY <1>3, <2>1, <2>2, EmittedChunks
<1> QED
  BY <1>1, <1>2, <1>3 DEF ChunkNext, SkipEmpty, chunkVars

\* A chunk is cited with the page of its words, whole tiny pages excepted.
THEOREM PagesCited == ChunkSpec => []CitedPage
<1>1. ChunkInit => CitedPage
  BY DEF ChunkInit, CitedPage
<1> QED
  BY <1>1, PagesStep, ChunkingInvariant, PTL DEF ChunkSpec

LEMMA FragmentsStep ==
    ChunkInvariant /\ NoFragments /\ [ChunkNext]_chunkVars => NoFragments'
<1> SUFFICES ASSUME ChunkInvariant, NoFragments, [ChunkNext]_chunkVars,
                    NEW i \in DOMAIN chunks', i > 1
             PROVE  Size(chunks'[i].spans[1]) >= MIN_CHUNK_WORDS
  BY DEF NoFragments, Size
<1>1. CASE UNCHANGED chunks
  BY <1>1 DEF NoFragments, Size
<1>2. CASE MergeTail
  <2>1. /\ i \in DOMAIN chunks
        /\ chunks[i].spans \in Seq(Span) /\ chunks[i].spans # <<>>
    BY <1>2, MergeFacts, MergedSpans
  <2>2. 1 \in DOMAIN chunks[i].spans
    BY <2>1
  <2> QED
    BY <1>2, <2>1, <2>2, MergedSpans DEF NoFragments, Size
<1>3. CASE EmitChunk
  <2>1. CASE i \in DOMAIN chunks
    BY <1>3, <2>1, EmittedChunks DEF NoFragments, Size
  <2>2. CASE i = Len(chunks) + 1
    <3>1. chunks'[i].spans[1] = Window
      BY <1>3, <2>2, EmittedChunks
    <3>2. chunks # <<>>
      BY <1>3, <2>2, EmittedChunks
    <3>3. ~IsTail \/ ~Tiny(Window)
      BY <1>3, <3>2 DEF EmitChunk, Merges
    <3>4. Size(Window) >= MIN_CHUNK_WORDS
      <4>1. MIN_CHUNK_WORDS \in Nat /\ TARGET_WORDS \in Nat /\ MIN_CHUNK_WORDS <= TARGET_WORDS
        BY ChunkingAssumption
      <4>2. CASE ~IsTail
        <5>1. Size(Window) = (start + TARGET_WORDS) - start /\ start \in Nat
          BY <1>3, <4>2, EmitFacts DEF Size
        <5> QED
          BY <4>1, <5>1
      <4>3. CASE ~Tiny(Window)
        <5>1. Size(Window) \in Nat
          BY <1>3, StartInside, WindowFits DEF ChunkInvariant, EmitChunk
        <5> QED
          BY <4>1, <4>3, <5>1 DEF Tiny
      <4> QED
        BY <3>3, <4>2, <4>3
    <3> QED
      BY <3>1, <3>4
  <2> QED
    BY <1>3, <2>1, <2>2, EmittedChunks
<1> QED
  BY <1>1, <1>2, <1>3 DEF ChunkNext, SkipEmpty, chunkVars

\* Only the first chunk may start with a fragment.
THEOREM FragmentsMerged == ChunkSpec => []NoFragments
<1>1. ChunkInit => NoFragments
  BY DEF ChunkInit, NoFragments
<1> QED
  BY <1>1, FragmentsStep, ChunkingInvariant, PTL DEF ChunkSpec

LEMMA TwiceStep == ChunkInvariant /\ NoWordTwice /\ [ChunkNext]_chunkVars => NoWordTwice'
<1> SUFFICES ASSUME ChunkInvariant, NoWordTwice, [ChunkNext]_chunkVars,
                    NEW i \in DOMAIN chunks', NEW j \in DOMAIN chunks'[i].spans,
                    NEW k \in DOMAIN chunks'[i].spans, j # k
             PROVE  chunks'[i].spans[j].page # chunks'[i].spans[k].page
  BY DEF NoWordTwice
<1>1. CASE UNCHANGED chunks
  BY <1>1 DEF NoWordTwice
<1>2. CASE MergeTail
  <2>1. i \in DOMAIN chunks
    BY <1>2, MergeFacts
  <2>2. \A n \in DOMAIN chunks[i].spans : chunks'[i].spans[n].page # page
    <3>1. \A n \in DOMAIN chunks[i].spans : chunks[i].spans[n].page < page
      BY <1>2, <2>1, MergeFacts DEF ChunkInvariant, SpansBehind
    <3>2. \A n \in DOMAIN chunks[i].spans : chunks[i].spans[n].page \in Nat
      BY <2>1 DEF ChunkInvariant, SpansBehind, ChunkTypeOK
    <3> QED
      BY <1>2, <2>1, <3>1, <3>2, MergedSpans, MergeFacts
  <2>3. CASE j \in DOMAIN chunks[i].spans /\ k \in DOMAIN chunks[i].spans
    BY <1>2, <2>1, <2>3, MergedSpans DEF NoWordTwice
  <2>4. CASE j \notin DOMAIN chunks[i].spans
    <3>1. chunks'[i].spans[j].page = page /\ k \in DOMAIN chunks[i].spans
      BY <1>2, <2>1, <2>4, MergedSpans, MergeFacts
    <3> QED
      BY <2>2, <3>1
  <2>5. CASE k \notin DOMAIN chunks[i].spans
    <3>1. chunks'[i].spans[k].page = page /\ j \in DOMAIN chunks[i].spans
      BY <1>2, <2>1, <2>5, MergedSpans, MergeFacts
    <3> QED
      BY <2>2, <3>1
  <2> QED
    BY <2>3, <2>4, <2>5
<1>3. CASE EmitChunk
  <2>1. CASE i \in DOMAIN chunks
    BY <1>3, <2>1, EmittedChunks DEF NoWordTwice
  <2>2. CASE i = Len(chunks) + 1
    <3>1. chunks'[i].spans = <<Window>>
      BY <1>3, <2>2, EmittedChunks
    <3> QED
      BY <3>1
  <2> QED
    BY <1>3, <2>1, <2>2, EmittedChunks
<1> QED
  BY <1>1, <1>2, <1>3 DEF ChunkNext, SkipEmpty, chunkVars

\* No chunk repeats a word.
THEOREM WordsOnce == ChunkSpec => []NoWordTwice
<1>1. ChunkInit => NoWordTwice
  BY DEF ChunkInit, NoWordTwice
<1> QED
  BY <1>1, TwiceStep, ChunkingInvariant, PTL DEF ChunkSpec

\* For any document and window sizes the chunks hold every word, under its page,
\* and once each (chunk_pages).
THEOREM ChunksHold == ChunkSpec => []ChunksAreSound
<1>1. EveryWordKept /\ CitedPage /\ NoFragments /\ NoWordTwice => ChunksAreSound
  BY DEF ChunksAreSound
<1> QED
  BY <1>1, WordsKept, PagesCited, FragmentsMerged, WordsOnce, PTL
-----------------------------------------------------------------------------
(* StreamReader: what was heard is what was sent so far.                    *)

Phases == {"sent", "body", "finished", "metered", "done", "closed"}
Tables(V) == UNION {[S -> V] : S \in SUBSET Indexes}
Pieces(i, n) == [k \in 1..n |-> <<i, k>>]

\* The shape of a stream.
StreamShape ==
    /\ answer \in Answers
    /\ wire \in [phase : Phases, text : Nat, pieces : Tables(Nat)]
    /\ heard \in [text : Seq(Nat), slots : Tables(Seq(Indexes \X Nat)),
                  finish : Finishes \cup {"none"}, metered : BOOLEAN]

\* Each accumulator holds the pieces of its call that were sent, in order.
Gathered ==
    /\ Len(heard.text) = wire.text
    /\ DOMAIN heard.slots = DOMAIN wire.pieces
    /\ DOMAIN wire.pieces \subseteq DOMAIN answer.pieces
    /\ \A i \in DOMAIN wire.pieces : heard.slots[i] = Pieces(i, wire.pieces[i])

\* The finish reason comes after the last piece, the usage after that.
InOrder ==
    /\ heard.finish # "none" => AllSent /\ heard.finish = answer.finish
    /\ wire.phase \in {"sent", "body"} => heard.finish = "none"
    /\ wire.phase \in {"finished", "metered", "done"} => heard.finish # "none"
    /\ wire.phase \in {"metered", "done"} => heard.metered

StreamInvariant ==
    /\ StreamShape /\ Gathered /\ InOrder
    /\ answer.finish = "tool_calls" => answer.meant = answer.pieces
    /\ StreamTypeOK /\ AnswerIsWhole
-----------------------------------------------------------------------------
LEMMA TableFacts ==
    ASSUME NEW V, NEW f
    PROVE  f \in Tables(V) <=> f \in [DOMAIN f -> V] /\ DOMAIN f \subseteq Indexes
  BY DEF Tables

LEMMA WithDomain ==
    ASSUME NEW f, NEW i, NEW v PROVE DOMAIN With(f, i, v) = DOMAIN f \cup {i}
  BY DEF With

LEMMA WithAt == ASSUME NEW f, NEW i, NEW v PROVE With(f, i, v)[i] = v
  BY DEF With

LEMMA WithElsewhere ==
    ASSUME NEW f, NEW i, NEW v, NEW j \in DOMAIN f, j # i PROVE With(f, i, v)[j] = f[j]
  BY DEF With

LEMMA WithInTable ==
    ASSUME NEW V, NEW f \in Tables(V), NEW i \in Indexes, NEW v \in V
    PROVE  With(f, i, v) \in Tables(V)
<1>1. f \in [DOMAIN f -> V] /\ DOMAIN f \subseteq Indexes
  BY TableFacts
<1>2. With(f, i, v) \in [DOMAIN f \cup {i} -> V]
  BY <1>1 DEF With
<1>3. DOMAIN f \cup {i} \in SUBSET Indexes
  BY <1>1
<1> QED
  BY <1>2, <1>3 DEF Tables

LEMMA NextPiece ==
    ASSUME NEW i, NEW n \in Nat
    PROVE  Append(Pieces(i, n), <<i, n + 1>>) = Pieces(i, n + 1)
  BY DEF Pieces

LEMMA PiecesAreTold ==
    ASSUME NEW i \in Indexes, NEW n \in Nat
    PROVE  Pieces(i, n) \in Seq(Indexes \X Nat)
<1>1. Pieces(i, n) \in [1..n -> Indexes \X Nat]
  BY DEF Pieces
<1> QED
  BY <1>1

\* What the stream yields in the end, or why it does not.
LEMMA YieldedIsWhole ==
    ASSUME StreamInvariant, YieldEnd, answer' = answer, heard' = heard,
           wire'.phase \in {"done", "closed"}, wire'.phase = "done" => heard.metered,
           wire'.phase = "done" => AllSent
    PROVE  StreamTypeOK' /\ AnswerIsWhole'
<1>1. CASE \E i \in DOMAIN heard.slots : ~Parses(i)
  <2>1. outcome' = [kind |-> "JSONDecodeError"]
    BY <1>1 DEF YieldEnd, Fail
  <2>2. outcome'.kind = "JSONDecodeError"
    BY <2>1
  <2> QED
    BY <2>2 DEF StreamInvariant, StreamTypeOK, AnswerIsWhole, ToolsAreWhole,
                CompleteIsMetered, Failures
<1>2. CASE ~(\E i \in DOMAIN heard.slots : ~Parses(i))
  <2> DEFINE stop == StopReason(heard.finish, DOMAIN heard.slots)
  <2>1. outcome' = [kind |-> "end", text |-> heard.text, calls |-> heard.slots,
                    stop |-> stop, metered |-> heard.metered]
    BY <1>2 DEF YieldEnd
  <2>2. /\ outcome'.kind = "end" /\ outcome'.stop = stop
        /\ outcome'.text = heard.text /\ outcome'.calls = heard.slots
    BY <2>1
  <2>3. outcome'.metered = heard.metered
    BY <2>1, Zenon
  <2>4. stop \in StopReasons /\ (stop = "tool_use" => heard.finish = "tool_calls")
    BY DEF StopReason, StopReasons, FINISH_REASONS, Finishes
  <2> HIDE DEF stop
  <2>5. StreamTypeOK'
    BY <2>2, <2>4 DEF StreamInvariant, StreamTypeOK
  <2>6. ToolsAreWhole'
    <3> SUFFICES ASSUME stop = "tool_use"
                 PROVE  heard.slots = [i \in DOMAIN answer.meant |-> Whole(i)]
      BY <2>2 DEF ToolsAreWhole, Whole
    <3>1. wire.pieces = answer.meant /\ answer.meant = answer.pieces
      BY <2>4 DEF StreamInvariant, InOrder, AllSent
    <3>2. /\ DOMAIN heard.slots = DOMAIN answer.meant
          /\ \A i \in DOMAIN answer.meant : heard.slots[i] = Whole(i)
      BY <3>1 DEF StreamInvariant, Gathered, Pieces, Whole
    <3>3. heard.slots \in [DOMAIN heard.slots -> Seq(Indexes \X Nat)]
      BY TableFacts DEF StreamInvariant, StreamShape
    <3> QED
      BY <3>2, <3>3
  <2>7. CompleteIsMetered'
    BY <2>2, <2>3 DEF CompleteIsMetered, StreamInvariant, AllSent, Gathered
  <2> QED
    BY <2>5, <2>6, <2>7 DEF AnswerIsWhole
<1> QED
  BY <1>1, <1>2

\* A call that goes on or that failed has nothing to show.
LEMMA NothingYielded ==
    ASSUME StreamInvariant, outcome'.kind \in {"running"} \cup Failures,
           heard'.finish \in Finishes \cup {"none"}, heard'.metered \in BOOLEAN,
           DOMAIN heard'.slots \subseteq Indexes
    PROVE  StreamTypeOK' /\ AnswerIsWhole'
  BY DEF StreamTypeOK, AnswerIsWhole, ToolsAreWhole, CompleteIsMetered, Failures

\* The invariant holds before anything is sent.
LEMMA StreamInitial == StreamInit => StreamInvariant
<1> SUFFICES ASSUME StreamInit PROVE StreamInvariant
  OBVIOUS
<1>1. wire = [phase |-> "sent", text |-> 0, pieces |-> [i \in {} |-> 0]]
  BY DEF StreamInit
<1>2. wire.phase = "sent" /\ wire.text = 0 /\ DOMAIN wire.pieces = {}
  BY <1>1
<1>3. heard = [text |-> <<>>, slots |-> [i \in {} |-> <<>>], finish |-> "none",
               metered |-> FALSE]
  BY DEF StreamInit
<1>4. heard.text = <<>> /\ DOMAIN heard.slots = {} /\ heard.finish = "none"
  BY <1>3
<1>5. heard.metered = FALSE
  BY <1>3, Zenon
<1>6. StreamShape
  <2>1. ASSUME NEW V, NEW v PROVE [i \in {} |-> v] \in Tables(V)
    <3>1. [i \in {} |-> v] \in [{} -> V]
      OBVIOUS
    <3> QED
      BY <3>1 DEF Tables
  <2>2. wire \in [phase : Phases, text : Nat, pieces : Tables(Nat)]
    BY <1>1, <2>1 DEF Phases
  <2>3. heard \in [text : Seq(Nat), slots : Tables(Seq(Indexes \X Nat)),
                  finish : Finishes \cup {"none"}, metered : BOOLEAN]
    <3>1. [i \in {} |-> <<>>] \in Tables(Seq(Indexes \X Nat))
      BY <2>1
    <3>2. <<>> \in Seq(Nat)
      OBVIOUS
    <3> HIDE DEF Tables
    <3> QED
      BY <1>3, <3>1, <3>2, Zenon
  <2> QED
    BY <2>2, <2>3 DEF StreamShape, StreamInit
<1>7. outcome = [kind |-> "running"]
  BY DEF StreamInit, Running
<1>8. outcome.kind = "running"
  BY <1>7
<1>9. Gathered /\ InOrder
  BY <1>2, <1>4 DEF Gathered, InOrder
<1>10. StreamTypeOK /\ AnswerIsWhole
  BY <1>4, <1>5, <1>8 DEF StreamTypeOK, AnswerIsWhole, ToolsAreWhole, CompleteIsMetered
<1>11. answer.finish = "tool_calls" => answer.meant = answer.pieces
  BY DEF StreamInit, Plausible
<1> QED
  BY <1>6, <1>9, <1>10, <1>11 DEF StreamInvariant

\* Where the call stands, whatever the step changed.
LEMMA FieldsOfStream ==
    ASSUME StreamInvariant
    PROVE  /\ wire.phase \in Phases /\ wire.text \in Nat /\ wire.pieces \in Tables(Nat)
           /\ heard.text \in Seq(Nat) /\ heard.slots \in Tables(Seq(Indexes \X Nat))
           /\ heard.finish \in Finishes \cup {"none"} /\ heard.metered \in BOOLEAN
           /\ DOMAIN heard.slots \subseteq Indexes
           /\ answer.finish \in Finishes /\ answer.text \in Nat
           /\ answer.pieces \in Tables(Nat)
<1>1. answer \in Answers
  BY DEF StreamInvariant, StreamShape
<1>2. answer.finish \in Finishes /\ answer.text \in {0, 1}
      /\ answer.pieces \in Arguments
  BY <1>1 DEF Answers
<1>3. answer.pieces \in Tables(Nat)
  BY <1>2 DEF Tables, Arguments
<1>4. /\ wire.phase \in Phases /\ wire.text \in Nat /\ wire.pieces \in Tables(Nat)
      /\ heard.text \in Seq(Nat) /\ heard.slots \in Tables(Seq(Indexes \X Nat))
      /\ heard.finish \in Finishes \cup {"none"}
  BY DEF StreamInvariant, StreamShape
<1>5. heard.metered \in BOOLEAN
  BY Zenon DEF StreamInvariant, StreamTypeOK
<1>6. DOMAIN heard.slots \subseteq Indexes
  BY DEF StreamInvariant, StreamTypeOK
<1> QED
  BY <1>2, <1>3, <1>4, <1>5, <1>6

\* What a step that goes on has to show.
LEMMA GoesOn ==
    ASSUME StreamInvariant, Open, answer' = answer, outcome' = outcome,
           StreamShape', Gathered', InOrder'
    PROVE  StreamInvariant'
<1>1. heard' \in [text : Seq(Nat), slots : Tables(Seq(Indexes \X Nat)),
                  finish : Finishes \cup {"none"}, metered : BOOLEAN]
  BY DEF StreamShape
<1>2. heard'.finish \in Finishes \cup {"none"} /\ heard'.slots \in Tables(Seq(Indexes \X Nat))
  BY <1>1
<1>3. heard'.metered \in BOOLEAN
  BY <1>1, Zenon
<1>4. DOMAIN heard'.slots \subseteq Indexes
  BY <1>2, TableFacts
<1>5. outcome'.kind = "running"
  BY DEF Open, Running
<1>6. StreamTypeOK' /\ AnswerIsWhole'
  BY <1>2, <1>3, <1>4, <1>5, NothingYielded
<1> QED
  BY <1>6 DEF StreamInvariant

LEMMA HearTextKeeps == ASSUME StreamInvariant, HearText PROVE StreamInvariant'
<1>1. /\ wire' = [wire EXCEPT !.text = wire.text + 1] /\ answer' = answer /\ outcome' = outcome
      /\ heard' = [heard EXCEPT !.text = Append(heard.text, wire.text + 1)]
      /\ wire.phase = "body" /\ Open /\ wire.text < answer.text
  BY DEF HearText
<1>2. StreamShape'
  <2>1. wire' \in [phase : Phases, text : Nat, pieces : Tables(Nat)]
    BY <1>1 DEF StreamInvariant, StreamShape
  <2>2. Append(heard.text, wire.text + 1) \in Seq(Nat)
    BY FieldsOfStream
  <2>3. heard' \in [text : Seq(Nat), slots : Tables(Seq(Indexes \X Nat)),
                    finish : Finishes \cup {"none"}, metered : BOOLEAN]
    BY <1>1, <2>2 DEF StreamInvariant, StreamShape
  <2> QED
    BY <1>1, <2>1, <2>3 DEF StreamInvariant, StreamShape
<1>3. /\ wire'.text = wire.text + 1 /\ wire'.pieces = wire.pieces /\ wire'.phase = wire.phase
      /\ heard'.slots = heard.slots /\ heard'.finish = heard.finish
      /\ heard'.text = Append(heard.text, wire.text + 1)
  BY <1>1 DEF StreamInvariant, StreamShape
<1>4. Gathered'
  BY <1>1, <1>3, FieldsOfStream DEF StreamInvariant, Gathered
<1>5. InOrder'
  BY <1>1, <1>3 DEF StreamInvariant, InOrder
<1> QED
  BY <1>1, <1>2, <1>4, <1>5, GoesOn

LEMMA HearNameKeeps ==
    ASSUME StreamInvariant, NEW i \in Indexes, HearName(i) PROVE StreamInvariant'
<1> DEFINE sent == With(wire.pieces, i, 0)
           slots == With(heard.slots, i, <<>>)
<1>1. /\ wire' = [wire EXCEPT !.pieces = sent] /\ answer' = answer /\ outcome' = outcome
      /\ heard' = [heard EXCEPT !.slots = slots]
      /\ wire.phase = "body" /\ Open
      /\ i \in DOMAIN answer.pieces /\ i \notin DOMAIN wire.pieces
  BY DEF HearName
<1>2. /\ sent \in Tables(Nat) /\ DOMAIN sent = DOMAIN wire.pieces \cup {i}
      /\ sent[i] = 0 /\ \A j \in DOMAIN wire.pieces : sent[j] = wire.pieces[j]
  <2>1. wire.pieces \in Tables(Nat) /\ 0 \in Nat
    BY FieldsOfStream
  <2>2. sent \in Tables(Nat)
    BY <2>1, WithInTable, Zenon
  <2>3. DOMAIN sent = DOMAIN wire.pieces \cup {i}
    BY WithDomain
  <2>4. sent[i] = 0
    BY WithAt
  <2>5. \A j \in DOMAIN wire.pieces : sent[j] = wire.pieces[j]
    BY <1>1, WithElsewhere
  <2> QED
    BY <2>2, <2>3, <2>4, <2>5
<1>3. /\ slots \in Tables(Seq(Indexes \X Nat)) /\ DOMAIN slots = DOMAIN heard.slots \cup {i}
      /\ slots[i] = <<>> /\ \A j \in DOMAIN heard.slots : j # i => slots[j] = heard.slots[j]
  <2>1. <<>> \in Seq(Indexes \X Nat)
    OBVIOUS
  <2>2. heard.slots \in Tables(Seq(Indexes \X Nat))
    BY FieldsOfStream
  <2>3. slots \in Tables(Seq(Indexes \X Nat))
    BY <2>1, <2>2, WithInTable, Zenon
  <2>4. DOMAIN slots = DOMAIN heard.slots \cup {i}
    BY WithDomain
  <2>5. slots[i] = <<>>
    BY WithAt
  <2>6. \A j \in DOMAIN heard.slots : j # i => slots[j] = heard.slots[j]
    BY WithElsewhere
  <2> QED
    BY <2>3, <2>4, <2>5, <2>6
<1> HIDE DEF sent, slots
<1>4. StreamShape'
  BY <1>1, <1>2, <1>3, FieldsOfStream DEF StreamInvariant, StreamShape
<1>5. /\ wire'.pieces = sent /\ wire'.phase = wire.phase /\ wire'.text = wire.text
      /\ heard'.slots = slots /\ heard'.finish = heard.finish /\ heard'.text = heard.text
  BY <1>1 DEF StreamInvariant, StreamShape
<1>6. Gathered'
  <2>1. Pieces(i, 0) = <<>>
    BY DEF Pieces
  <2>2. ASSUME NEW j \in DOMAIN sent PROVE slots[j] = Pieces(j, sent[j])
    <3>1. CASE j = i
      BY <1>2, <1>3, <2>1, <3>1
    <3>2. CASE j # i
      BY <1>2, <1>3, <2>2, <3>2 DEF StreamInvariant, Gathered
    <3> QED
      BY <3>1, <3>2
  <2> QED
    BY <1>1, <1>2, <1>3, <1>5, <2>2 DEF StreamInvariant, Gathered
<1>7. InOrder'
  BY <1>1, <1>5 DEF StreamInvariant, InOrder
<1> QED
  BY <1>1, <1>4, <1>6, <1>7, GoesOn

LEMMA HearPieceKeeps ==
    ASSUME StreamInvariant, NEW i \in Indexes, HearPiece(i) PROVE StreamInvariant'
<1> DEFINE sent == [wire.pieces EXCEPT ![i] = wire.pieces[i] + 1]
           slots == [heard.slots EXCEPT ![i] = Append(heard.slots[i],
                                                      <<i, wire.pieces[i] + 1>>)]
<1>1. /\ answer' = answer /\ outcome' = outcome
      /\ wire.phase = "body" /\ Open /\ i \in DOMAIN wire.pieces
      /\ wire.pieces[i] < answer.pieces[i]
  BY DEF HearPiece
<1>2. wire' = [wire EXCEPT !.pieces = sent]
  BY ZenonT(30) DEF HearPiece
<1>3. heard' = [heard EXCEPT !.slots = slots]
  BY ZenonT(30) DEF HearPiece
<1>4. /\ wire.pieces \in [DOMAIN wire.pieces -> Nat] /\ DOMAIN wire.pieces \subseteq Indexes
      /\ heard.slots \in [DOMAIN heard.slots -> Seq(Indexes \X Nat)]
      /\ DOMAIN heard.slots = DOMAIN wire.pieces
  BY FieldsOfStream, TableFacts DEF StreamInvariant, Gathered
<1>5. wire.pieces[i] \in Nat /\ heard.slots[i] = Pieces(i, wire.pieces[i])
  BY <1>1, <1>4 DEF StreamInvariant, Gathered
<1>6. Append(heard.slots[i], <<i, wire.pieces[i] + 1>>) = Pieces(i, wire.pieces[i] + 1)
  BY <1>5, NextPiece
<1>7. Pieces(i, wire.pieces[i] + 1) \in Seq(Indexes \X Nat)
  <2> HIDE DEF sent, slots
  <2>1. wire.pieces[i] + 1 \in Nat
    BY <1>5
  <2> QED
    BY <2>1, PiecesAreTold, Zenon
<1>8. /\ sent \in [DOMAIN wire.pieces -> Nat]
      /\ slots \in [DOMAIN wire.pieces -> Seq(Indexes \X Nat)]
  <2>1. sent \in [DOMAIN wire.pieces -> Nat]
    <3>1. wire.pieces[i] + 1 \in Nat /\ wire.pieces \in [DOMAIN wire.pieces -> Nat]
      BY <1>4, <1>5
    <3> QED
      BY <3>1, Zenon
  <2> DEFINE longer == Append(heard.slots[i], <<i, wire.pieces[i] + 1>>)
             ToldNow == Seq(Indexes \X Nat)
  <2>2. longer \in ToldNow
    BY <1>6, <1>7
  <2>3. heard.slots \in [DOMAIN wire.pieces -> ToldNow]
    BY <1>4
  <2>4. slots = [heard.slots EXCEPT ![i] = longer]
    OBVIOUS
  <2> HIDE DEF longer, ToldNow, slots
  <2>5. slots \in [DOMAIN wire.pieces -> ToldNow]
    BY <2>2, <2>3, <2>4
  <2> QED
    BY <2>1, <2>5 DEF ToldNow
<1>9. sent \in Tables(Nat) /\ slots \in Tables(Seq(Indexes \X Nat))
  BY <1>4, <1>8 DEF Tables
<1>10. \A j \in DOMAIN wire.pieces : slots[j] = Pieces(j, sent[j])
  <2> SUFFICES ASSUME NEW j \in DOMAIN wire.pieces PROVE slots[j] = Pieces(j, sent[j])
    OBVIOUS
  <2>1. CASE j = i
    BY <1>1, <1>4, <1>5, <1>6, <2>1
  <2>2. CASE j # i
    BY <1>4, <2>2 DEF StreamInvariant, Gathered
  <2> QED
    BY <2>1, <2>2
<1>11. DOMAIN sent = DOMAIN wire.pieces /\ DOMAIN slots = DOMAIN wire.pieces
  BY <1>4
<1> HIDE DEF sent, slots
<1>12. StreamShape'
  BY <1>1, <1>2, <1>3, <1>9, FieldsOfStream DEF StreamInvariant, StreamShape
<1>13. /\ wire'.pieces = sent /\ wire'.phase = wire.phase /\ wire'.text = wire.text
       /\ heard'.slots = slots /\ heard'.finish = heard.finish /\ heard'.text = heard.text
  BY <1>2, <1>3 DEF StreamInvariant, StreamShape
<1>14. Gathered'
  BY <1>1, <1>10, <1>11, <1>13 DEF StreamInvariant, Gathered
<1>15. InOrder'
  BY <1>1, <1>13 DEF StreamInvariant, InOrder
<1> QED
  BY <1>1, <1>12, <1>14, <1>15, GoesOn

\* The phase of the wire moves on, with or without something that is heard.
LEMMA TailKeeps ==
    ASSUME StreamInvariant, Respond \/ HearFinish \/ HearUsage
    PROVE  StreamInvariant'
<1>1. PICK phase \in {"body", "finished", "metered"} : wire' = [wire EXCEPT !.phase = phase]
  BY DEF Respond, HearFinish, HearUsage
<1>2. answer' = answer /\ outcome' = outcome /\ Open
  BY DEF Respond, HearFinish, HearUsage
<1>3. /\ wire'.phase = phase /\ wire'.pieces = wire.pieces /\ wire'.text = wire.text
  BY <1>1 DEF StreamInvariant, StreamShape
<1>4. \/ heard' = heard
      \/ heard' = [heard EXCEPT !.finish = answer.finish] /\ AllSent
      \/ heard' = [heard EXCEPT !.metered = TRUE]
  BY DEF Respond, HearFinish, HearUsage
<1>5. heard'.slots = heard.slots /\ heard'.text = heard.text
  BY <1>4 DEF StreamInvariant, StreamShape
<1>6. StreamShape'
  <2>1. wire' \in [phase : Phases, text : Nat, pieces : Tables(Nat)]
    BY <1>1 DEF StreamInvariant, StreamShape, Phases
  <2>2. heard' \in [text : Seq(Nat), slots : Tables(Seq(Indexes \X Nat)),
                    finish : Finishes \cup {"none"}, metered : BOOLEAN]
    BY <1>4, FieldsOfStream DEF StreamInvariant, StreamShape
  <2> QED
    BY <1>2, <2>1, <2>2 DEF StreamInvariant, StreamShape
<1>7. Gathered'
  BY <1>2, <1>3, <1>5 DEF StreamInvariant, Gathered
<1>8. AllSent' = AllSent
  BY <1>2, <1>3 DEF AllSent
<1>9. InOrder'
  <2>1. CASE Respond
    <3>1. heard' = heard /\ wire'.phase = "body" /\ wire.phase = "sent"
      BY <2>1, <1>3 DEF Respond, StreamInvariant, StreamShape
    <3> QED
      BY <1>2, <1>8, <3>1 DEF StreamInvariant, InOrder
  <2>2. CASE HearFinish
    <3>1. /\ heard' = [heard EXCEPT !.finish = answer.finish] /\ AllSent
          /\ wire' = [wire EXCEPT !.phase = "finished"]
      BY <2>2 DEF HearFinish
    <3>2. heard'.finish = answer.finish /\ wire'.phase = "finished"
      BY <3>1 DEF StreamInvariant, StreamShape
    <3>3. answer.finish # "none"
      BY FieldsOfStream DEF Finishes
    <3> QED
      BY <1>2, <1>8, <3>1, <3>2, <3>3 DEF InOrder
  <2>3. CASE HearUsage
    <3>1. /\ heard' = [heard EXCEPT !.metered = TRUE] /\ wire.phase = "finished"
          /\ wire' = [wire EXCEPT !.phase = "metered"]
      BY <2>3 DEF HearUsage
    <3>2. heard'.finish = heard.finish /\ wire'.phase = "metered"
      BY <3>1 DEF StreamInvariant, StreamShape
    <3>3. heard'.metered = TRUE
      BY <3>1, Zenon DEF StreamInvariant, StreamShape
    <3> QED
      BY <1>2, <1>8, <3>1, <3>2, <3>3 DEF InOrder, StreamInvariant
  <2> QED
    BY <2>1, <2>2, <2>3
<1> QED
  BY <1>2, <1>6, <1>7, <1>9, GoesOn

LEMMA CloseKeeps == ASSUME StreamInvariant, HearDone \/ Closed PROVE StreamInvariant'
<1>1. PICK phase \in {"done", "closed"} :
          /\ wire' = [wire EXCEPT !.phase = phase]
          /\ phase = "done" => wire.phase = "metered"
  BY DEF HearDone, Closed, Ends
<1>2. YieldEnd /\ answer' = answer /\ heard' = heard
  BY DEF HearDone, Closed
<1>3. wire'.phase = phase /\ wire'.pieces = wire.pieces /\ wire'.text = wire.text
  BY <1>1 DEF StreamInvariant, StreamShape
<1>4. StreamShape'
  BY <1>1, <1>2 DEF StreamInvariant, StreamShape, Phases
<1>5. Gathered'
  BY <1>2, <1>3 DEF StreamInvariant, Gathered
<1>6. wire.phase = "metered" => AllSent /\ heard.metered /\ heard.finish # "none"
  BY DEF StreamInvariant, InOrder
<1>7. InOrder'
  BY <1>1, <1>2, <1>3, <1>6 DEF StreamInvariant, InOrder, AllSent
<1>8. StreamTypeOK' /\ AnswerIsWhole'
  BY <1>1, <1>2, <1>3, <1>6, YieldedIsWhole
<1> QED
  BY <1>2, <1>4, <1>5, <1>7, <1>8 DEF StreamInvariant

LEMMA FailureEnds == ASSUME StreamInvariant, Refuse \/ Broken PROVE StreamInvariant'
<1>1. PICK failure \in Failures : outcome' = [kind |-> failure]
  BY DEF Refuse, Broken, Fail, MapStatus, Failures
<1>2. answer' = answer /\ wire' = wire /\ heard' = heard
  BY DEF Refuse, Broken
<1>3. outcome'.kind \in Failures
  BY <1>1
<1>4. StreamTypeOK' /\ AnswerIsWhole'
  BY <1>2, <1>3, FieldsOfStream, NothingYielded
<1> QED
  BY <1>2, <1>4 DEF StreamInvariant, StreamShape, Gathered, InOrder, AllSent

LEMMA StreamStep == StreamInvariant /\ [StreamNext]_streamVars => StreamInvariant'
<1> SUFFICES ASSUME StreamInvariant, [StreamNext]_streamVars PROVE StreamInvariant'
  OBVIOUS
<1>1. CASE HearText
  BY <1>1, HearTextKeeps
<1>2. ASSUME NEW i \in Indexes, HearName(i) \/ HearPiece(i) PROVE StreamInvariant'
  BY <1>2, HearNameKeeps, HearPieceKeeps
<1>3. CASE Respond \/ HearFinish \/ HearUsage
  BY <1>3, TailKeeps
<1>4. CASE HearDone \/ Closed
  BY <1>4, CloseKeeps
<1>5. CASE Refuse \/ Broken
  BY <1>5, FailureEnds
<1>6. CASE UNCHANGED streamVars
  BY <1>6 DEF streamVars, StreamInvariant, StreamShape, Gathered, InOrder, AllSent,
              StreamTypeOK, AnswerIsWhole, ToolsAreWhole, Whole, CompleteIsMetered
<1> QED
  BY <1>1, <1>2, <1>3, <1>4, <1>5, <1>6 DEF StreamNext

\* What was heard is what was sent, in order and per call.
THEOREM StreamSafe == StreamSpec => []StreamInvariant
  BY StreamInitial, StreamStep, PTL DEF StreamSpec

\* Whatever the provider sends, in whatever order the pieces of its calls arrive,
\* and wherever the stream breaks off, what the caller is given is whole
\* (OpenAIProvider.stream).
THEOREM AnswersAreWhole == StreamSpec => []AnswerIsWhole
<1>1. StreamInvariant => AnswerIsWhole
  BY DEF StreamInvariant
<1> QED
  BY <1>1, StreamSafe, PTL
-----------------------------------------------------------------------------
(* UsageBooks: the estimate of a row, and the sums of many.                 *)

Offered == ChatModels \cup EmbeddingModels
Usage == [input : Nat, output : Nat, read : Nat, write : Nat]

\* A row says what was called, when, and what cost_for made of it.
RowIsRight(row) ==
    /\ row.model \in Offered /\ row.usage \in Usage /\ row.at \in Nat
    /\ row.cost = Quantized(ExactCost(row.model, row.usage))

BooksInvariant ==
    /\ \A i \in DOMAIN books : RowIsRight(books[i])
    /\ books \in Seq([at : Nat, model : Offered, usage : Usage, cost : Nat])
    /\ BooksTypeOK /\ BooksAreClose

LEMMA PricesAreSet ==
    \A row \in PRICE_LIST :
        row[2] \in [input : Nat \ {0}, output : Nat, read : Nat, write : Nat]
  BY DEF PRICE_LIST, Price, Embedding

LEMMA PricesAreKnown ==
    ASSUME NEW model \in Priced
    PROVE  PRICING[model] \in [input : Nat \ {0}, output : Nat, read : Nat, write : Nat]
<1>1. PICK row \in PRICE_LIST : row[1] = model
  BY DEF Priced, PRICING
<1>2. (CHOOSE entry \in PRICE_LIST : entry[1] = model) \in PRICE_LIST
  BY <1>1, Zenon
<1>3. PRICING[model] = (CHOOSE entry \in PRICE_LIST : entry[1] = model)[2]
  BY Zenon DEF Priced, PRICING
<1> QED
  BY <1>2, <1>3, PricesAreSet

\* An organization can pick no model that has no price, openrouter's excepted.
LEMMA OfferedHavePrices == Offered \ CHAT_CATALOG.openrouter.models \subseteq Priced
<1>1. Priced = {row[1] : row \in PRICE_LIST}
  BY DEF Priced, PRICING
<1>2. ASSUME NEW p \in DOMAIN CHAT_CATALOG, p # "openrouter"
      PROVE  CHAT_CATALOG[p].models \subseteq Priced
  BY <1>1, <1>2 DEF CHAT_CATALOG, ChatInfo, PRICE_LIST
<1>3. ASSUME NEW p \in DOMAIN EMBEDDING_CATALOG PROVE EMBEDDING_CATALOG[p].model \in Priced
  BY <1>1 DEF EMBEDDING_CATALOG, EmbeddingInfo, PRICE_LIST
<1> QED
  BY <1>2, <1>3 DEF Offered, ChatModels, EmbeddingModels

LEMMA ProductFacts ==
    ASSUME NEW a \in Nat, NEW b \in Nat
    PROVE  a * b \in Nat /\ (a > 0 /\ b > 0 => a * b > 0)
  OBVIOUS

LEMMA CostFacts ==
    ASSUME NEW model, NEW usage \in Usage
    PROVE  /\ ExactCost(model, usage) \in Nat
           /\ model \in Priced /\ usage.input > 0 => ExactCost(model, usage) > 0
<1>1. CASE model \notin Priced
  BY <1>1 DEF ExactCost
<1>2. CASE model \in Priced
  <2> DEFINE price == PRICING[model]
  <2>1. /\ price.input \in Nat /\ price.input > 0 /\ price.output \in Nat
        /\ price.read \in Nat /\ price.write \in Nat
    BY <1>2, PricesAreKnown
  <2>2. /\ usage.input \in Nat /\ usage.output \in Nat /\ usage.read \in Nat
        /\ usage.write \in Nat
    BY DEF Usage
  <2>3. ExactCost(model, usage) = usage.input * price.input + usage.output * price.output
            + usage.read * price.read + usage.write * price.write
    BY <1>2 DEF ExactCost
  <2> HIDE DEF price
  <2>4. /\ usage.input * price.input \in Nat /\ usage.output * price.output \in Nat
        /\ usage.read * price.read \in Nat /\ usage.write * price.write \in Nat
        /\ usage.input > 0 => usage.input * price.input > 0
    BY <2>1, <2>2, ProductFacts
  <2> QED
    BY <2>3, <2>4
<1> QED
  BY <1>1, <1>2

\* quantize is off by half a microdollar at most.
LEMMA QuantizedIsClose ==
    ASSUME NEW nano \in Nat
    PROVE  /\ Quantized(nano) \in Nat
           /\ 2 * (1000 * Quantized(nano) - nano) <= 1000
           /\ -1000 <= 2 * (1000 * Quantized(nano) - nano)
<1> DEFINE micro == nano \div 1000
           rest == nano % 1000
<1>1. micro \in Nat /\ rest \in Nat /\ rest < 1000 /\ nano = 1000 * micro + rest
  OBVIOUS
<1>2. Quantized(nano) = IF rest > 500 \/ (rest = 500 /\ micro % 2 = 1)
                        THEN micro + 1 ELSE micro
  BY DEF Quantized
<1> HIDE DEF micro, rest
<1>3. CASE rest > 500 \/ (rest = 500 /\ micro % 2 = 1)
  <2>1. Quantized(nano) = micro + 1 /\ rest >= 500
    BY <1>1, <1>2, <1>3
  <2> QED
    BY <1>1, <2>1
<1>4. CASE ~(rest > 500 \/ (rest = 500 /\ micro % 2 = 1))
  <2>1. Quantized(nano) = micro /\ rest <= 500
    BY <1>1, <1>2, <1>4
  <2> QED
    BY <1>1, <2>1
<1> QED
  BY <1>3, <1>4

\* A sum grows with the row that is appended.
LEMMA SumAppended ==
    ASSUME NEW n \in Nat, NEW f \in [1..n -> Int], NEW g \in [1..(n + 1) -> Int],
           \A i \in 1..n : g[i] = f[i]
    PROVE  /\ SumFunction(g) = g[n + 1] + SumFunction(f)
           /\ SumFunction(f) \in Int
<1>1. IsFiniteSet(1..n)
  BY FS_Interval
<1>2. /\ DOMAIN f = 1..n /\ DOMAIN g = 1..n \cup {n + 1} /\ n + 1 \notin 1..n
  OBVIOUS
<1>3. SumFunctionOnSet(g, 1..n \cup {n + 1}) = g[n + 1] + SumFunctionOnSet(g, 1..n)
  <2>1. \A i \in 1..n \cup {n + 1} : g[i] \in Int
    OBVIOUS
  <2> QED
    BY <1>1, <1>2, <2>1, SumWith
<1>4. SumFunctionOnSet(f, 1..n) = SumFunctionOnSet(g, 1..n)
  <2>1. \A i \in 1..n : f[i] \in Int /\ g[i] = f[i]
    OBVIOUS
  <2> QED
    BY <1>1, <2>1, SumOfSame
<1>5. SumFunctionOnSet(f, 1..n) \in Int
  BY <1>1, SumFacts
<1> QED
  BY <1>2, <1>3, <1>4, <1>5 DEF SumFunction
-----------------------------------------------------------------------------
Costs == [i \in DOMAIN books |-> books[i].cost]
Exact == [i \in DOMAIN books |-> ExactCost(books[i].model, books[i].usage)]

LEMMA RowFacts ==
    ASSUME NEW row, RowIsRight(row)
    PROVE  /\ row.cost \in Nat /\ ExactCost(row.model, row.usage) \in Nat
           /\ 2 * (1000 * row.cost - ExactCost(row.model, row.usage)) <= 1000
           /\ -1000 <= 2 * (1000 * row.cost - ExactCost(row.model, row.usage))
<1>1. ExactCost(row.model, row.usage) \in Nat
  BY CostFacts DEF RowIsRight
<1> QED
  BY <1>1, QuantizedIsClose DEF RowIsRight

LEMMA TablesOfBooks ==
    ASSUME BooksInvariant
    PROVE  Costs \in [1..Len(books) -> Int] /\ Exact \in [1..Len(books) -> Int]
<1>1. ASSUME NEW i \in DOMAIN books
      PROVE  books[i].cost \in Int /\ ExactCost(books[i].model, books[i].usage) \in Int
  BY RowFacts DEF BooksInvariant
<1> QED
  BY <1>1 DEF Costs, Exact, BooksInvariant

LEMMA BooksAreCloseIs ==
    BooksAreClose <=> LET off == 1000 * SumFunction(Costs) - SumFunction(Exact)
                      IN 2 * off <= 1000 * Len(books) /\ -1000 * Len(books) <= 2 * off
  BY Zenon DEF BooksAreClose, CostOf, Costs, Exact

LEMMA SameBooks == ASSUME BooksInvariant, books' = books PROVE BooksAreClose'
<1>1. Costs' = Costs /\ Exact' = Exact /\ Len(books') = Len(books)
  BY DEF Costs, Exact
<1>2. LET off == 1000 * SumFunction(Costs') - SumFunction(Exact')
      IN 2 * off <= 1000 * Len(books') /\ -1000 * Len(books') <= 2 * off
  BY <1>1, BooksAreCloseIs DEF BooksInvariant
<1> QED
  BY <1>2, Zenon DEF BooksAreClose, CostOf, Costs, Exact

\* A call is booked.
LEMMA RecordKeeps ==
    ASSUME BooksInvariant, NEW row, RowIsRight(row), row.at = halfDay,
           row \in [at : Nat, model : Offered, usage : Usage, cost : Nat],
           books' = Append(books, row), Len(books) < MaxRows, halfDay' = halfDay
    PROVE  BooksInvariant'
<1> DEFINE n == Len(books)
<1>1. /\ n \in Nat /\ DOMAIN books = 1..n /\ MaxRows \in Nat /\ halfDay \in Nat
      /\ halfDay \in 0..LastHalfDay /\ n < MaxRows
  BY UsageBooksAssumption DEF BooksInvariant, BooksTypeOK
<1>2. /\ DOMAIN books' = 1..(n + 1) /\ Len(books') = n + 1
      /\ books'[n + 1] = row /\ \A i \in 1..n : books'[i] = books[i]
  BY <1>1 DEF BooksInvariant
<1> HIDE DEF n
<1>3. \A i \in DOMAIN books' : RowIsRight(books'[i])
  <2> SUFFICES ASSUME NEW i \in 1..(n + 1) PROVE RowIsRight(books'[i])
    BY <1>2
  <2>1. CASE i \in 1..n
    BY <1>1, <1>2, <2>1 DEF BooksInvariant
  <2>2. CASE i = n + 1
    BY <1>2, <2>2
  <2> QED
    BY <1>1, <2>1, <2>2
<1>4. BooksTypeOK'
  <2>1. ASSUME NEW i \in 1..(n + 1) PROVE books'[i].cost \in Nat /\ books'[i].at \in 0..halfDay
    <3>1. CASE i \in 1..n
      BY <1>1, <1>2, <3>1 DEF BooksInvariant, BooksTypeOK
    <3>2. CASE i = n + 1
      BY <1>1, <1>2, <3>2, RowFacts
    <3> QED
      BY <1>1, <3>1, <3>2
  <2> QED
    BY <1>1, <1>2, <2>1 DEF BooksTypeOK
<1>5. Costs' \in [1..(n + 1) -> Int] /\ Exact' \in [1..(n + 1) -> Int]
  <2>1. ASSUME NEW i \in 1..(n + 1)
        PROVE  books'[i].cost \in Int /\ ExactCost(books'[i].model, books'[i].usage) \in Int
    <3> DEFINE new == books'[i]
    <3>1. RowIsRight(new)
      BY <1>2, <1>3
    <3> HIDE DEF new
    <3>2. new.cost \in Nat /\ ExactCost(new.model, new.usage) \in Nat
      BY <3>1, RowFacts
    <3>3. new.cost \in Int /\ ExactCost(new.model, new.usage) \in Int
      BY <3>2
    <3> QED
      BY <3>3 DEF new
  <2> QED
    BY <1>2, <2>1 DEF Costs, Exact
<1>6. Costs \in [1..n -> Int] /\ Exact \in [1..n -> Int]
  BY TablesOfBooks DEF n
<1>7. \A i \in 1..n : Costs'[i] = Costs[i] /\ Exact'[i] = Exact[i]
  BY <1>1, <1>2 DEF Costs, Exact
<1>8. Costs'[n + 1] = row.cost /\ Exact'[n + 1] = ExactCost(row.model, row.usage)
  BY <1>1, <1>2 DEF Costs, Exact
<1>9. /\ SumFunction(Costs') = row.cost + SumFunction(Costs) /\ SumFunction(Costs) \in Int
      /\ SumFunction(Exact') = ExactCost(row.model, row.usage) + SumFunction(Exact)
      /\ SumFunction(Exact) \in Int
  <2>1. /\ SumFunction(Costs') = Costs'[n + 1] + SumFunction(Costs)
        /\ SumFunction(Costs) \in Int
    <3> DEFINE f == Costs
               g == Costs'
    <3>1. f \in [1..n -> Int] /\ g \in [1..(n + 1) -> Int] /\ \A i \in 1..n : g[i] = f[i]
      BY <1>5, <1>6, <1>7
    <3> HIDE DEF f, g
    <3>2. SumFunction(g) = g[n + 1] + SumFunction(f) /\ SumFunction(f) \in Int
      BY <1>1, <3>1, SumAppended
    <3> QED
      BY <3>2 DEF f, g
  <2>2. /\ SumFunction(Exact') = Exact'[n + 1] + SumFunction(Exact)
        /\ SumFunction(Exact) \in Int
    <3> DEFINE f == Exact
               g == Exact'
    <3>1. f \in [1..n -> Int] /\ g \in [1..(n + 1) -> Int] /\ \A i \in 1..n : g[i] = f[i]
      BY <1>5, <1>6, <1>7
    <3> HIDE DEF f, g
    <3>2. SumFunction(g) = g[n + 1] + SumFunction(f) /\ SumFunction(f) \in Int
      BY <1>1, <3>1, SumAppended
    <3> QED
      BY <3>2 DEF f, g
  <2> QED
    BY <1>8, <2>1, <2>2
<1>10. BooksAreClose'
  <2>1. LET off == 1000 * SumFunction(Costs) - SumFunction(Exact)
        IN 2 * off <= 1000 * n /\ -1000 * n <= 2 * off
    BY BooksAreCloseIs DEF BooksInvariant, n
  <2> DEFINE cost == row.cost
             exact == ExactCost(row.model, row.usage)
             total == SumFunction(Costs)
             totalExact == SumFunction(Exact)
  <2>2. /\ cost \in Nat /\ exact \in Nat
        /\ 2 * (1000 * cost - exact) <= 1000 /\ -1000 <= 2 * (1000 * cost - exact)
    BY RowFacts
  <2> HIDE DEF cost, exact, total, totalExact
  <2>3. LET off == 1000 * (cost + total) - (exact + totalExact)
        IN 2 * off <= 1000 * (n + 1) /\ -1000 * (n + 1) <= 2 * off
    <3>1. total \in Int /\ totalExact \in Int
      BY <1>9 DEF total, totalExact
    <3>2. LET off == 1000 * total - totalExact
          IN 2 * off <= 1000 * n /\ -1000 * n <= 2 * off
      BY <2>1 DEF total, totalExact
    <3> QED
      BY <1>1, <2>2, <3>1, <3>2
  <2>4. LET off == 1000 * SumFunction(Costs') - SumFunction(Exact')
        IN 2 * off <= 1000 * Len(books') /\ -1000 * Len(books') <= 2 * off
    BY <1>2, <1>9, <2>3 DEF cost, exact, total, totalExact
  <2> QED
    BY <2>4, Zenon DEF BooksAreClose, CostOf, Costs, Exact
<1>11. books' \in Seq([at : Nat, model : Offered, usage : Usage, cost : Nat])
  BY DEF BooksInvariant
<1> QED
  BY <1>3, <1>4, <1>10, <1>11 DEF BooksInvariant

LEMMA BooksInitial == BooksInit => BooksInvariant
<1> SUFFICES ASSUME BooksInit PROVE BooksInvariant
  OBVIOUS
<1>1. books = <<>> /\ halfDay = 0
  BY DEF BooksInit
<1>2. DOMAIN books = {} /\ Len(books) = 0 /\ 1..0 = {}
  BY <1>1
<1>3. SumFunction(Costs) = 0 /\ SumFunction(Exact) = 0
  <2>1. DOMAIN Costs = {} /\ DOMAIN Exact = {}
    BY <1>2 DEF Costs, Exact
  <2>2. IsFiniteSet({})
    BY FS_EmptySet
  <2> QED
    BY <2>1, <2>2, SumFacts DEF SumFunction
<1>4. BooksAreClose
  BY <1>2, <1>3, BooksAreCloseIs
<1>5. BooksTypeOK
  BY <1>1, <1>2, UsageBooksAssumption DEF BooksTypeOK
<1> QED
  BY <1>2, <1>4, <1>5 DEF BooksInvariant

LEMMA BooksStep == BooksInvariant /\ [BooksNext]_booksVars => BooksInvariant'
<1> SUFFICES ASSUME BooksInvariant, [BooksNext]_booksVars PROVE BooksInvariant'
  OBVIOUS
<1>1. CASE RecordCall
  <2>1. PICK model \in ChatModels \cup EmbeddingModels, usage \in Usages :
            books' = Append(books, Row(model, usage))
    BY <1>1 DEF RecordCall
  <2> DEFINE row == Row(model, usage)
  <2>2. /\ row.model = model /\ row.usage = usage /\ row.at = halfDay
        /\ row.cost = Quantized(ExactCost(model, usage))
    BY DEF Row
  <2>3. RowIsRight(row)
    <3>1. usage \in Usage /\ model \in Offered
      BY UsageBooksAssumption DEF Usage, Offered
    <3>2. halfDay \in Nat
      BY UsageBooksAssumption DEF BooksInvariant, BooksTypeOK
    <3> QED
      BY <2>2, <3>1, <3>2 DEF RowIsRight
  <2>5. row \in [at : Nat, model : Offered, usage : Usage, cost : Nat]
    <3>1. Quantized(ExactCost(model, usage)) \in Nat
      BY <2>2, <2>3, RowFacts
    <3> QED
      BY <2>2, <2>3, <3>1 DEF Row, RowIsRight
  <2> HIDE DEF row
  <2>4. books' = Append(books, row)
    BY <2>1 DEF row
  <2> QED
    BY <1>1, <2>2, <2>3, <2>4, <2>5, RecordKeeps DEF RecordCall
<1>2. CASE TimeGoesOn
  <2>1. books' = books /\ halfDay' = halfDay + 1 /\ halfDay < LastHalfDay
    BY <1>2 DEF TimeGoesOn
  <2>2. BooksTypeOK'
    BY <2>1, UsageBooksAssumption DEF BooksInvariant, BooksTypeOK
  <2>3. BooksAreClose'
    BY <2>1, SameBooks
  <2> QED
    BY <2>1, <2>2, <2>3 DEF BooksInvariant, RowIsRight
<1>3. CASE UNCHANGED booksVars
  <2>1. books' = books /\ halfDay' = halfDay
    BY <1>3 DEF booksVars
  <2>2. BooksAreClose'
    BY <2>1, SameBooks
  <2> QED
    BY <2>1, <2>2 DEF BooksInvariant, RowIsRight, BooksTypeOK
<1> QED
  BY <1>1, <1>2, <1>3 DEF BooksNext
-----------------------------------------------------------------------------
(* The days of a range.                                                     *)

\* The sum over the parts is the sum over the whole.
LEMMA SumOfParts ==
    ASSUME NEW S, IsFiniteSet(S), NEW f, \A x \in S : f[x] \in Int,
           NEW E, IsFiniteSet(E), NEW part,
           \A e \in E : part[e] \in SUBSET S,
           \A x \in S : \E e \in E : x \in part[e],
           \A d, e \in E : d # e => part[d] \cap part[e] = {},
           NEW g, \A e \in E : g[e] = SumFunctionOnSet(f, part[e])
    PROVE  SumFunctionOnSet(g, E) = SumFunctionOnSet(f, S)
<1> DEFINE Together(D) == UNION {part[e] : e \in D}
           Bad == {D \in SUBSET E : SumFunctionOnSet(g, D) # SumFunctionOnSet(f, Together(D))}
<1>1. \A T \in SUBSET S : IsFiniteSet(T) /\ SumFunctionOnSet(f, T) \in Int
  <2> SUFFICES ASSUME NEW T \in SUBSET S
               PROVE  IsFiniteSet(T) /\ SumFunctionOnSet(f, T) \in Int
    OBVIOUS
  <2>1. IsFiniteSet(T) /\ \A x \in T : f[x] \in Int
    BY FS_Subset
  <2> QED
    BY <2>1, SumFacts
<1>2. \A e \in E : g[e] \in Int
  BY <1>1
<1>3. Together(E) = S
  OBVIOUS
<1>4. SUFFICES ASSUME Bad # {} PROVE FALSE
  <2>1. E \notin Bad
    BY <1>4
  <2> QED
    BY <1>3, <2>1
<1>5. PICK D \in Bad : \A C \in Bad : C \subseteq D => C = D
  <2>1. Bad \in SUBSET SUBSET E
    OBVIOUS
  <2> HIDE DEF Bad
  <2> QED
    BY <1>4, <2>1, SmallestSet
<1>6. IsFiniteSet(D) /\ D \in SUBSET E /\ \A e \in D : g[e] \in Int
  BY <1>2, FS_Subset
<1>7. CASE D = {}
  <2>1. SumFunctionOnSet(g, D) = 0
    BY <1>6, <1>7, SumFacts
  <2>2. Together(D) = {}
    BY <1>7
  <2>3. SumFunctionOnSet(f, {}) = 0
    <3>1. IsFiniteSet({}) /\ \A x \in {} : f[x] \in Int
      BY FS_EmptySet
    <3> QED
      BY <3>1, SumFacts
  <2> QED
    BY <2>1, <2>2, <2>3
<1>8. CASE D # {}
  <2>1. PICK e \in D : TRUE
    BY <1>8
  <2> DEFINE C == D \ {e}
  <2>2. C \notin Bad /\ C \in SUBSET E
    BY <1>5, <1>6, <2>1
  <2>3. SumFunctionOnSet(g, C) = SumFunctionOnSet(f, Together(C))
    BY <2>2
  <2>4. SumFunctionOnSet(g, D) = g[e] + SumFunctionOnSet(g, C)
    BY <1>6, SumWithout
  <2>5. Together(D) = part[e] \cup Together(C)
    OBVIOUS
  <2>6. /\ part[e] \in SUBSET S /\ Together(C) \in SUBSET S
        /\ part[e] \cap Together(C) = {}
    BY <1>6, <2>1, <2>2
  <2> HIDE DEF Together, C
  <2>7. /\ IsFiniteSet(part[e]) /\ IsFiniteSet(Together(C))
        /\ \A x \in part[e] \cup Together(C) : f[x] \in Int
    BY <1>1, <2>6
  <2>8. SumFunctionOnSet(f, part[e] \cup Together(C))
            = SumFunctionOnSet(f, part[e]) + SumFunctionOnSet(f, Together(C))
    BY <2>6, <2>7, SumOfUnion
  <2>9. g[e] = SumFunctionOnSet(f, part[e])
    BY <1>6, <2>1
  <2> QED
    BY <2>3, <2>4, <2>5, <2>8, <2>9
<1> QED
  BY <1>7, <1>8

\* The rows of one day, as the total of the day has them.
RowsOf(day) == {i \in DOMAIN books : DayOf(books[i].at) = day}

LEMMA DayFacts ==
    ASSUME NEW time \in Nat, NEW day \in Nat
    PROVE  DayOf(time) = day <=> Midnight(day) <= time /\ time < RangeEnd(day)
  BY DEF DayOf, Midnight, RangeEnd

LEMMA RowsOfDay ==
    ASSUME BooksInvariant, NEW day \in Nat
    PROVE  /\ InRange(day, day) = RowsOf(day)
           /\ \A morning, end \in Nat : morning <= day /\ day <= end =>
                 RowsOf(day) = {i \in InRange(morning, end) : DayOf(books[i].at) = day}
<1>1. \A i \in DOMAIN books : books[i].at \in Nat
  BY DEF BooksInvariant, RowIsRight
<1>2. InRange(day, day) = RowsOf(day)
  BY <1>1, DayFacts DEF InRange, RowsOf
<1>3. ASSUME NEW morning \in Nat, NEW end \in Nat, morning <= day, day <= end,
             NEW i \in RowsOf(day)
      PROVE  i \in InRange(morning, end)
  <2>1. /\ i \in DOMAIN books /\ books[i].at \in Nat
        /\ Midnight(day) <= books[i].at /\ books[i].at < RangeEnd(day)
    BY <1>1, <1>3, DayFacts DEF RowsOf
  <2>2. Midnight(morning) <= books[i].at /\ books[i].at < RangeEnd(end)
    BY <1>3, <2>1 DEF Midnight, RangeEnd
  <2> QED
    BY <2>1, <2>2 DEF InRange
<1>4. ASSUME NEW morning \in Nat, NEW end \in Nat, morning <= day, day <= end
      PROVE  RowsOf(day) = {i \in InRange(morning, end) : DayOf(books[i].at) = day}
  BY <1>3, <1>4 DEF RowsOf, InRange
<1> QED
  BY <1>2, <1>4

LEMMA CostOfIs ==
    ASSUME BooksInvariant, NEW S \in SUBSET DOMAIN books
    PROVE  CostOf(S) = SumFunctionOnSet(Costs, S) /\ IsFiniteSet(S)
           /\ \A i \in S : Costs[i] \in Int
<1>1. IsFiniteSet(S) /\ \A i \in S : Costs[i] \in Int /\ Costs[i] = books[i].cost
  <2>1. Len(books) \in Nat /\ DOMAIN books = 1..Len(books)
    BY DEF BooksInvariant
  <2>2. IsFiniteSet(S)
    <3>1. IsFiniteSet(DOMAIN books)
      BY <2>1, FS_Interval
    <3> QED
      BY <3>1, FS_Subset
  <2> QED
    BY <2>1, <2>2, TablesOfBooks DEF Costs
<1> DEFINE costs == [i \in S |-> books[i].cost]
<1>2. CostOf(S) = SumFunctionOnSet(costs, S)
  <2>1. DOMAIN costs = S
    OBVIOUS
  <2> HIDE DEF costs
  <2>2. SumFunction(costs) = SumFunctionOnSet(costs, S)
    BY <2>1 DEF SumFunction
  <2> QED
    BY <2>2, Zenon DEF CostOf, costs
<1>3. \A i \in S : costs[i] = Costs[i]
  BY <1>1
<1> HIDE DEF costs
<1>4. SumFunctionOnSet(Costs, S) = SumFunctionOnSet(costs, S)
  BY <1>1, <1>3, SumOfSame
<1> QED
  BY <1>1, <1>2, <1>4

LEMMA DaysAdd == BooksInvariant => DaysAddUp
<1> SUFFICES ASSUME BooksInvariant, NEW morning \in Days, NEW end \in Days, morning <= end,
                    NEW day \in morning..end
             PROVE  SumFunction([entry \in {e \in DailyCosts(morning, end) : e.day = day}
                                    |-> entry.cost])
                    = TotalCost(day, day)
  BY Zenon DEF DaysAddUp
<1> DEFINE R == RowsOf(day)
           OfModel(m) == {j \in R : books[j].model = m}
           Entry(i) == [day |-> day, model |-> books[i].model,
                        cost |-> CostOf(OfModel(books[i].model))]
           E == {e \in DailyCosts(morning, end) : e.day = day}
<1>1. /\ morning \in Nat /\ end \in Nat /\ day \in Nat /\ morning <= day /\ day <= end
  BY UsageBooksAssumption DEF Days, DayOf
<1>2. /\ InRange(day, day) = R
      /\ R = {i \in InRange(morning, end) : DayOf(books[i].at) = day}
  BY <1>1, RowsOfDay
<1>3. ASSUME NEW e \in E PROVE \E i \in R : e = Entry(i)
  <2>1. PICK i \in InRange(morning, end) :
            e = [day |-> DayOf(books[i].at), model |-> books[i].model,
                 cost |-> CostOf({j \in InRange(morning, end) :
                          /\ DayOf(books[j].at) = DayOf(books[i].at)
                          /\ books[j].model = books[i].model})]
    BY <1>3 DEF DailyCosts
  <2>2. DayOf(books[i].at) = day
    BY <1>3, <2>1
  <2>3. {j \in InRange(morning, end) : /\ DayOf(books[j].at) = DayOf(books[i].at)
                                     /\ books[j].model = books[i].model}
        = OfModel(books[i].model)
    BY <1>2, <2>2
  <2>4. e = Entry(i)
    BY <2>1, <2>2, <2>3, Zenon
  <2>5. i \in R
    BY <1>2, <2>1, <2>2
  <2> QED
    BY <2>4, <2>5
<1>4. ASSUME NEW i \in R PROVE Entry(i) \in E
  <2>1. i \in InRange(morning, end) /\ DayOf(books[i].at) = day
    BY <1>2
  <2>2. {j \in InRange(morning, end) : /\ DayOf(books[j].at) = DayOf(books[i].at)
                                     /\ books[j].model = books[i].model}
        = OfModel(books[i].model)
    BY <1>2, <2>1
  <2>3. Entry(i) \in DailyCosts(morning, end)
    BY <2>1, <2>2, Zenon DEF DailyCosts
  <2>4. Entry(i).day = day
    OBVIOUS
  <2> QED
    BY <2>3, <2>4
<1>5. \A i \in R : /\ Entry(i).model = books[i].model
                   /\ Entry(i).cost = CostOf(OfModel(books[i].model))
  OBVIOUS
<1>6. R \in SUBSET DOMAIN books /\ \A m : OfModel(m) \in SUBSET DOMAIN books
  BY DEF RowsOf
<1> DEFINE part == [e \in E |-> OfModel(e.model)]
           cost == [e \in E |-> e.cost]
<1>7. IsFiniteSet(E)
  <2> DEFINE entry == [i \in R |-> Entry(i)]
  <2>1. entry \in [R -> E]
    BY <1>4
  <2>2. \A e \in E : \E i \in R : entry[i] = e
    BY <1>3
  <2>3. entry \in Surjection(R, E)
    <3> HIDE DEF entry, E, R
    <3> QED
      BY <2>1, <2>2 DEF Surjection
  <2>4. IsFiniteSet(R)
    BY <1>6, CostOfIs
  <2> HIDE DEF entry, E, R
  <2> QED
    BY <2>3, <2>4, FS_Surjection
<1>8. \A e \in E : part[e] \in SUBSET R /\ cost[e] = SumFunctionOnSet(Costs, part[e])
  <2> SUFFICES ASSUME NEW e \in E
               PROVE  part[e] \in SUBSET R /\ cost[e] = SumFunctionOnSet(Costs, part[e])
    OBVIOUS
  <2>1. PICK i \in R : e = Entry(i)
    BY <1>3
  <2>2. part[e] = OfModel(books[i].model) /\ cost[e] = CostOf(OfModel(books[i].model))
    BY <1>5, <2>1
  <2>3. CostOf(OfModel(books[i].model)) = SumFunctionOnSet(Costs, OfModel(books[i].model))
    BY <1>6, CostOfIs
  <2> QED
    BY <2>2, <2>3
<1>9. \A i \in R : \E e \in E : i \in part[e]
  BY <1>4, <1>5
<1>10. \A d, e \in E : d # e => part[d] \cap part[e] = {}
  <2> SUFFICES ASSUME NEW d \in E, NEW e \in E, NEW i \in part[d], i \in part[e]
               PROVE  d = e
    BY Zenon
  <2>1. books[i].model = d.model /\ books[i].model = e.model
    OBVIOUS
  <2>2. PICK j \in R : d = Entry(j)
    BY <1>3
  <2>3. PICK k \in R : e = Entry(k)
    BY <1>3
  <2>4. books[j].model = books[k].model
    BY <1>5, <2>1, <2>2, <2>3
  <2> QED
    BY <2>2, <2>3, <2>4, Zenon
<1>11. IsFiniteSet(R) /\ \A i \in R : Costs[i] \in Int
  BY <1>6, CostOfIs
<1> HIDE DEF E, R, part, cost
<1>12. SumFunctionOnSet(cost, E) = SumFunctionOnSet(Costs, R)
  BY <1>7, <1>8, <1>9, <1>10, <1>11, SumOfParts
<1>13. SumFunction(cost) = SumFunctionOnSet(cost, E)
  <2>1. DOMAIN cost = E
    BY DEF cost
  <2> QED
    BY <2>1 DEF SumFunction
<1>14. TotalCost(day, day) = SumFunctionOnSet(Costs, R)
  BY <1>2, <1>6, CostOfIs DEF TotalCost
<1> QED
  BY <1>12, <1>13, <1>14, Zenon DEF cost, E

LEMMA PricesOffered == BooksInvariant => OfferedIsPriced
<1> SUFFICES ASSUME BooksInvariant, NEW i \in DOMAIN books,
                    books[i].model \notin CHAT_CATALOG.openrouter.models,
                    books[i].usage.input > 0
             PROVE  ExactCost(books[i].model, books[i].usage) > 0
  BY DEF OfferedIsPriced
<1>1. books[i].model \in Offered /\ books[i].usage \in Usage
  BY DEF BooksInvariant, RowIsRight
<1>2. books[i].model \in Priced
  BY <1>1, OfferedHavePrices
<1> QED
  BY <1>1, <1>2, CostFacts

\* The books hold what cost_for makes of each call.
THEOREM BooksSafe == BooksSpec => []BooksInvariant
  BY BooksInitial, BooksStep, PTL DEF BooksSpec

\* For any calls, in any number and over any time: the books are off by half a
\* microdollar per call at most, no call of a model an organization can pick is
\* free, openrouter's excepted, and the daily report says what the totals say
\* (cost_for, daily_costs, total_cost).
THEOREM BooksAreRight == BooksSpec => []BooksAddUp
<1>1. BooksInvariant => BooksAddUp
  BY DaysAdd, PricesOffered DEF BooksInvariant, BooksAddUp
<1> QED
  BY <1>1, BooksSafe, PTL
-----------------------------------------------------------------------------
(* Retrieval: what a search cites.                                          *)

\* What SourcesAreCited says of some citations and some passages.
Cites(cited, passages) ==
    /\ \A i, j \in DOMAIN cited : SameSource(cited[i], cited[j]) => i = j
    /\ \A p \in passages : \E i \in DOMAIN cited : SameSource(cited[i], p)
    /\ \A i \in DOMAIN cited : cited[i] \in passages

RetrievalInvariant ==
    /\ RetrievalTypeOK /\ citations \in Seq(Passages)
    /\ SourcesAreCited

LEMMA CitesIs == SourcesAreCited <=> Cites(citations, relevant)
  BY DEF SourcesAreCited, Cites, SameSource

\* A passage is cited, or its source was.
LEMMA CiteKeeps ==
    ASSUME NEW cited \in Seq(Passages), NEW passages \in SUBSET Passages,
           Cites(cited, passages), NEW p \in Passages
    PROVE  Cite(cited, p) \in Seq(Passages) /\ Cites(Cite(cited, p), passages \cup {p})
<1>1. CASE \E i \in DOMAIN cited : SameSource(cited[i], p)
  <2>1. Cite(cited, p) = cited
    BY <1>1 DEF Cite
  <2>2. Cites(cited, passages \cup {p})
    BY <1>1 DEF Cites
  <2> QED
    BY <2>1, <2>2
<1>2. CASE ~(\E i \in DOMAIN cited : SameSource(cited[i], p))
  <2> DEFINE new == Append(cited, p)
             n == Len(cited)
  <2>1. Cite(cited, p) = new
    BY <1>2 DEF Cite
  <2>2. /\ new \in Seq(Passages) /\ n \in Nat
        /\ DOMAIN cited = 1..n /\ DOMAIN new = 1..(n + 1)
        /\ new[n + 1] = p /\ \A i \in 1..n : new[i] = cited[i]
    OBVIOUS
  <2> HIDE DEF new, n
  <2>3. \A i, j \in DOMAIN new : SameSource(new[i], new[j]) => i = j
    <3> SUFFICES ASSUME NEW i \in DOMAIN new, NEW j \in DOMAIN new,
                        SameSource(new[i], new[j])
                 PROVE  i = j
      OBVIOUS
    <3>1. CASE i \in 1..n /\ j \in 1..n
      BY <2>2, <3>1 DEF Cites
    <3>2. CASE i \in 1..n /\ j \notin 1..n
      <4>1. SameSource(cited[i], p)
        BY <2>2, <3>2
      <4> QED
        BY <1>2, <2>2, <3>2, <4>1
    <3>3. CASE i \notin 1..n /\ j \in 1..n
      <4>1. SameSource(p, cited[j])
        BY <2>2, <3>3
      <4>2. SameSource(cited[j], p)
        BY <4>1 DEF SameSource
      <4> QED
        BY <1>2, <2>2, <3>3, <4>2
    <3>4. CASE i \notin 1..n /\ j \notin 1..n
      BY <2>2, <3>4
    <3> QED
      BY <3>1, <3>2, <3>3, <3>4
  <2>4. ASSUME NEW q \in passages \cup {p}
        PROVE  \E i \in DOMAIN new : SameSource(new[i], q)
    <3>1. CASE q \in passages
      <4>1. PICK i \in DOMAIN cited : SameSource(cited[i], q)
        BY <3>1 DEF Cites
      <4>2. i \in DOMAIN new /\ new[i] = cited[i]
        BY <2>2
      <4> QED
        BY <4>1, <4>2
    <3>2. CASE q = p
      <4>1. n + 1 \in DOMAIN new /\ SameSource(new[n + 1], q)
        BY <2>2, <3>2 DEF SameSource
      <4> QED
        BY <4>1
    <3> QED
      BY <3>1, <3>2
  <2>5. ASSUME NEW i \in DOMAIN new PROVE new[i] \in passages \cup {p}
    <3>1. CASE i \in 1..n
      BY <2>2, <3>1 DEF Cites
    <3>2. CASE i \notin 1..n
      BY <2>2, <3>2
    <3> QED
      BY <3>1, <3>2
  <2> QED
    BY <2>1, <2>2, <2>3, <2>4, <2>5 DEF Cites
<1> QED
  BY <1>1, <1>2

\* FoldLeft, as a table over the sets of rows.
Greatest(s) == CHOOSE x \in s : \A y \in s : x >= y

CiteTable(t, cited, rows, S) ==
    t = [s \in SUBSET S |-> IF s = {} THEN cited
                            ELSE Cite(t[s \ {Greatest(s)}], rows[Greatest(s)])]

LEMMA FoldUnfolds ==
    ASSUME NEW cited, NEW rows
    PROVE  FoldLeft(Cite, cited, rows)
           = (CHOOSE t : CiteTable(t, cited, rows, DOMAIN rows))[DOMAIN rows]
  BY Zenon DEF FoldLeft, MapThenFoldSet, CiteTable, Greatest, Max

LEMMA GreatestFacts ==
    ASSUME NEW n \in Nat, NEW s \in SUBSET (1..n), s # {}
    PROVE  Greatest(s) \in s /\ \A y \in s : Greatest(s) >= y
<1> DEFINE Bounds == {m \in Nat : \A y \in s : m >= y}
<1>1. PICK m \in Bounds : \A k \in Bounds : m <= k
  <2>1. n \in Bounds
    OBVIOUS
  <2> HIDE DEF Bounds
  <2>2. Bounds \in SUBSET Nat
    BY DEF Bounds
  <2> QED
    BY <2>1, <2>2, LeastNumber
<1>2. m \in s
  <2> SUFFICES ASSUME m \notin s PROVE FALSE
    OBVIOUS
  <2>1. \A y \in s : y \in Nat /\ y >= 1 /\ m >= y /\ m # y
    OBVIOUS
  <2>2. m \in Nat
    OBVIOUS
  <2>3. PICK x \in s : TRUE
    OBVIOUS
  <2>4. m - 1 \in Nat
    BY <2>1, <2>2, <2>3
  <2>5. \A y \in s : m - 1 >= y
    BY <2>1, <2>2
  <2>6. m - 1 \in Bounds
    BY <2>4, <2>5
  <2>7. m <= m - 1
    BY <1>1, <2>6
  <2> QED
    BY <2>2, <2>7
<1>3. \E x \in s : \A y \in s : x >= y
  BY <1>2
<1> QED
  BY <1>3 DEF Greatest

LEMMA CiteTableExists ==
    ASSUME NEW cited \in Seq(Passages), NEW n \in Nat, NEW rows \in [1..n -> Passages]
    PROVE  \E t \in [SUBSET (1..n) -> Seq(Passages)] : CiteTable(t, cited, rows, 1..n)
<1> DEFINE V == Seq(Passages)
           step == [p \in (1..n) \X V |-> Cite(p[2], rows[p[1]])]
           pick == [s \in SUBSET (1..n) |-> Greatest(s)]
<1>1. \A c \in V, p \in Passages : Cite(c, p) \in V
  BY DEF Cite
<1> HIDE DEF V
<1>2. step \in [(1..n) \X V -> V]
  <2>1. ASSUME NEW p \in (1..n) \X V PROVE Cite(p[2], rows[p[1]]) \in V
    BY <1>1
  <2> QED
    BY <2>1
<1>3. \A s \in SUBSET (1..n) : s # {} => pick[s] \in s
  BY GreatestFacts
<1>4. \A i \in 1..n, c \in V : step[<<i, c>>] = Cite(c, rows[i])
  OBVIOUS
<1>5. \A s \in SUBSET (1..n) : pick[s] = Greatest(s)
  OBVIOUS
<1> HIDE DEF step, pick
<1>6. IsFiniteSet(1..n) /\ cited \in V
  BY FS_Interval DEF V
<1>7. PICK t \in [SUBSET (1..n) -> V] : FoldTable(t, 1..n, cited, step, pick)
  BY <1>2, <1>3, <1>6, TableExists
<1>8. ASSUME NEW s \in SUBSET (1..n), s # {}
      PROVE  step[<<pick[s], t[s \ {pick[s]}]>>] = Cite(t[s \ {Greatest(s)}], rows[Greatest(s)])
  <2>1. Greatest(s) \in 1..n /\ pick[s] = Greatest(s)
    BY <1>5, <1>8, GreatestFacts
  <2>2. t[s \ {Greatest(s)}] \in V
    OBVIOUS
  <2> QED
    BY <1>4, <2>1, <2>2
<1>9. CiteTable(t, cited, rows, 1..n)
  BY <1>7, <1>8 DEF FoldTable, CiteTable
<1> QED
  BY <1>9 DEF V

\* The rows are cited one after the other.
LEMMA RowsAreCited ==
    ASSUME NEW cited \in Seq(Passages), NEW passages \in SUBSET Passages,
           Cites(cited, passages), NEW n \in Nat, NEW rows \in [1..n -> Passages]
    PROVE  LET after == FoldLeft(Cite, cited, rows)
           IN after \in Seq(Passages) /\ Cites(after, passages \cup {rows[i] : i \in 1..n})
<1> DEFINE t == CHOOSE t : CiteTable(t, cited, rows, 1..n)
<1>1. FoldLeft(Cite, cited, rows) = t[1..n]
  <2>1. DOMAIN rows = 1..n
    OBVIOUS
  <2> QED
    BY <2>1, FoldUnfolds, Zenon
<1>2. CiteTable(t, cited, rows, 1..n)
  BY CiteTableExists, Zenon
<1> HIDE DEF t
<1> DEFINE Good(k) == /\ t[1..k] \in Seq(Passages)
                      /\ Cites(t[1..k], passages \cup {rows[i] : i \in 1..k})
           Bad == {k \in 0..n : ~Good(k)}
<1>3. t[1..0] = cited
  <2>1. 1..0 = {}
    OBVIOUS
  <2> QED
    BY <1>2, <2>1, Zenon DEF CiteTable
<1>4. Good(0)
  <2>1. passages \cup {rows[i] : i \in 1..0} = passages
    OBVIOUS
  <2> QED
    BY <1>3, <2>1
<1>5. ASSUME NEW k \in 1..n, Good(k - 1) PROVE Good(k)
  <2>1. Greatest(1..k) = k
    <3>1. k \in Nat /\ k \in 1..k
      OBVIOUS
    <3>2. Greatest(1..k) \in 1..k /\ \A y \in 1..k : Greatest(1..k) >= y
      BY <3>1, GreatestFacts, 1..k # {}
    <3> QED
      BY <3>1, <3>2
  <2>2. (1..k) \ {k} = 1..(k - 1) /\ 1..k # {} /\ 1..k \in SUBSET (1..n)
    <3>1. k \in Nat /\ k \in 1..k /\ k <= n
      OBVIOUS
    <3>2. (1..k) \ {k} = 1..(k - 1)
      BY <3>1
    <3>3. \A i \in 1..k : i \in 1..n
      BY <3>1
    <3> QED
      BY <3>1, <3>2, <3>3
  <2>3. t[1..k] = Cite(t[(1..k) \ {Greatest(1..k)}], rows[Greatest(1..k)])
    BY <1>2, <2>2, Zenon DEF CiteTable
  <2>4. t[1..k] = Cite(t[1..(k - 1)], rows[k])
    BY <2>1, <2>2, <2>3
  <2> DEFINE before == passages \cup {rows[i] : i \in 1..(k - 1)}
  <2>5. before \in SUBSET Passages /\ rows[k] \in Passages
    OBVIOUS
  <2>6. before \cup {rows[k]} = passages \cup {rows[i] : i \in 1..k}
    <3>1. \A i \in 1..k : i \in 1..(k - 1) \/ i = k
      OBVIOUS
    <3>2. \A i \in 1..(k - 1) : i \in 1..k
      OBVIOUS
    <3>3. k \in 1..k
      OBVIOUS
    <3> QED
      BY <3>1, <3>2, <3>3
  <2>7. t[1..(k - 1)] \in Seq(Passages) /\ Cites(t[1..(k - 1)], before)
    BY <1>5
  <2> HIDE DEF before
  <2>8. /\ Cite(t[1..(k - 1)], rows[k]) \in Seq(Passages)
        /\ Cites(Cite(t[1..(k - 1)], rows[k]), before \cup {rows[k]})
    BY <2>5, <2>7, CiteKeeps
  <2> QED
    BY <2>4, <2>6, <2>8
<1> HIDE DEF Good
<1>6. Bad = {}
  <2> SUFFICES ASSUME Bad # {} PROVE FALSE
    OBVIOUS
  <2>1. PICK k \in Bad : \A j \in Bad : k <= j
    <3>1. Bad \in SUBSET Nat
      OBVIOUS
    <3> HIDE DEF Bad
    <3> QED
      BY <3>1, LeastNumber
  <2>2. k \in 1..n
    BY <1>4, <2>1
  <2>3. k - 1 \notin Bad /\ k - 1 \in 0..n
    BY <2>1, <2>2
  <2> QED
    BY <1>5, <2>1, <2>2, <2>3
<1>7. Good(n)
  BY <1>6
<1> QED
  BY <1>1, <1>7 DEF Good
-----------------------------------------------------------------------------
\* The rows of a search match.
LEMMA RankingFacts ==
    ASSUME NEW rows \in Rankings
    PROVE  /\ Len(rows) \in Nat /\ DOMAIN rows = 1..Len(rows)
           /\ rows \in [1..Len(rows) -> Passages]
           /\ \A i \in 1..Len(rows) : Matches(rows[i])
<1>1. PICK S \in SUBSET {p \in Passages : Matches(p)} : rows \in SetToSeqs(S)
  BY DEF Rankings
<1>2. rows \in [1..Cardinality(S) -> S]
  BY <1>1 DEF SetToSeqs
<1>3. Cardinality(S) \in Nat
  <2>1. IsFiniteSet(S)
    BY RetrievalAssumption, FS_Subset
  <2> QED
    BY <2>1, FS_CardinalityType
<1>4. Len(rows) = Cardinality(S)
  BY <1>2, <1>3
<1> QED
  BY <1>2, <1>3, <1>4

LEMMA SearchFacts ==
    ASSUME RetrievalInvariant, Search
    PROVE  /\ RetrievalInvariant'
           /\ \A p \in hits' : p.doc \notin Foreign /\ library'[p.doc].status = "ready"
<1>1. PICK rows \in Rankings :
          /\ hits' = {rows[i] : i \in DOMAIN rows}
          /\ \E good \in 0..Len(rows) :
                /\ relevant' = relevant \cup {rows[i] : i \in 1..good}
                /\ citations' = FoldLeft(Cite, citations, SubSeq(rows, 1, good))
  BY DEF Search
<1>2. PICK good \in 0..Len(rows) :
          /\ relevant' = relevant \cup {rows[i] : i \in 1..good}
          /\ citations' = FoldLeft(Cite, citations, SubSeq(rows, 1, good))
  BY <1>1
<1>3. /\ Len(rows) \in Nat /\ DOMAIN rows = 1..Len(rows)
      /\ rows \in [1..Len(rows) -> Passages]
      /\ \A i \in 1..Len(rows) : Matches(rows[i])
  BY RankingFacts
<1> DEFINE best == SubSeq(rows, 1, good)
<1>4. best \in [1..good -> Passages] /\ \A i \in 1..good : best[i] = rows[i]
  <2>1. rows \in Seq(Passages) /\ good \in Nat /\ good <= Len(rows)
    BY <1>3
  <2>2. \A i \in 1..good : i \in 1..Len(rows)
    BY <1>3, <2>1
  <2>3. DOMAIN best = 1..good /\ \A i \in 1..good : best[i] = rows[i]
    BY <2>1
  <2>4. best \in Seq(Passages)
    BY <2>1
  <2> HIDE DEF best
  <2>5. best \in [1..good -> Passages]
    BY <2>3, <2>4
  <2> QED
    BY <2>3, <2>5
<1> HIDE DEF best
<1>5. relevant' = relevant \cup {best[i] : i \in 1..good}
  BY <1>2, <1>4
<1>6. citations' = FoldLeft(Cite, citations, best)
  BY <1>2 DEF best
<1>7. citations' \in Seq(Passages) /\ Cites(citations', relevant')
  <2>1. relevant \in SUBSET Passages /\ Cites(citations, relevant) /\ good \in Nat
    BY <1>3, CitesIs DEF RetrievalInvariant, RetrievalTypeOK
  <2> QED
    BY <1>4, <1>5, <1>6, <2>1, RowsAreCited DEF RetrievalInvariant
<1>8. SourcesAreCited'
  BY <1>7 DEF SourcesAreCited, Cites, SameSource
<1>9. RetrievalTypeOK'
  <2>1. hits' \subseteq Passages
    BY <1>1, <1>3
  <2>2. relevant' \subseteq Passages
    BY <1>4, <1>5 DEF RetrievalInvariant, RetrievalTypeOK
  <2>3. turn' \in [pc : {"idle", "model", "embedding", "over"}, searches : 0..MaxSearches]
    BY DEF Search, RetrievalInvariant, RetrievalTypeOK
  <2>4. library' = library
    BY DEF Search
  <2> QED
    BY <1>7, <2>1, <2>2, <2>3, <2>4 DEF RetrievalInvariant, RetrievalTypeOK
<1>10. \A p \in hits' : p.doc \notin Foreign /\ library'[p.doc].status = "ready"
  <2>1. library' = library
    BY DEF Search
  <2> QED
    BY <1>1, <1>3, <2>1 DEF Matches
<1> QED
  BY <1>7, <1>8, <1>9, <1>10 DEF RetrievalInvariant

\* The other actions leave what was cited alone.
LEMMA RetrievalStep ==
    ASSUME RetrievalInvariant, [RetrievalNext]_retrievalVars
    PROVE  RetrievalInvariant'
<1>1. CASE BeginTurn \/ EmbedQuery \/ EmbedQueryFails
  <2>1. UNCHANGED <<library, hits, relevant, citations>>
    BY <1>1 DEF BeginTurn, EmbedQuery, EmbedQueryFails
  <2>2. turn' \in [pc : {"idle", "model", "embedding", "over"}, searches : 0..MaxSearches]
    <3>1. CASE BeginTurn
      BY <3>1 DEF BeginTurn, RetrievalInvariant, RetrievalTypeOK
    <3>2. CASE EmbedQuery
      <4>1. turn.searches + 1 \in 0..MaxSearches
        BY <3>2, RetrievalAssumption DEF EmbedQuery, RetrievalInvariant, RetrievalTypeOK
      <4> QED
        BY <3>2, <4>1 DEF EmbedQuery
    <3>3. CASE EmbedQueryFails
      BY <3>3 DEF EmbedQueryFails, RetrievalInvariant, RetrievalTypeOK
    <3> QED
      BY <1>1, <3>1, <3>2, <3>3
  <2>3. RetrievalTypeOK'
    BY <2>1, <2>2 DEF RetrievalInvariant, RetrievalTypeOK
  <2> QED
    BY <2>1, <2>3 DEF RetrievalInvariant, SourcesAreCited, SameSource
<1>2. CASE Search
  BY <1>2, SearchFacts
<1>3. ASSUME NEW d \in Library, Process(d) \/ MakeReady(d) \/ MakeFailed(d) \/ Discard(d)
      PROVE  RetrievalInvariant'
  <2>1. library' \in [Library -> DocumentRow]
    <3>1. library \in [Library -> DocumentRow] /\ library[d] \in DocumentRow
      BY DEF RetrievalInvariant, RetrievalTypeOK
    <3>2. PICK row \in DocumentRow : library' = [library EXCEPT ![d] = row]
      <4>1. /\ [library[d] EXCEPT !.status = "processing"] \in DocumentRow
            /\ [library[d] EXCEPT !.status = "failed"] \in DocumentRow
            /\ [status |-> "ready", indexed |-> TRUE] \in DocumentRow
            /\ [status |-> "deleted", indexed |-> FALSE] \in DocumentRow
        BY <3>1 DEF DocumentRow
      <4> QED
        BY <1>3, <4>1, Zenon DEF Process, MakeReady, MakeFailed, Discard, SetRow
    <3> QED
      BY <3>1, <3>2
  <2>2. UNCHANGED <<turn, hits, relevant, citations>>
    BY <1>3 DEF Process, MakeReady, MakeFailed, Discard, SetRow
  <2> QED
    BY <2>1, <2>2 DEF RetrievalInvariant, RetrievalTypeOK, SourcesAreCited, SameSource
<1>4. CASE UNCHANGED retrievalVars
  BY <1>4 DEF retrievalVars, RetrievalInvariant, RetrievalTypeOK, SourcesAreCited, SameSource
<1> QED
  BY <1>1, <1>2, <1>3, <1>4 DEF RetrievalNext

LEMMA RetrievalInitial == RetrievalInit => RetrievalInvariant
  BY RetrievalAssumption DEF RetrievalInit, RetrievalInvariant, RetrievalTypeOK, DocumentRow,
     SourcesAreCited

\* However often a turn searches, its citations are passages it found that scored
\* high enough, each source once (AgentToolbox._search).
THEOREM RetrievalSafe == RetrievalSpec => []RetrievalInvariant
  BY RetrievalInitial, RetrievalStep, PTL DEF RetrievalSpec

\* Only a search brings anything up.
LEMMA HitsStep ==
    ASSUME RetrievalInvariant, [RetrievalNext]_retrievalVars
    PROVE  [\A p \in hits' : hits' # hits =>
              p.doc \notin Foreign /\ library'[p.doc].status = "ready"]_retrievalVars
<1>1. CASE Search
  BY <1>1, SearchFacts
<1>2. CASE ~Search
  <2>1. hits' = hits
    BY <1>2 DEF RetrievalNext, BeginTurn, EmbedQuery, EmbedQueryFails, Process, MakeReady,
       MakeFailed, Discard, SetRow, retrievalVars
  <2> QED
    BY <2>1
<1> QED
  BY <1>1, <1>2

\* In every turn, for any passages and whatever the index leaves out, what the model
\* is given is of ready documents of the tenant, and what it was given is cited
\* (RetrievalService.search, AgentToolbox._search).
THEOREM SearchesAreSound == RetrievalSpec => SearchesHold
<1>1. RetrievalInvariant => SourcesAreCited
  BY DEF RetrievalInvariant
<1> QED
  BY <1>1, RetrievalInitial, RetrievalStep, HitsStep, PTL
     DEF RetrievalSpec, SearchesHold, HitsAreReady
-----------------------------------------------------------------------------
(* Nine components side by side.   A step of MCServices is a step of one of *)
(* them and leaves the variables of the others alone.                       *)

LEMMA AllStart ==
    Init => /\ LimiterInit /\ KeysInit /\ SettingsInit /\ OrgInit /\ TenancyInit
            /\ ChunkInit /\ StreamInit /\ BooksInit /\ RetrievalInit
  BY Zenon DEF Init

\* Nothing of a component changes when its variables do not.
LEMMA OneOrNone ==
    ASSUME [Next]_<<component, limiterVars, keyVars, settingsVars, orgVars,
                    tenancyVars, chunkVars, streamVars, booksVars, retrievalVars>>
    PROVE  /\ [LimiterNext]_limiterVars /\ [KeysNext]_keyVars
           /\ [SettingsNext]_settingsVars /\ [OrgNext]_orgVars
           /\ [TenancyNext]_tenancyVars
           /\ [ChunkNext]_chunkVars /\ [StreamNext]_streamVars
           /\ [BooksNext]_booksVars /\ [RetrievalNext]_retrievalVars
  BY Zenon DEF Next

\* A behaviour of the composition is a behaviour of each component: none of
\* them needs anything of another.
THEOREM EachOnItsOwn ==
    Spec => /\ LimiterSpec /\ KeysSpec /\ SettingsSpec /\ OrgSpec /\ TenancySpec
            /\ ChunkSpec /\ StreamSpec /\ BooksSpec /\ RetrievalSpec
  BY AllStart, OneOrNone, PTL DEF Spec, LimiterSpec, KeysSpec, SettingsSpec, OrgSpec,
     TenancySpec, ChunkSpec, StreamSpec, BooksSpec, RetrievalSpec

\* Side by side, every component keeps its types.
THEOREM ServicesTyped == Spec => []ServicesTypeOK
<1>1. LimiterInvariant /\ KeysInvariant => LimiterTypeOK /\ KeysTypeOK
  BY DEF LimiterInvariant, KeysInvariant
<1>2. SettingsInvariant /\ OrgInvariant /\ TenancyInvariant
         => SettingsTypeOK /\ OrgTypeOK /\ TenancyTypeOK
  BY DEF SettingsInvariant, OrgInvariant, TenancyInvariant
<1>3. ChunkInvariant /\ StreamInvariant => ChunkTypeOK /\ StreamTypeOK
  BY DEF ChunkInvariant, StreamInvariant
<1>4. BooksInvariant /\ RetrievalInvariant => BooksTypeOK /\ RetrievalTypeOK
  BY DEF BooksInvariant, RetrievalInvariant
<1> QED
  BY <1>1, <1>2, <1>3, <1>4, EachOnItsOwn, LimiterSafe, KeysSafe, SettingsSafe, OrgSafe,
     TenancySafe, ChunkingInvariant, StreamSafe, BooksSafe, RetrievalSafe, PTL DEF ServicesTypeOK

=============================================================================

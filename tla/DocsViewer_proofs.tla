-------------------------- MODULE DocsViewer_proofs --------------------------
(***************************************************************************)
(* Theorems about DocsViewer, for every list of documents, every set of    *)
(* terms, every number of failures and documents of any length.            *)
(***************************************************************************)
EXTENDS DocsViewer, Markdown_proofs, FiniteSetTheorems, SequenceTheorems, WellFoundedInduction, TLAPS

AnyTerm == Terms \union {NoTerm}

------------------------------------------------------------------------------
(* The inductive invariant behind the safety properties.                   *)

\* The newest load and those that awaited their fetch when it began.
Latest == {Newest} \union asked.rivals

\* The chosen document is the one of the newest load.  Only it and its rivals still
\* await a fetch, and once none does the page is the one of one of them.
LoadsOK ==
    /\ asked.doc = currentDoc
    /\ loads \in Seq(Latest)
    /\ loads = <<>> => \E l \in Latest : IsPageOf(l)

\* Once the searches have ended, the newest load was asked to mark the term submitted
\* last, unless it is a click on a result.
MarksAsked == searches = <<>> /\ asked.by # "result" => asked.term = activeSearchTerm

\* A search has found, of the documents before the one it awaits, those that match.
SearchOK(s) ==
    /\ \A d \in s.found : Hits[s.term][d] > 0
    /\ failures = 0 => FoundIn(s.term, 1, s.at - 1) \subseteq s.found

ViewerInv == LoadsOK /\ searches \in Seq({s \in Searching : SearchOK(s)})

\* A page that has been rendered is what the renderer makes of its document.
PageRendered == content.rendered => content.html = MarkdownToHtml(files[content.doc])

------------------------------------------------------------------------------
(* Sequences.                                                              *)

LEMMA WithoutType ==
    ASSUME NEW S, NEW s \in Seq(S), NEW i \in DOMAIN s
    PROVE  Without(s, i) \in Seq(S)
<1>1. i \in 1..Len(s) /\ Len(s) \in Nat
  BY LenProperties
<1>2. SubSeq(s, 1, i - 1) \in Seq(S)
  BY <1>1, SubSeqProperties
<1>3. SubSeq(s, i + 1, Len(s)) \in Seq(S)
  BY <1>1, SubSeqProperties
<1> QED
  BY <1>2, <1>3, ConcatProperties DEF Without

------------------------------------------------------------------------------
(* The documents.                                                          *)

LEMMA DocumentFacts ==
    /\ Docs \in Seq(Doc) /\ Len(Docs) \in Nat /\ Len(Docs) >= 1
    /\ DOMAIN Docs = 1..Len(Docs) /\ Docs[1] \in Doc
<1>1. Docs \in Seq(Doc) /\ Docs # <<>>
  BY ViewerAssumption DEF ViewerAssumption
<1>2. Len(Docs) \in Nat /\ DOMAIN Docs = 1..Len(Docs) /\ Len(Docs) # 0
  BY <1>1, EmptySeq, LenProperties
<1>3. 1 \in DOMAIN Docs
  BY <1>2
<1> QED
  BY <1>1, <1>2, <1>3 DEF Doc

\* The fetch a search waits for next, or the end of the list.
LEMMA NextFetchFacts ==
    ASSUME NEW i \in 1..(Len(Docs) + 1)
    PROVE  /\ NextFetch(i) \in i..(Len(Docs) + 1)
           /\ NextFetch(i) <= Len(Docs) => NextFetch(i) \in DOMAIN Docs
<1> DEFINE n == Len(Docs)
           T == {j \in i..(n + 1) : j <= n => Docs[j] \notin docCache'}
<1>1. n \in Nat /\ DOMAIN Docs = 1..n
  BY DocumentFacts
<1> HIDE DEF n
<1>2. n + 1 \in T /\ T \subseteq Nat
  BY <1>1 DEF n
<1>3. PICK m \in T : \A j \in T : m <= j
  BY <1>2, LeastElement
<1>4. ASSUME NEW k \in i..(m - 1)
      PROVE  Docs[k] \in docCache'
  <2>1. k \notin T /\ k \in i..(n + 1) /\ k <= n
    BY <1>1, <1>3 DEF n
  <2> QED
    BY <2>1
<1>5. /\ NextFetch(i) \in i..(n + 1)
  BY <1>3, <1>4 DEF NextFetch, n
<1> QED
  BY <1>1, <1>5 DEF n

LEMMA FoundInFacts ==
    ASSUME NEW t \in Terms
    PROVE  /\ \A i \in 1..(Len(Docs) + 1), j \in 0..Len(Docs) : FoundIn(t, i, j) \subseteq Doc
           /\ \A i, j : \A d \in FoundIn(t, i, j) : Hits[t][d] > 0
           /\ \A d \in Doc : Hits[t][d] > 0 => d \in FoundIn(t, 1, Len(Docs))
           /\ \A i \in 1..(Len(Docs) + 1), j \in 0..Len(Docs) :
                FoundIn(t, 1, j) \subseteq FoundIn(t, 1, i - 1) \union FoundIn(t, i, j)
           /\ FoundIn(t, 1, 0) = {}
<1> DEFINE n == Len(Docs)
<1>1. n \in Nat /\ DOMAIN Docs = 1..n
  BY DocumentFacts
<1>2. Doc = {Docs[k] : k \in 1..n}
  BY <1>1 DEF Doc
<1> HIDE DEF n
<1>3. ASSUME NEW i \in 1..(n + 1), NEW j \in 0..n
      PROVE  /\ FoundIn(t, i, j) \subseteq Doc
             /\ FoundIn(t, 1, j) \subseteq FoundIn(t, 1, i - 1) \union FoundIn(t, i, j)
  <2>1. \A k \in i..j : k \in 1..n
    BY <1>1
  <2>2. \A k \in 1..j : k \in 1..(i - 1) \/ k \in i..j
    BY <1>1
  <2>3. FoundIn(t, i, j) \subseteq Doc
    BY <1>2, <2>1 DEF FoundIn
  <2>4. FoundIn(t, 1, j) \subseteq FoundIn(t, 1, i - 1) \union FoundIn(t, i, j)
    BY <2>2 DEF FoundIn
  <2> QED
    BY <2>3, <2>4
<1>4. \A i, j : \A d \in FoundIn(t, i, j) : Hits[t][d] > 0
  BY DEF FoundIn
<1>5. \A d \in Doc : Hits[t][d] > 0 => d \in FoundIn(t, 1, n)
  BY <1>2 DEF FoundIn
<1>6. FoundIn(t, 1, 0) = {}
  <2>1. 1..0 = {}
    OBVIOUS
  <2> QED
    BY <2>1 DEF FoundIn
<1> QED
  BY <1>3, <1>4, <1>5, <1>6 DEF n

LEMMA HitsType == \A t \in Terms, d \in Doc : Hits[t][d] \in Nat
BY ViewerAssumption DEF ViewerAssumption

------------------------------------------------------------------------------
(* Sums of hits.  MapThenSumSet is a function defined by recursion on the  *)
(* subsets of its argument; SumTable says that one table serves them all.  *)

Chosen(s) == CHOOSE x \in s : TRUE

\* What a sum over the subsets in SS has to be.
IsSum(t, SS, g) ==
    g = [s \in SS |-> IF s = {} THEN 0 ELSE Hits[t][Chosen(s)] + g[s \ {Chosen(s)}]]

LEMMA HitsInIsSum ==
    ASSUME NEW t, NEW S
    PROVE  HitsIn(t, S) = (CHOOSE g : IsSum(t, SUBSET S, g))[S]
BY DEF HitsIn, MapThenSumSet, MapThenFoldSet, IsSum, Chosen

LEMMA DocIsFinite == IsFiniteSet(Doc)
<1>1. IsFiniteSet(1..Len(Docs))
  BY DocumentFacts, FS_Interval
<1>2. Docs \in Surjection(1..Len(Docs), Doc)
  BY DocumentFacts DEF Doc, Surjection
<1> QED
  BY <1>1, <1>2, FS_Surjection

LEMMA FiniteDocs ==
    ASSUME NEW S \in SUBSET Doc
    PROVE  /\ IsFiniteSet(S) /\ Cardinality(S) \in Nat
           /\ Cardinality(S) = 0 <=> S = {}
           /\ S # {} => Chosen(S) \in S
           /\ \A x \in S : Cardinality(S \ {x}) = Cardinality(S) - 1
<1>1. IsFiniteSet(S)
  BY DocIsFinite, FS_Subset
<1>2. Cardinality(S) \in Nat /\ (Cardinality(S) = 0 <=> S = {})
  BY <1>1, FS_CardinalityType, FS_EmptySet
<1>3. \A x \in S : Cardinality(S \ {x}) = Cardinality(S) - 1
  BY <1>1, FS_RemoveElement
<1> QED
  BY <1>1, <1>2, <1>3 DEF Chosen

\* A table of numbers that is right for the sets of at most n documents.
SumsUpTo(t, n, g) ==
    /\ g \in [SUBSET Doc -> Nat]
    /\ \A s \in SUBSET Doc : Cardinality(s) <= n =>
         g[s] = IF s = {} THEN 0 ELSE Hits[t][Chosen(s)] + g[s \ {Chosen(s)}]

LEMMA SumsExist ==
    ASSUME NEW t \in Terms, NEW n \in Nat
    PROVE  \E g : SumsUpTo(t, n, g)
<1> DEFINE T == {k \in Nat : ~ \E g : SumsUpTo(t, k, g)}
<1> SUFFICES ASSUME T # {}
             PROVE  FALSE
  OBVIOUS
<1>1. PICK m \in T : \A k \in T : m <= k
  BY LeastElement
<1>2. CASE m = 0
  <2> DEFINE g == [s \in SUBSET Doc |-> 0]
  <2>1. \A s \in SUBSET Doc : Cardinality(s) <= 0 => s = {}
    BY FiniteDocs
  <2>2. SumsUpTo(t, 0, g)
    BY <2>1 DEF SumsUpTo
  <2> QED
    BY <1>1, <1>2, <2>2
<1>3. CASE m # 0
  <2>1. m - 1 \in Nat /\ m - 1 \notin T
    BY <1>1, <1>3
  <2>2. PICK f : SumsUpTo(t, m - 1, f)
    BY <2>1
  <2> DEFINE g == [s \in SUBSET Doc |->
                     IF s = {} THEN 0 ELSE Hits[t][Chosen(s)] + f[s \ {Chosen(s)}]]
  <2>3. f \in [SUBSET Doc -> Nat]
    BY <2>2 DEF SumsUpTo
  <2>4. ASSUME NEW s \in SUBSET Doc, s # {}
        PROVE  /\ Chosen(s) \in Doc /\ s \ {Chosen(s)} \in SUBSET Doc
               /\ Hits[t][Chosen(s)] \in Nat
               /\ Cardinality(s \ {Chosen(s)}) = Cardinality(s) - 1
    BY <2>4, FiniteDocs, HitsType
  <2>5. g \in [SUBSET Doc -> Nat]
    <3>1. ASSUME NEW s \in SUBSET Doc
          PROVE  (IF s = {} THEN 0 ELSE Hits[t][Chosen(s)] + f[s \ {Chosen(s)}]) \in Nat
      <4>1. CASE s = {}
        BY <4>1
      <4>2. CASE s # {}
        <5>1. f[s \ {Chosen(s)}] \in Nat /\ Hits[t][Chosen(s)] \in Nat
          BY <2>3, <2>4, <4>2
        <5> QED
          BY <4>2, <5>1
      <4> QED
        BY <4>1, <4>2
    <3> QED
      BY <3>1
  <2>6. ASSUME NEW s \in SUBSET Doc, Cardinality(s) <= m - 1
        PROVE  g[s] = f[s]
    BY <2>2, <2>6 DEF SumsUpTo
  <2>7. ASSUME NEW s \in SUBSET Doc, Cardinality(s) <= m
        PROVE  g[s] = IF s = {} THEN 0 ELSE Hits[t][Chosen(s)] + g[s \ {Chosen(s)}]
    <3>1. CASE s = {}
      BY <3>1
    <3>2. CASE s # {}
      <4>1. Cardinality(s) \in Nat /\ m \in Nat
        BY <1>1, FiniteDocs
      <4>2. Cardinality(s \ {Chosen(s)}) <= m - 1
        BY <2>4, <2>7, <3>2, <4>1
      <4>3. g[s \ {Chosen(s)}] = f[s \ {Chosen(s)}]
        BY <2>4, <2>6, <3>2, <4>2
      <4>4. g[s] = Hits[t][Chosen(s)] + f[s \ {Chosen(s)}]
        BY <3>2
      <4> HIDE DEF g
      <4> QED
        BY <3>2, <4>3, <4>4
    <3> QED
      BY <3>1, <3>2
  <2> HIDE DEF g
  <2>8. SumsUpTo(t, m, g)
    BY <2>5, <2>7 DEF SumsUpTo
  <2> QED
    BY <1>1, <2>8
<1> QED
  BY <1>2, <1>3

\* The sums of all sets of documents.
IsSumTable(t, g) ==
    /\ g \in [SUBSET Doc -> Nat]
    /\ \A s \in SUBSET Doc :
         /\ g[s] = IF s = {} THEN 0 ELSE Hits[t][Chosen(s)] + g[s \ {Chosen(s)}]
         /\ HitsIn(t, s) = g[s]

LEMMA SumTable ==
    ASSUME NEW t \in Terms
    PROVE  \E g : IsSumTable(t, g)
<1> DEFINE n == Cardinality(Doc)
<1>1. n \in Nat /\ \A s \in SUBSET Doc : Cardinality(s) <= n
  BY DocIsFinite, FS_CardinalityType, FS_Subset
<1> HIDE DEF n
<1>2. PICK g : SumsUpTo(t, n, g)
  BY <1>1, SumsExist
<1>3. /\ g \in [SUBSET Doc -> Nat]
      /\ \A s \in SUBSET Doc :
           g[s] = IF s = {} THEN 0 ELSE Hits[t][Chosen(s)] + g[s \ {Chosen(s)}]
  BY <1>1, <1>2 DEF SumsUpTo
<1>4. ASSUME NEW S \in SUBSET Doc
      PROVE  HitsIn(t, S) = g[S]
  <2> DEFINE f == [s \in SUBSET S |-> g[s]]
             h == CHOOSE x : IsSum(t, SUBSET S, x)
  <2>1. ASSUME NEW s \in SUBSET S
        PROVE  f[s] = IF s = {} THEN 0 ELSE Hits[t][Chosen(s)] + f[s \ {Chosen(s)}]
    <3>1. s \in SUBSET Doc /\ s \ {Chosen(s)} \in SUBSET S
      OBVIOUS
    <3> QED
      BY <1>3, <3>1
  <2>2. IsSum(t, SUBSET S, f)
    <3>1. f = [s \in SUBSET S |-> f[s]]
      OBVIOUS
    <3> HIDE DEF f
    <3> QED
      BY <2>1, <3>1 DEF IsSum
  <2>3. IsSum(t, SUBSET S, h)
    BY <2>2
  <2> HIDE DEF f, h
  <2>4. \A s \in SUBSET S :
          h[s] = IF s = {} THEN 0 ELSE Hits[t][Chosen(s)] + h[s \ {Chosen(s)}]
    BY <2>3 DEF IsSum
  <2> DEFINE T == {k \in Nat : \E s \in SUBSET S : Cardinality(s) = k /\ h[s] # g[s]}
  <2>5. ASSUME T # {}
        PROVE  FALSE
    <3>1. PICK m \in T : \A k \in T : m <= k
      BY <2>5, LeastElement
    <3>2. PICK s \in SUBSET S : Cardinality(s) = m /\ h[s] # g[s]
      BY <3>1
    <3>3. s \in SUBSET Doc
      BY <3>2
    <3>4. s # {}
      BY <1>3, <2>4, <3>2, <3>3
    <3> DEFINE rest == s \ {Chosen(s)}
    <3>5. /\ rest \in SUBSET S /\ rest \in SUBSET Doc
          /\ Cardinality(rest) = m - 1 /\ Cardinality(rest) \in Nat
      BY <3>2, <3>3, <3>4, FiniteDocs
    <3>6. h[rest] = g[rest]
      <4>1. m - 1 \notin T
        BY <3>1, <3>5
      <4> QED
        BY <3>5, <4>1
    <3> QED
      BY <1>3, <2>4, <3>2, <3>3, <3>4, <3>6
  <2>6. h[S] = g[S]
    <3>1. S \in SUBSET S /\ Cardinality(S) \in Nat
      BY FiniteDocs
    <3> QED
      BY <2>5, <3>1
  <2> QED
    BY <2>6, HitsInIsSum DEF h
<1> QED
  BY <1>3, <1>4 DEF IsSumTable

LEMMA SumType ==
    ASSUME NEW t \in Terms, NEW s \in SUBSET Doc
    PROVE  HitsIn(t, s) \in Nat /\ HitsIn(t, {}) = 0
<1>1. PICK g : IsSumTable(t, g)
  BY SumTable
<1>2. {} \in SUBSET Doc
  OBVIOUS
<1> QED
  BY <1>1, <1>2 DEF IsSumTable

\* The order of summation does not matter.
LEMMA SumOfOneMore ==
    ASSUME NEW t \in Terms, NEW S \in SUBSET Doc, NEW x \in S
    PROVE  HitsIn(t, S) = Hits[t][x] + HitsIn(t, S \ {x})
<1>1. PICK g : IsSumTable(t, g)
  BY SumTable
<1>2. /\ g \in [SUBSET Doc -> Nat]
      /\ \A s \in SUBSET Doc : s # {} => g[s] = Hits[t][Chosen(s)] + g[s \ {Chosen(s)}]
      /\ \A s \in SUBSET Doc : HitsIn(t, s) = g[s]
  BY <1>1 DEF IsSumTable
<1> DEFINE Odd(s, y) == y \in s /\ g[s] # Hits[t][y] + g[s \ {y}]
           T == {k \in Nat : \E s \in SUBSET Doc : Cardinality(s) = k /\ \E y : Odd(s, y)}
<1>3. ASSUME T # {}
      PROVE  FALSE
  <2>1. PICK m \in T : \A k \in T : m <= k
    BY <1>3, LeastElement
  <2>2. PICK s \in SUBSET Doc : Cardinality(s) = m /\ \E y : Odd(s, y)
    BY <2>1
  <2>3. PICK y : Odd(s, y)
    BY <2>2
  <2> DEFINE c == Chosen(s)
             sc == s \ {c}
             sy == s \ {y}
             scy == sc \ {y}
  <2>4. /\ y \in s /\ c \in s /\ s # {} /\ sc \in SUBSET Doc /\ sy \in SUBSET Doc
        /\ scy \in SUBSET Doc /\ scy = sy \ {c}
    BY <2>3, FiniteDocs
  <2>5. g[s] = Hits[t][c] + g[sc] /\ g[s] # Hits[t][y] + g[sy] /\ c # y
    BY <1>2, <2>3, <2>4
  <2>6. /\ Cardinality(sc) = m - 1 /\ Cardinality(sy) = m - 1 /\ m - 1 \in Nat
    BY <2>2, <2>4, FiniteDocs
  <2>7. m - 1 \notin T
    BY <2>1, <2>6
  <2>8. ~Odd(sc, y) /\ ~Odd(sy, c)
    BY <2>4, <2>6, <2>7
  <2>9. g[sc] = Hits[t][y] + g[scy] /\ g[sy] = Hits[t][c] + g[scy]
    BY <2>4, <2>5, <2>8
  <2>10. /\ Hits[t][c] \in Nat /\ Hits[t][y] \in Nat
         /\ g[scy] \in Nat /\ g[sc] \in Nat /\ g[sy] \in Nat
    BY <1>2, <2>4, HitsType
  <2> HIDE DEF c, sc, sy, scy
  <2> QED
    BY <2>5, <2>9, <2>10
<1>4. ~Odd(S, x)
  BY <1>3, FiniteDocs
<1> QED
  BY <1>2, <1>4

LEMMA SumIsMonotonic ==
    ASSUME NEW t \in Terms, NEW B \in SUBSET Doc, NEW A \in SUBSET B
    PROVE  HitsIn(t, A) <= HitsIn(t, B)
<1> DEFINE Odd(s) == s \subseteq B /\ ~ (HitsIn(t, s) <= HitsIn(t, B))
           T == {k \in Nat : \E s : Odd(s) /\ Cardinality(B \ s) = k}
<1>1. ASSUME T # {}
      PROVE  FALSE
  <2>1. PICK m \in T : \A k \in T : m <= k
    BY <1>1, LeastElement
  <2>2. PICK s : Odd(s) /\ Cardinality(B \ s) = m
    BY <2>1
  <2>3. CASE B \ s = {}
    <3>1. s = B
      BY <2>2, <2>3
    <3> QED
      BY <2>2, <3>1, SumType
  <2>4. CASE B \ s # {}
    <3>1. PICK x : x \in B /\ x \notin s
      BY <2>4
    <3> DEFINE more == s \union {x}
    <3>2. more \subseteq B /\ more \in SUBSET Doc /\ s = more \ {x} /\ x \in more /\ x \in Doc
          /\ B \ more = (B \ s) \ {x} /\ x \in B \ s /\ B \ s \in SUBSET Doc
      BY <2>2, <3>1
    <3> HIDE DEF more
    <3>3. HitsIn(t, more) = Hits[t][x] + HitsIn(t, s)
      BY <3>2, SumOfOneMore
    <3>4. /\ HitsIn(t, more) \in Nat /\ HitsIn(t, s) \in Nat /\ HitsIn(t, B) \in Nat
          /\ Hits[t][x] \in Nat
      BY <3>2, SumType, HitsType
    <3>5. Cardinality(B \ more) = m - 1 /\ m - 1 \in Nat
      <4> DEFINE left == B \ s
      <4>1. left \in SUBSET Doc /\ x \in left /\ Cardinality(left) = m /\ B \ more = left \ {x}
        BY <2>2, <3>2
      <4> HIDE DEF left
      <4>3. Cardinality(left \ {x}) = m - 1
        BY <4>1, FiniteDocs
      <4>2. B \ more \in SUBSET Doc
        OBVIOUS
      <4> QED
        BY <4>1, <4>2, <4>3, FiniteDocs
    <3>6. ~Odd(more)
      <4>1. ~ (m - 1 \in T)
        BY <2>1, <3>5
      <4> HIDE DEF Odd
      <4> QED
        BY <3>5, <4>1
    <3> QED
      BY <2>2, <3>2, <3>3, <3>4, <3>6
  <2> QED
    BY <2>3, <2>4
<1>2. Cardinality(B \ A) \in Nat
  <2>1. B \ A \in SUBSET Doc
    OBVIOUS
  <2> QED
    BY <2>1, FiniteDocs
<1>3. ~Odd(A)
  BY <1>1, <1>2
<1> QED
  BY <1>3

------------------------------------------------------------------------------
(* The end of a search.                                                    *)

\* A list is empty only if nothing was found, and full if it leaves anything out.
LEMMA ListedFacts ==
    ASSUME NEW t \in Terms, NEW found \in SUBSET Doc
    PROVE  /\ Listed(t, found) \subseteq found
           /\ found # {} => Listed(t, found) # {}
           /\ \A d \in found \ Listed(t, found) : HitsIn(t, Listed(t, found)) >= ResultCap
<1> DEFINE P(i) == found \intersect {Docs[k] : k \in 1..i}
           n == Len(Docs)
           T == {i \in Nat : ~ (HitsIn(t, P(i)) < ResultCap)}
<1>1. n \in Nat /\ DOMAIN Docs = 1..n /\ Doc = {Docs[k] : k \in 1..n}
  BY DocumentFacts DEF Doc
<1> HIDE DEF n
<1>2. ResultCap \in Nat /\ ResultCap >= 1 /\ \A S \in SUBSET Doc : HitsIn(t, S) \in Nat
  BY SumType, ViewerAssumption DEF ViewerAssumption
<1>3. \A d \in found : d \in Listed(t, found) <=>
        \E i \in 1..n : d = Docs[i] /\ HitsIn(t, P(i - 1)) < ResultCap
  BY <1>1 DEF Listed
<1>4. Listed(t, found) \subseteq found
  BY DEF Listed
<1>5. ASSUME NEW d \in found, d \notin Listed(t, found)
      PROVE  HitsIn(t, Listed(t, found)) >= ResultCap
  <2>1. PICK i \in 1..n : d = Docs[i]
    BY <1>1
  <2>2. i - 1 \in T
    <3>1. ~ (HitsIn(t, P(i - 1)) < ResultCap)
      BY <1>3, <1>5, <2>1, Zenon
    <3>2. i - 1 \in Nat
      BY <1>1, <2>1
    <3> HIDE DEF P
    <3> QED
      BY <3>1, <3>2
  <2>3. PICK m \in T : \A k \in T : m <= k
    BY <2>2, LeastElement
  <2>4. ASSUME NEW k \in 1..m, Docs[k] \in found
        PROVE  Docs[k] \in Listed(t, found)
    <3>1. k \in 1..n /\ k - 1 \in Nat /\ ~ (m <= k - 1)
      BY <1>1, <2>1, <2>2, <2>3
    <3>2. HitsIn(t, P(k - 1)) < ResultCap
      BY <2>3, <3>1
    <3> QED
      BY <1>3, <2>4, <3>1, <3>2
  <2>5. P(m) \subseteq Listed(t, found)
    BY <2>4
  <2>6. HitsIn(t, P(m)) <= HitsIn(t, Listed(t, found))
    BY <1>4, <2>5, SumIsMonotonic
  <2>7. HitsIn(t, P(m)) \in Nat /\ HitsIn(t, Listed(t, found)) \in Nat
    <3>1. P(m) \in SUBSET Doc /\ Listed(t, found) \in SUBSET Doc
      BY <1>4
    <3> QED
      BY <1>2, <3>1
  <2>8. ~ (HitsIn(t, P(m)) < ResultCap)
    BY <2>3
  <2> HIDE DEF P
  <2> QED
    BY <1>2, <2>6, <2>7, <2>8
<1>6. found # {} => Listed(t, found) # {}
  <2> SUFFICES ASSUME found # {}, Listed(t, found) = {}
               PROVE  FALSE
    OBVIOUS
  <2>1. HitsIn(t, {}) >= ResultCap
    BY <1>5
  <2>2. HitsIn(t, {}) = 0
    BY SumType
  <2> QED
    BY <1>2, <2>1, <2>2
<1> QED
  BY <1>4, <1>5, <1>6

StatusType == [says : {"hint", "searching", "none", "found"}, term : AnyTerm]
ResultsType == [term : AnyTerm, docs : SUBSET Doc]

LEMMA FinishKeeps ==
    ASSUME NEW t \in Terms, NEW found \in SUBSET Doc, \A d \in found : Hits[t][d] > 0,
           failures' = 0 => FoundIn(t, 1, Len(Docs)) \subseteq found,
           Finish(t, found)
    PROVE  /\ searchStatus' \in StatusType /\ searchResults' \in ResultsType
           /\ StatusAgreesWithResults'
<1>1. /\ searchStatus'.says = IF found = {} THEN "none" ELSE "found"
      /\ searchStatus' \in StatusType /\ searchStatus'.term = t
  BY DEF Finish, Status, StatusType, AnyTerm
<1>2. CASE found = {}
  <2>1. searchResults' \in ResultsType /\ searchResults'.docs = {}
    BY <1>2 DEF Finish, NoResults, ResultsType, AnyTerm
  <2>2. ASSUME NEW d \in Doc, failures' = 0
        PROVE  Hits[t][d] = 0
    BY <1>2, <2>2, FoundInFacts, HitsType
  <2>3. StatusAgreesWithResults'
    BY <1>1, <1>2, <2>1, <2>2 DEF StatusAgreesWithResults
  <2> QED
    BY <1>1, <2>1, <2>3
<1>3. CASE found # {}
  <2>1. searchResults'.docs = Listed(t, found) /\ searchResults'.term = t
    BY <1>3 DEF Finish
  <2>2. searchResults' \in ResultsType
    BY <1>3, ListedFacts DEF Finish, ResultsType, AnyTerm
  <2>3. ASSUME NEW d \in Doc, d \notin Listed(t, found), failures' = 0
        PROVE  Hits[t][d] = 0 \/ HitsIn(t, Listed(t, found)) >= ResultCap
    <3>1. CASE d \in found
      BY <2>3, <3>1, ListedFacts
    <3>2. CASE d \notin found
      BY <2>3, <3>2, FoundInFacts, HitsType
    <3> QED
      BY <3>1, <3>2
  <2>4. StatusAgreesWithResults'
    BY <1>1, <1>3, <2>1, <2>3, ListedFacts DEF StatusAgreesWithResults
  <2> QED
    BY <1>1, <2>2, <2>4
<1> QED
  BY <1>2, <1>3

------------------------------------------------------------------------------
(* The loads and the searches.                                             *)

VInv == TypeOK /\ ViewerInv /\ StatusAgreesWithResults /\ MarksAsked

AskedType == [doc : Doc, term : AnyTerm, by : {"list", "result", "submit"},
              rivals : SUBSET Loading]

LoadVars == /\ currentDoc \in Doc /\ content.doc \in Doc /\ content.term \in AnyTerm
            /\ content.rendered \in BOOLEAN
            /\ loads \in Seq(Loading) /\ asked \in AskedType

LEMMA LoadKeeps ==
    ASSUME TypeOK, NEW d \in Doc, NEW term \in AnyTerm, NEW by \in {"list", "result", "submit"},
           LoadDocument(d, term, by, loads)
    PROVE  LoadVars' /\ LoadsOK' /\ asked'.term = term /\ asked'.by = by
<1> DEFINE l == [doc |-> d, term |-> term]
           pending == {loads[i] : i \in DOMAIN loads}
<1>1. loads \in Seq(Loading) /\ l \in Loading /\ pending \in SUBSET Loading
  <2>1. loads \in Seq(Loading)
    BY DEF TypeOK
  <2>2. \A i \in DOMAIN loads : loads[i] \in Loading
    BY <2>1, ElementOfSeq, LenProperties
  <2> QED
    BY <2>1, <2>2 DEF Loading, AnyTerm
<1>2. /\ asked' = [doc |-> d, term |-> term, by |-> by, rivals |-> pending]
      /\ currentDoc' = d
  BY DEF LoadDocument, Asks
<1>3. loads \in Seq(pending)
  <2>1. Len(loads) \in Nat /\ DOMAIN loads = 1..Len(loads)
        /\ loads = [i \in 1..Len(loads) |-> loads[i]]
    BY <1>1, LenProperties
  <2>2. \A i \in 1..Len(loads) : loads[i] \in pending
    BY <2>1
  <2> HIDE DEF pending
  <2> QED
    BY <2>1, <2>2, IsASeq
<1>4. Newest' = l /\ Latest' = {l} \union pending
  BY <1>2 DEF Newest, Latest
<1> HIDE DEF pending
<1>5. asked' \in AskedType /\ asked'.term = term /\ asked'.by = by /\ asked'.doc = d
  BY <1>1, <1>2 DEF AskedType
<1>6. loads \in Seq(Latest')
  <2>1. pending \subseteq Latest'
    BY <1>4
  <2> QED
    BY <1>3, <2>1, SeqMonotonic
<1>7. CASE d \in docCache'
  <2>1. content'.doc = d /\ content'.term = term /\ content'.rendered = TRUE /\ loads' = loads
    BY <1>7 DEF LoadDocument, Shown
  <2>2. \E x \in Latest' : IsPageOf(x)'
    BY <1>4, <2>1 DEF IsPageOf
  <2>3. LoadsOK'
    BY <1>2, <1>5, <1>6, <2>1, <2>2 DEF LoadsOK
  <2> QED
    BY <1>1, <1>2, <1>5, <2>1, <2>3 DEF LoadVars
<1>8. CASE d \notin docCache'
  <2>1. content' = content /\ loads' = Append(loads, l)
    BY <1>8 DEF LoadDocument
  <2>2. loads' \in Seq(Loading) /\ loads' \in Seq(Latest') /\ loads' # <<>>
    <3>1. l \in Latest'
      BY <1>4
    <3> HIDE DEF l
    <3> QED
      BY <1>1, <1>6, <2>1, <3>1, AppendProperties
  <2>3. LoadsOK'
    BY <1>2, <1>5, <2>2 DEF LoadsOK
  <2> QED
    BY <1>2, <1>5, <2>1, <2>2, <2>3 DEF LoadVars, TypeOK, AnyTerm
<1> QED
  BY <1>7, <1>8

Good == {s \in Searching : SearchOK(s)}

\* What TypeOK says of the variables that the loads and the status leave alone.
Rest == /\ files \in [Doc -> Seq(Line)] /\ docCache \subseteq Doc
        /\ activeSearchTerm \in AnyTerm /\ acts \in Nat /\ failures \in 0..MaxFailures

LEMMA TypeParts ==
    /\ TypeOK <=> /\ Rest /\ LoadVars /\ searchStatus \in StatusType
                  /\ searchResults \in ResultsType /\ searches \in Seq(Searching)
    /\ ViewerInv <=> LoadsOK /\ searches \in Seq(Good)
    /\ searches \in Seq(Good) => searches \in Seq(Searching)
<1>1. Good \subseteq Searching
  BY DEF Good
<1>2. searches \in Seq(Good) => searches \in Seq(Searching)
  BY <1>1, SeqMonotonic
<1>3. TypeOK <=> /\ Rest /\ LoadVars /\ searchStatus \in StatusType
                 /\ searchResults \in ResultsType /\ searches \in Seq(Searching)
  BY DEF TypeOK, Rest, LoadVars, StatusType, ResultsType, AskedType, AnyTerm
<1>4. ViewerInv <=> LoadsOK /\ searches \in Seq(Good)
  BY DEF ViewerInv, Good
<1> QED
  BY <1>2, <1>3, <1>4

LEMMA TypePartsAfter ==
    ASSUME Rest', LoadVars', searchStatus' \in StatusType, searchResults' \in ResultsType,
           LoadsOK', searches' \in Seq(Good')
    PROVE  TypeOK' /\ ViewerInv'
<1>1. Good' \subseteq Searching
  BY DEF Good
<1>2. searches' \in Seq(Searching)
  BY <1>1, SeqMonotonic
<1>3. TypeOK'
  BY <1>2 DEF TypeOK, Rest, LoadVars, StatusType, ResultsType, AskedType, AnyTerm
<1> QED
  BY <1>3 DEF ViewerInv, Good

LEMMA SearchOnKeeps ==
    ASSUME VInv, NEW t \in Terms, NEW i \in 1..(Len(Docs) + 1), NEW found \in SUBSET Doc,
           \A d \in found : Hits[t][d] > 0,
           failures' = 0 => failures = 0 /\ FoundIn(t, 1, i - 1) \subseteq found,
           NEW others \in Seq(Good'), NEW status \in StatusType,
           status = searchStatus \/ status.says = "searching",
           Rest', SearchOn(t, i, found, others, status)
    PROVE  VInv'
<1>0. PICK next : next = NextFetch(i)
  OBVIOUS
<1> DEFINE all == found \union FoundIn(t, i, next - 1)
           n == Len(Docs)
<1>1. /\ next \in i..(n + 1) /\ n \in Nat /\ next \in Nat
      /\ next <= n => next \in DOMAIN Docs
      /\ next - 1 \in 0..n /\ (~ (next <= n) => next - 1 = n)
  BY <1>0, NextFetchFacts, DocumentFacts
<1>2. all \in SUBSET Doc /\ \A d \in all : Hits[t][d] > 0
  BY <1>1, FoundInFacts
<1>3. failures' = 0 => FoundIn(t, 1, next - 1) \subseteq all
  BY <1>1, FoundInFacts
<1>4. /\ Rest /\ LoadVars /\ searchResults \in ResultsType
      /\ LoadsOK /\ StatusAgreesWithResults /\ TypeOK
  BY TypeParts DEF VInv
<1>5. /\ next <= n =>
           /\ searches' = Append(others, [term |-> t, at |-> next, found |-> all])
           /\ searchStatus' = status
           /\ UNCHANGED <<searchResults, currentDoc, content, loads, asked>>
      /\ ~ (next <= n) =>
           /\ searches' = others
           /\ Finish(t, all)
           /\ LoadDocument(currentDoc, activeSearchTerm', "submit", loads)
  BY <1>0 DEF SearchOn
<1> HIDE DEF all, n
<1>6. CASE next <= n
  <2> DEFINE s == [term |-> t, at |-> next, found |-> all]
  <2>1. s \in Searching
    BY <1>1, <1>2, <1>6 DEF Searching
  <2>2. SearchOK(s)'
    BY <1>2, <1>3 DEF SearchOK, FoundIn
  <2>3. s \in Good'
    BY <2>1, <2>2 DEF Good
  <2> HIDE DEF s
  <2>4. searches' \in Seq(Good') /\ searches' # <<>>
    <3>1. searches' = Append(others, s)
      BY <1>5, <1>6 DEF s
    <3> QED
      BY <2>3, <3>1, AppendProperties
  <2>5. LoadVars' /\ LoadsOK' /\ searchResults' \in ResultsType /\ searchStatus' \in StatusType
    BY <1>4, <1>5, <1>6 DEF LoadVars, LoadsOK, Latest, Newest, IsPageOf
  <2>6. StatusAgreesWithResults'
    BY <1>4, <1>5, <1>6 DEF StatusAgreesWithResults
  <2>7. MarksAsked'
    BY <2>4 DEF MarksAsked
  <2>8. TypeOK' /\ ViewerInv'
    BY <2>4, <2>5, TypePartsAfter
  <2> QED
    BY <2>6, <2>7, <2>8 DEF VInv
<1>7. CASE ~ (next <= n)
  <2>1. /\ searchStatus' \in StatusType /\ searchResults' \in ResultsType
        /\ StatusAgreesWithResults'
    BY <1>1, <1>2, <1>3, <1>5, <1>7, FinishKeeps DEF n
  <2>2. currentDoc \in Doc /\ activeSearchTerm' \in AnyTerm
    BY <1>4 DEF LoadVars, Rest
  <2>3. LoadVars' /\ LoadsOK' /\ asked'.term = activeSearchTerm'
    BY <1>4, <1>5, <1>7, <2>2, LoadKeeps
  <2>4. MarksAsked'
    BY <2>3 DEF MarksAsked
  <2>5. TypeOK' /\ ViewerInv'
    <3>1. searches' \in Seq(Good')
      BY <1>5, <1>7
    <3> QED
      BY <2>1, <2>3, <3>1, TypePartsAfter
  <2> QED
    BY <2>1, <2>4, <2>5 DEF VInv
<1> QED
  BY <1>6, <1>7

------------------------------------------------------------------------------
(* The steps.                                                              *)

LEMMA VInvParts ==
    ASSUME VInv
    PROVE  /\ TypeOK /\ Rest /\ LoadVars /\ searchStatus \in StatusType
           /\ searchResults \in ResultsType /\ LoadsOK /\ searches \in Seq(Good)
BY TypeParts DEF VInv

\* Searches stay sound while failures only grow in number.
LEMMA GoodKeeps ==
    ASSUME NEW s \in Seq(Good), failures' = 0 => failures = 0
    PROVE  s \in Seq(Good')
<1>1. Good \subseteq Good'
  BY DEF Good, SearchOK
<1> QED
  BY <1>1, SeqMonotonic

LEMMA ActKeeps ==
    ASSUME VInv, Act
    PROVE  /\ acts' \in Nat /\ failures' = failures /\ docCache' = docCache /\ files' = files
           /\ activeSearchTerm' \in AnyTerm => Rest'
<1>1. Rest
  BY VInvParts
<1> QED
  BY <1>1 DEF Act, Rest

LEMMA ClickKeeps ==
    ASSUME VInv, ClickDoc \/ ClickResult
    PROVE  VInv'
<1>1. PICK d \in Doc, term \in AnyTerm, by \in {"list", "result"} :
        /\ Act /\ UNCHANGED <<activeSearchTerm, searchStatus, searchResults, searches>>
        /\ LoadDocument(d, term, by, loads)
        /\ by # "result" => term = activeSearchTerm
  <2>1. CASE ClickDoc
    BY <2>1, VInvParts DEF ClickDoc, Rest
  <2>2. CASE ClickResult
    BY <2>2, VInvParts DEF ClickResult, ResultsType
  <2> QED
    BY <2>1, <2>2
<1>2. LoadVars' /\ LoadsOK' /\ asked'.term = term /\ asked'.by = by
  <2>1. by \in {"list", "result", "submit"}
    OBVIOUS
  <2> QED
    BY <1>1, <2>1, VInvParts, LoadKeeps
<1>3. Rest' /\ failures' = failures
  BY <1>1, ActKeeps, VInvParts DEF Rest
<1>4. searches' \in Seq(Good')
  BY <1>1, <1>3, GoodKeeps, VInvParts
<1>5. StatusAgreesWithResults'
  BY <1>1, <1>3 DEF VInv, StatusAgreesWithResults
<1>6. MarksAsked'
  BY <1>1, <1>2 DEF MarksAsked
<1>7. searchStatus' \in StatusType /\ searchResults' \in ResultsType
  BY <1>1, VInvParts
<1> QED
  BY <1>2, <1>3, <1>4, <1>5, <1>6, <1>7, TypePartsAfter DEF VInv

LEMMA EmptySearchKeeps ==
    ASSUME VInv, Act, NEW term \in AnyTerm, EmptySearch(term)
    PROVE  VInv'
<1>1. /\ activeSearchTerm' = term /\ searches' = searches
      /\ searchStatus' = Hint /\ searchResults' = NoResults
      /\ LoadDocument(currentDoc, term, "submit", loads)
  BY DEF EmptySearch
<1>2. currentDoc \in Doc
  BY VInvParts DEF LoadVars
<1>3. LoadVars' /\ LoadsOK' /\ asked'.term = term
  BY <1>1, <1>2, VInvParts, LoadKeeps
<1>4. Rest' /\ failures' = failures
  BY <1>1, ActKeeps
<1>5. searches' \in Seq(Good')
  BY <1>1, <1>4, GoodKeeps, VInvParts
<1>6. searchStatus' \in StatusType /\ searchResults' \in ResultsType
  BY <1>1 DEF Hint, Status, NoResults, StatusType, ResultsType, AnyTerm
<1>7. StatusAgreesWithResults'
  BY <1>1 DEF StatusAgreesWithResults, Hint, Status, NoResults
<1>8. MarksAsked'
  BY <1>1, <1>3 DEF MarksAsked
<1> QED
  BY <1>3, <1>4, <1>5, <1>6, <1>7, <1>8, TypePartsAfter DEF VInv

LEMMA SubmitKeeps ==
    ASSUME VInv, Submit
    PROVE  VInv'
<1>1. Act /\ Short \subseteq Terms
  BY ViewerAssumption DEF Submit, ViewerAssumption
<1>2. CASE \E t \in Short : EmptySearch(t)
  BY <1>1, <1>2, EmptySearchKeeps DEF AnyTerm
<1>3. ASSUME NEW t \in Terms, activeSearchTerm' = t,
             SearchOn(t, 1, {}, searches, Status("searching", t))
      PROVE  VInv'
  <2>1. Rest' /\ failures' = failures
    BY <1>1, <1>3, ActKeeps DEF AnyTerm
  <2>2. searches \in Seq(Good')
    BY <2>1, GoodKeeps, VInvParts
  <2>3. 1 \in 1..(Len(Docs) + 1) /\ FoundIn(t, 1, 1 - 1) = {}
    BY DocumentFacts, FoundInFacts
  <2>4. Status("searching", t) \in StatusType /\ Status("searching", t).says = "searching"
    BY DEF Status, StatusType, AnyTerm
  <2> DEFINE i == 1
             found == {}
             status == Status("searching", t)
  <2>5. /\ i \in 1..(Len(Docs) + 1) /\ found \in SUBSET Doc
        /\ \A d \in found : Hits[t][d] > 0
        /\ failures' = 0 => failures = 0 /\ FoundIn(t, 1, i - 1) \subseteq found
        /\ status \in StatusType /\ status.says = "searching"
        /\ SearchOn(t, i, found, searches, status)
    BY <1>3, <2>1, <2>3, <2>4
  <2> HIDE DEF i, found, status
  <2> QED
    BY <2>1, <2>2, <2>5, SearchOnKeeps
<1> QED
  BY <1>2, <1>3 DEF Submit

LEMMA LoadAnsweredKeeps ==
    ASSUME VInv, LoadAnswered
    PROVE  VInv'
<1>1. PICK i \in DOMAIN loads :
        /\ loads' = Without(loads, i)
        /\ \/ Fetched(loads[i].doc) /\ content' = Shown(loads[i].doc, loads[i].term)
           \/ FetchFails /\ content' = ErrorFor(loads[i].doc)
        /\ UNCHANGED <<files, currentDoc, activeSearchTerm, searchStatus, searchResults,
                       searches, acts, asked>>
  BY DEF LoadAnswered
<1>2. loads \in Seq(Loading) /\ loads[i] \in Loading /\ Rest /\ LoadVars /\ LoadsOK
  <2>1. loads \in Seq(Loading)
    BY VInvParts DEF LoadVars
  <2>2. loads[i] \in Loading
    BY <2>1, ElementOfSeq, LenProperties
  <2> QED
    BY <2>1, <2>2, VInvParts
<1> DEFINE l == loads[i]
<1>3. /\ content'.doc = l.doc /\ content'.doc \in Doc /\ content'.term \in AnyTerm
      /\ content'.rendered \in BOOLEAN /\ (content'.rendered => content'.term = l.term)
  <2>1. l.doc \in Doc /\ l.term \in AnyTerm /\ NoTerm \in AnyTerm
    BY <1>2 DEF Loading, AnyTerm
  <2> HIDE DEF l
  <2>2. content' = Shown(l.doc, l.term) \/ content' = ErrorFor(l.doc)
    BY <1>1 DEF l
  <2>3. CASE content' = Shown(l.doc, l.term)
    <3>1. content'.doc = l.doc /\ content'.term = l.term /\ content'.rendered = TRUE
      BY <2>3 DEF Shown
    <3> QED
      BY <2>1, <3>1
  <2>4. CASE content' = ErrorFor(l.doc)
    <3>1. content'.doc = l.doc /\ content'.term = NoTerm /\ content'.rendered = FALSE
      BY <2>4 DEF ErrorFor
    <3> QED
      BY <2>1, <3>1
  <2> QED
    BY <2>2, <2>3, <2>4
<1>4. Rest' /\ (failures' = 0 => failures = 0)
  <2>1. MaxFailures \in Nat
    BY ViewerAssumption DEF ViewerAssumption
  <2>2. CASE Fetched(loads[i].doc)
    BY <1>1, <1>2, <2>2 DEF Fetched, Rest, Loading
  <2>3. CASE FetchFails
    BY <1>1, <1>2, <2>1, <2>3 DEF FetchFails, Rest
  <2> QED
    BY <1>1, <2>2, <2>3
<1>5. LoadVars'
  BY <1>1, <1>2, <1>3, WithoutType DEF LoadVars
<1>6. LoadsOK'
  <2>1. Latest' = Latest /\ asked'.doc = currentDoc'
    BY <1>1, <1>2 DEF LoadsOK, Latest, Newest
  <2>2. loads \in Seq(Latest)
    BY <1>2 DEF LoadsOK
  <2>3. loads' \in Seq(Latest) /\ loads[i] \in Latest
    <3>1. Without(loads, i) \in Seq(Latest)
      BY <2>2, WithoutType
    <3>2. loads[i] \in Latest
      BY <2>2, ElementOfSeq, LenProperties
    <3> QED
      BY <1>1, <3>1, <3>2
  <2>4. \E x \in Latest' : IsPageOf(x)'
    <3>1. l \in Latest'
      BY <2>1, <2>3
    <3> QED
      BY <1>3, <3>1 DEF IsPageOf
  <2> QED
    BY <2>1, <2>3, <2>4 DEF LoadsOK
<1>7. searches' \in Seq(Good')
  BY <1>1, <1>4, GoodKeeps, VInvParts
<1>8. StatusAgreesWithResults' /\ MarksAsked'
  BY <1>1, <1>4 DEF VInv, StatusAgreesWithResults, MarksAsked
<1>9. searchStatus' \in StatusType /\ searchResults' \in ResultsType
  BY <1>1, VInvParts
<1> QED
  BY <1>4, <1>5, <1>6, <1>7, <1>8, <1>9, TypePartsAfter DEF VInv

LEMMA SearchAnsweredKeeps ==
    ASSUME VInv, SearchAnswered
    PROVE  VInv'
<1>1. PICK i \in DOMAIN searches :
        LET s == searches[i]
            others == Without(searches, i)
        IN  /\ UNCHANGED <<files, activeSearchTerm, acts>>
            /\ \/ Fetched(Docs[s.at]) /\ SearchOn(s.term, s.at, s.found, others, searchStatus)
               \/ FetchFails /\ SearchOn(s.term, s.at + 1, s.found, others, searchStatus)
  BY DEF SearchAnswered
<1> DEFINE s == searches[i]
           others == Without(searches, i)
<1>2. searches \in Seq(Good) /\ s \in Good /\ others \in Seq(Good)
  <2>1. searches \in Seq(Good)
    BY VInvParts
  <2>2. s \in Good
    BY <2>1, ElementOfSeq, LenProperties
  <2> QED
    BY <2>1, <2>2, WithoutType
<1> HIDE DEF s, others
<1>3. /\ s.term \in Terms /\ s.at \in 1..Len(Docs) /\ s.found \in SUBSET Doc
      /\ \A d \in s.found : Hits[s.term][d] > 0
      /\ failures = 0 => FoundIn(s.term, 1, s.at - 1) \subseteq s.found
  BY <1>2, DocumentFacts DEF Good, Searching, SearchOK
<1>4. searchStatus \in StatusType /\ Rest /\ MaxFailures \in Nat
  BY VInvParts, ViewerAssumption DEF ViewerAssumption
<1>5. CASE /\ Fetched(Docs[s.at]) /\ SearchOn(s.term, s.at, s.found, others, searchStatus)
           /\ UNCHANGED <<files, activeSearchTerm, acts>>
  <2>1. Docs[s.at] \in Doc
    BY <1>3, DocumentFacts DEF Doc
  <2>2. Rest' /\ failures' = failures
    BY <1>4, <1>5, <2>1 DEF Rest, Fetched
  <2>3. others \in Seq(Good')
    BY <1>2, <2>2, GoodKeeps
  <2>4. s.at \in 1..(Len(Docs) + 1)
    BY <1>3, DocumentFacts
  <2> QED
    BY <1>3, <1>4, <1>5, <2>2, <2>3, <2>4, SearchOnKeeps
<1>6. CASE /\ FetchFails /\ SearchOn(s.term, s.at + 1, s.found, others, searchStatus)
           /\ UNCHANGED <<files, activeSearchTerm, acts>>
  <2>1. Rest' /\ failures' # 0
    BY <1>4, <1>6 DEF Rest, FetchFails
  <2>2. others \in Seq(Good')
    BY <1>2, <2>1, GoodKeeps
  <2>3. s.at + 1 \in 1..(Len(Docs) + 1)
    BY <1>3, DocumentFacts
  <2> QED
    BY <1>3, <1>4, <1>6, <2>1, <2>2, <2>3, SearchOnKeeps
<1> QED
  BY <1>1, <1>5, <1>6 DEF s, others

LEMMA NextKeeps ==
    ASSUME VInv, [Next]_vars
    PROVE  VInv'
<1>1. CASE Clear
  BY <1>1, EmptySearchKeeps DEF Clear, AnyTerm
<1>2. CASE UNCHANGED vars
  <2>1. Rest' /\ LoadVars' /\ LoadsOK' /\ searchStatus' \in StatusType
        /\ searchResults' \in ResultsType
    BY <1>2, VInvParts DEF vars, Rest, LoadVars, LoadsOK, Latest, Newest, IsPageOf
  <2>2. searches' \in Seq(Good')
    BY <1>2, VInvParts, GoodKeeps DEF vars
  <2>3. StatusAgreesWithResults' /\ MarksAsked'
    BY <1>2 DEF vars, VInv, StatusAgreesWithResults, MarksAsked
  <2> QED
    BY <2>1, <2>2, <2>3, TypePartsAfter DEF VInv
<1> QED
  BY <1>1, <1>2, ClickKeeps, SubmitKeeps, LoadAnsweredKeeps, SearchAnsweredKeeps DEF Next

LEMMA InitHolds ==
    ASSUME Init
    PROVE  VInv
<1>1. PICK s \in Sittings : files = s.files /\ acts = s.acts
  BY DEF Init
<1>2. s.files \in [Doc -> Seq(Line)] /\ s.acts \in Nat /\ MaxFailures \in Nat
  BY ViewerAssumption DEF ViewerAssumption
<1>3. Rest
  BY <1>1, <1>2 DEF Init, Rest, AnyTerm
<1> DEFINE l == [doc |-> Docs[1], term |-> NoTerm]
<1>4. l \in Loading /\ Newest = l /\ loads = <<l>> /\ asked.doc = currentDoc
  BY DocumentFacts DEF Init, Loading, Newest
<1>5. LoadsOK
  <2>1. l \in Latest
    BY <1>4 DEF Latest
  <2>2. loads \in Seq(Latest) /\ loads # <<>>
    BY <1>4, <2>1
  <2> QED
    BY <1>4, <2>2 DEF LoadsOK
<1>6. LoadVars
  <2>1. loads \in Seq(Loading)
    BY <1>4
  <2>2. asked \in AskedType
    BY DocumentFacts DEF Init, AskedType, AnyTerm
  <2> QED
    BY <2>1, <2>2, DocumentFacts DEF Init, LoadVars, AnyTerm
<1>7. searchStatus \in StatusType /\ searchResults \in ResultsType /\ searches \in Seq(Good)
  BY DEF Init, Hint, Status, NoResults, StatusType, ResultsType, AnyTerm
<1>8. StatusAgreesWithResults /\ MarksAsked
  BY DEF Init, Hint, Status, NoResults, StatusAgreesWithResults, MarksAsked
<1> QED
  BY <1>3, <1>5, <1>6, <1>7, <1>8, TypeParts DEF VInv

LEMMA Reachable == Spec => []VInv
BY InitHolds, NextKeeps, PTL DEF Spec

------------------------------------------------------------------------------
(* The page.                                                               *)

LEMMA LoadRenders ==
    ASSUME PageRendered, files' = files, NEW d, NEW term, NEW by, NEW pending,
           LoadDocument(d, term, by, pending)
    PROVE  PageRendered'
<1>1. CASE d \in docCache'
  BY <1>1 DEF LoadDocument, Shown, PageRendered
<1>2. CASE d \notin docCache'
  BY <1>2 DEF LoadDocument, PageRendered
<1> QED
  BY <1>1, <1>2

LEMMA SearchRenders ==
    ASSUME PageRendered, files' = files, NEW term, NEW i, NEW found, NEW others, NEW status,
           SearchOn(term, i, found, others, status)
    PROVE  PageRendered'
<1>1. content' = content \/ LoadDocument(currentDoc, activeSearchTerm', "submit", loads)
  BY DEF SearchOn
<1> QED
  BY <1>1, LoadRenders DEF PageRendered

LEMMA StepRenders ==
    ASSUME PageRendered, [Next]_vars
    PROVE  PageRendered'
<1>1. CASE ClickDoc
  BY <1>1, LoadRenders DEF ClickDoc, Act
<1>2. CASE ClickResult
  BY <1>2, LoadRenders DEF ClickResult, Act
<1>3. CASE Clear
  BY <1>3, LoadRenders DEF Clear, EmptySearch, Act
<1>4. CASE Submit
  <2>1. files' = files
    BY <1>4 DEF Submit, Act
  <2>2. CASE \E t \in Short : EmptySearch(t)
    BY <2>1, <2>2, LoadRenders DEF EmptySearch
  <2>3. CASE \E t \in Terms \ Short : SearchOn(t, 1, {}, searches, Status("searching", t))
    <3>1. PICK t \in Terms \ Short : SearchOn(t, 1, {}, searches, Status("searching", t))
      BY <2>3
    <3> QED
      BY <2>1, <3>1, SearchRenders
  <2> QED
    BY <1>4, <2>2, <2>3 DEF Submit
<1>5. CASE LoadAnswered
  <2>1. PICK d, term : content' = Shown(d, term) \/ content' = ErrorFor(d)
    BY <1>5 DEF LoadAnswered
  <2>2. files' = files
    BY <1>5 DEF LoadAnswered
  <2> QED
    BY <2>1, <2>2 DEF Shown, ErrorFor, PageRendered
<1>6. CASE SearchAnswered
  <2>1. files' = files
    BY <1>6 DEF SearchAnswered
  <2>2. PICK term, i, found, others : SearchOn(term, i, found, others, searchStatus)
    BY <1>6 DEF SearchAnswered
  <2> QED
    BY <2>1, <2>2, SearchRenders
<1>7. CASE UNCHANGED vars
  BY <1>7 DEF vars, PageRendered
<1> QED
  BY <1>1, <1>2, <1>3, <1>4, <1>5, <1>6, <1>7 DEF Next

LEMMA PagesAreRendered == Spec => []PageRendered
<1>1. Init => PageRendered
  BY DEF Init, PageRendered
<1> QED
  BY <1>1, StepRenders, PTL DEF Spec

------------------------------------------------------------------------------
(* The theorems.                                                           *)

\* Every variable has its type in every reachable state (the state of app.js).
THEOREM ViewerTypeCorrect == Spec => []TypeOK
<1>1. VInv => TypeOK
  BY DEF VInv
<1> QED
  BY <1>1, Reachable, PTL

\* What the newest load and each search in flight know is inductive (loadDocument
\* and searchAcrossDocs).
THEOREM ViewerInvariant == Spec => []ViewerInv
<1>1. VInv => ViewerInv
  BY DEF VInv
<1> QED
  BY <1>1, Reachable, PTL

\* Once no load awaits its fetch the page is the one of the newest load, which its
\* list, title and link name, or of one that awaited its fetch when the newest began
\* (loadDocument).
THEOREM PageSettles == Spec => []SettledPageIsTheOneAsked
<1>1. VInv => SettledPageIsTheOneAsked
  BY DEF VInv, ViewerInv, LoadsOK, Latest, SettledPageIsTheOneAsked
<1> QED
  BY <1>1, Reachable, PTL

\* Once the searches and the loads have ended the page marks the term submitted last,
\* however many of them overlapped, unless the last load is that of a result or had a
\* rival that asked for something else (the submit and input handlers of the box).
THEOREM MarksAreTheLast == Spec => []MarksFollowTheLastSubmit
<1>1. ASSUME VInv
      PROVE  MarksFollowTheLastSubmit
  <2> SUFFICES ASSUME searches = <<>>, loads = <<>>, content.rendered, asked.by # "result",
                      asked.rivals \subseteq {Newest}
               PROVE  content.term = activeSearchTerm
    BY DEF MarksFollowTheLastSubmit
  <2>1. Latest = {Newest}
    BY DEF Latest
  <2>2. IsPageOf(Newest)
    BY <1>1, <2>1, VInvParts DEF LoadsOK
  <2>3. content.term = asked.term
    BY <2>2 DEF IsPageOf, Newest
  <2>4. asked.term = activeSearchTerm
    BY <1>1 DEF VInv, MarksAsked
  <2> QED
    BY <2>3, <2>4
<1> QED
  BY <1>1, Reachable, PTL

\* The status line agrees with the list under it, and without a failed fetch no
\* matching document is missing from a list that is not full (searchAcrossDocs).
THEOREM SearchIsComplete == Spec => []StatusAgreesWithResults
<1>1. VInv => StatusAgreesWithResults
  BY DEF VInv
<1> QED
  BY <1>1, Reachable, PTL

\* Whatever is clicked, searched for, answered and failed, and in whatever order, the
\* page shown has every line of its file, in order, whatever the length of that file
\* (markdownToHtml as loadDocument uses it).
THEOREM PageStaysWhole == Spec => []PageIsWhole
<1>1. ASSUME TypeOK, PageRendered
      PROVE  PageIsWhole
  <2> SUFFICES ASSUME WellFenced(files[content.doc]), content.rendered
               PROVE  RendersWhole(files[content.doc], content.html)
    BY DEF PageIsWhole
  <2>1. files[content.doc] \in Seq(Line)
    BY <1>1 DEF TypeOK
  <2>2. content.html = MarkdownToHtml(files[content.doc])
    BY <1>1 DEF PageRendered
  <2> QED
    BY <2>1, <2>2, RendererIsWhole
<1> QED
  BY <1>1, ViewerTypeCorrect, PagesAreRendered, PTL

=============================================================================

--------------------------- MODULE Markdown_proofs ----------------------------
(***************************************************************************)
(* Theorems about the renderer, for files of any length: what it emits     *)
(* shows the whole file.                                                   *)
(*                                                                         *)
(* An induction is a choice of a least counterexample: a set of naturals   *)
(* that is not empty has a least element (LeastElement).  From it, a loop  *)
(* emits what its recursion says, and a property that every iteration hands *)
(* on, from the end of the file to its start, holds of all it emits        *)
(* (EmittedIn); the property is given as a function, from positions to     *)
(* sets of outputs.                                                        *)
(***************************************************************************)
EXTENDS Markdown, FiniteSetTheorems, SequenceTheorems, WellFoundedInduction, TLAPS

LEMMA LeastElement ==
    ASSUME NEW T, T \subseteq Nat, T # {}
    PROVE  \E m \in T : \A n \in T : m <= n
<1> DEFINE R == OpToRel(<, Nat)
<1>1. IsWellFoundedOn(R, Nat)
  BY NatLessThanWellFounded, Zenon
<1>2. \A m, n \in Nat : n < m => <<n, m>> \in R
  BY DEF OpToRel
<1> HIDE DEF R
<1>3. PICK m \in T : \A n \in T : ~ (<<n, m>> \in R)
  BY <1>1, WFMin
<1>4. ASSUME NEW n \in T
      PROVE  m <= n
  <2>1. m \in Nat /\ n \in Nat
    OBVIOUS
  <2>2. ~(n < m)
    BY <1>2, <1>3, <2>1
  <2> QED
    BY <2>1, <2>2
<1> QED
  BY <1>4

LEMMA GreatestElement ==
    ASSUME NEW n \in Nat, NEW T, T \subseteq 0..n, T # {}
    PROVE  \E m \in T : \A k \in T : k <= m
<1> DEFINE U == {n - k : k \in T}
<1>1. U \subseteq Nat /\ U # {}
  <2>1. \A k \in T : n - k \in Nat
    OBVIOUS
  <2> QED
    BY <2>1
<1>2. PICK u \in U : \A v \in U : u <= v
  BY <1>1, LeastElement
<1>3. PICK m \in T : u = n - m
  OBVIOUS
<1>4. \A k \in T : n - m <= n - k
  BY <1>2, <1>3
<1> QED
  BY <1>4

------------------------------------------------------------------------------
(* Loops.                                                                  *)

\* Every iteration emits a sequence over T and moves on.
IsLoop(step, T) ==
    /\ step \in Seq([out : Seq(T), next : Nat])
    /\ \A i \in 1..Len(step) : step[i].next \in (i + 1)..(Len(step) + 1)

\* f is what the loop emits from each position from m on.
EmitsFrom(f, m, step, T) ==
    /\ f \in [m..(Len(step) + 1) -> Seq(T)]
    /\ f[Len(step) + 1] = <<>>
    /\ \A i \in m..Len(step) : f[i] = step[i].out \o f[step[i].next]

LEMMA LoopFacts ==
    ASSUME NEW step, NEW T, IsLoop(step, T)
    PROVE  /\ Len(step) \in Nat
           /\ \A i \in 1..Len(step) :
                /\ step[i].out \in Seq(T)
                /\ step[i].next \in (i + 1)..(Len(step) + 1)
<1>1. Len(step) \in Nat
  BY LenProperties DEF IsLoop
<1>2. \A i \in 1..Len(step) : step[i] \in [out : Seq(T), next : Nat]
  BY ElementOfSeq DEF IsLoop
<1> QED
  BY <1>1, <1>2 DEF IsLoop

LEMMA LoopGoesBack ==
    ASSUME NEW step, NEW T, IsLoop(step, T), NEW m \in 1..Len(step),
           NEW f, EmitsFrom(f, m + 1, step, T)
    PROVE  \E g : EmitsFrom(g, m, step, T)
<1> DEFINE n == Len(step)
           first == step[m].out \o f[step[m].next]
           g == [i \in m..(n + 1) |-> IF i = m THEN first ELSE f[i]]
<1>1. /\ n \in Nat /\ m \in 1..n
      /\ \A i \in 1..n : step[i].out \in Seq(T) /\ step[i].next \in (i + 1)..(n + 1)
  BY LoopFacts
<1> HIDE DEF n
<1>2. f \in [(m + 1)..(n + 1) -> Seq(T)] /\ f[n + 1] = <<>>
  BY DEF EmitsFrom, n
<1>3. first \in Seq(T)
  <2>1. f[step[m].next] \in Seq(T)
    BY <1>1, <1>2
  <2> QED
    BY <1>1, <2>1, ConcatProperties
<1> HIDE DEF first
<1>4. g \in [m..(n + 1) -> Seq(T)] /\ g[n + 1] = <<>>
  BY <1>1, <1>2, <1>3
<1>5. ASSUME NEW i \in m..n
      PROVE  g[i] = step[i].out \o g[step[i].next]
  <2>1. step[i].next \in (i + 1)..(n + 1)
    BY <1>1
  <2>2. g[step[i].next] = f[step[i].next]
    BY <1>1, <2>1
  <2>3. CASE i = m
    <3>1. g[m] = first
      BY <1>1
    <3> QED
      BY <2>2, <2>3, <3>1 DEF first
  <2>4. CASE i # m
    <3>1. i \in (m + 1)..n
      BY <1>1, <2>4
    <3>2. f[i] = step[i].out \o f[step[i].next]
      BY <3>1 DEF EmitsFrom, n
    <3>3. g[i] = f[i]
      BY <1>1, <3>1
    <3> QED
      BY <2>2, <3>2, <3>3
  <2> QED
    BY <2>3, <2>4
<1>6. EmitsFrom(g, m, step, T)
  BY <1>4, <1>5 DEF EmitsFrom, n
<1> QED
  BY <1>6

LEMMA LoopEmits ==
    ASSUME NEW step, NEW T, IsLoop(step, T)
    PROVE  \E f : EmitsFrom(f, 1, step, T) /\ Emitted(step) = f[1]
<1> DEFINE n == Len(step)
           K == {m \in 1..(n + 1) : \E f : EmitsFrom(f, m, step, T)}
<1>1. n \in Nat
  BY LoopFacts
<1>2. n + 1 \in K
  <2> DEFINE f == [i \in (n + 1)..(n + 1) |-> <<>>]
  <2>1. f \in [(n + 1)..(n + 1) -> Seq(T)] /\ f[n + 1] = <<>>
    BY <1>1, EmptySeq
  <2>2. (n + 1)..n = {}
    BY <1>1
  <2>3. EmitsFrom(f, n + 1, step, T)
    BY <2>1, <2>2 DEF EmitsFrom
  <2> QED
    BY <1>1, <2>3
<1>3. PICK m \in K : \A k \in K : m <= k
  <2>1. K \subseteq Nat
    BY <1>1
  <2> HIDE DEF K
  <2> QED
    BY <1>2, <2>1, LeastElement
<1>4. m = 1
  <2> SUFFICES ASSUME m # 1
               PROVE  FALSE
    OBVIOUS
  <2>1. m - 1 \in 1..n /\ m = (m - 1) + 1
    BY <1>1
  <2>2. PICK f : EmitsFrom(f, m, step, T)
    OBVIOUS
  <2>3. \E g : EmitsFrom(g, m - 1, step, T)
    BY <2>1, <2>2, LoopGoesBack
  <2>4. m - 1 \in K
    BY <1>1, <2>1, <2>3
  <2> QED
    BY <1>1, <1>3, <2>4
<1> DEFINE Unrolled(f) == [i \in 1..(n + 1) |->
                             IF i > n THEN <<>> ELSE step[i].out \o f[step[i].next]]
           all == CHOOSE f : f = Unrolled(f)
<1>5. Emitted(step) = all[1]
  BY DEF Emitted
<1>6. PICK f : EmitsFrom(f, 1, step, T)
  BY <1>4
<1>7. f = Unrolled(f)
  <2>1. f \in [1..(n + 1) -> Seq(T)] /\ f[n + 1] = <<>>
        /\ \A i \in 1..n : f[i] = step[i].out \o f[step[i].next]
    BY <1>6 DEF EmitsFrom
  <2>2. \A i \in 1..(n + 1) : (i > n => i = n + 1) /\ (~(i > n) => i \in 1..n)
    BY <1>1
  <2> QED
    BY <2>1, <2>2
<1>8. all = Unrolled(all)
  BY <1>7, Zenon
<1> HIDE DEF all
<1>9. all = f
  <2> DEFINE D == {i \in 1..(n + 1) : all[i] # f[i]}
  <2>1. D = {}
    <3> SUFFICES ASSUME D # {}
                 PROVE  FALSE
      OBVIOUS
    <3>1. PICK i \in D : \A k \in D : k <= i
      <4>1. D \subseteq 0..(n + 1) /\ n + 1 \in Nat
        BY <1>1
      <4> HIDE DEF D
      <4> QED
        BY <4>1, GreatestElement
    <3>2. CASE i > n
      BY <1>7, <1>8, <3>2
    <3>3. CASE ~(i > n)
      <4>1. i \in 1..n
        BY <1>1, <3>3
      <4>2. step[i].next \in (i + 1)..(n + 1)
        BY <4>1, LoopFacts
      <4>3. step[i].next \in 1..(n + 1) /\ ~(step[i].next <= i)
        BY <1>1, <4>1, <4>2
      <4>4. all[step[i].next] = f[step[i].next]
        BY <3>1, <4>3
      <4>5. i \in 1..(n + 1) /\ all[i] # f[i]
        BY <3>1
      <4>6. f[i] = step[i].out \o f[step[i].next]
        BY <1>7, <3>3, <4>5
      <4>7. all[i] = step[i].out \o all[step[i].next]
        BY <1>8, <3>3, <4>5
      <4> QED
        BY <4>4, <4>5, <4>6, <4>7
    <3> QED
      BY <3>2, <3>3
  <2> QED
    BY <1>7, <1>8, <2>1
<1> QED
  BY <1>5, <1>6, <1>9

\* What every iteration hands on, from the end to the start, holds of the output.
LEMMA EmittedIn ==
    ASSUME NEW step, NEW T, IsLoop(step, T),
           NEW Good \in [1..(Len(step) + 1) -> SUBSET Seq(T)],
           <<>> \in Good[Len(step) + 1],
           \A i \in 1..Len(step) : \A s \in Good[step[i].next] : step[i].out \o s \in Good[i]
    PROVE  Emitted(step) \in Good[1]
<1> DEFINE n == Len(step)
<1>1. /\ n \in Nat
      /\ \A i \in 1..n : step[i].next \in (i + 1)..(n + 1)
  BY LoopFacts
<1>2. PICK f : EmitsFrom(f, 1, step, T) /\ Emitted(step) = f[1]
  BY LoopEmits
<1>3. f[n + 1] = <<>> /\ \A i \in 1..n : f[i] = step[i].out \o f[step[i].next]
  BY <1>2 DEF EmitsFrom
<1> DEFINE D == {i \in 1..(n + 1) : f[i] \notin Good[i]}
<1>4. D = {}
  <2> SUFFICES ASSUME D # {}
               PROVE  FALSE
    OBVIOUS
  <2>1. PICK i \in D : \A k \in D : k <= i
    <3>1. D \subseteq 0..(n + 1) /\ n + 1 \in Nat
      BY <1>1
    <3> HIDE DEF D
    <3> QED
      BY <3>1, GreatestElement
  <2>2. i # n + 1
    BY <1>3
  <2>3. i \in 1..n
    BY <1>1, <2>2
  <2>4. step[i].next \in 1..(n + 1) /\ ~(step[i].next <= i)
    <3>1. step[i].next \in (i + 1)..(n + 1)
      BY <1>1, <2>3
    <3> QED
      BY <1>1, <2>3, <3>1
  <2>5. f[step[i].next] \in Good[step[i].next]
    BY <2>1, <2>4
  <2> QED
    BY <1>3, <2>3, <2>5
<1>5. 1 \in 1..(n + 1)
  BY <1>1
<1> QED
  BY <1>2, <1>4, <1>5

LEMMA FunctionIsSequence ==
    ASSUME NEW T, NEW n \in Nat, NEW f \in [1..n -> T]
    PROVE  f \in Seq(T) /\ Len(f) = n
OBVIOUS

LEMMA ConsFacts ==
    ASSUME NEW T, NEW t \in T, NEW s \in Seq(T)
    PROVE  /\ <<t>> \o s \in Seq(T)
           /\ Len(<<t>> \o s) = Len(s) + 1
           /\ (<<t>> \o s)[1] = t
           /\ \A k \in 1..Len(s) : (<<t>> \o s)[k + 1] = s[k]
           /\ \A k \in 2..(Len(s) + 1) : (<<t>> \o s)[k] = s[k - 1] /\ k - 1 \in 1..Len(s)
<1>1. <<t>> \in Seq(T) /\ Len(<<t>>) = 1 /\ <<t>>[1] = t /\ Len(s) \in Nat
  BY LenProperties
<1>2. /\ <<t>> \o s \in Seq(T)
      /\ Len(<<t>> \o s) = 1 + Len(s)
      /\ \A i \in 1..(1 + Len(s)) : (<<t>> \o s)[i] = IF i <= 1 THEN t ELSE s[i - 1]
  BY <1>1, ConcatProperties
<1>3. \A k \in 1..Len(s) : k + 1 \in 1..(1 + Len(s)) /\ ~(k + 1 <= 1) /\ (k + 1) - 1 = k
  BY <1>1
<1>4. \A k \in 2..(Len(s) + 1) : k \in 1..(1 + Len(s)) /\ ~(k <= 1) /\ k - 1 \in 1..Len(s)
  BY <1>1
<1> QED
  BY <1>1, <1>2, <1>3, <1>4

------------------------------------------------------------------------------
(* Fences.                                                                 *)

LEMMA FenceCounts ==
    ASSUME NEW src, Len(src) \in Nat, NEW i \in 1..(Len(src) + 1)
    PROVE  /\ IsFiniteSet({k \in 1..(i - 1) : src[k] \in Fences})
           /\ FencesBefore(src, i) \in Nat
           /\ FencesAfter(src, i) \in Nat
           /\ FencesAfter(src, i) > 0 <=> \E k \in (i + 1)..Len(src) : src[k] \in Fences
<1> DEFINE B == {k \in 1..(i - 1) : src[k] \in Fences}
           A == {k \in (i + 1)..Len(src) : src[k] \in Fences}
<1>1. IsFiniteSet(1..(i - 1)) /\ IsFiniteSet((i + 1)..Len(src))
  BY FS_Interval
<1>2. IsFiniteSet(A) /\ IsFiniteSet(B)
  <2>1. B \subseteq 1..(i - 1) /\ A \subseteq (i + 1)..Len(src)
    OBVIOUS
  <2> QED
    BY <1>1, <2>1, FS_Subset
<1>3. Cardinality(A) \in Nat /\ Cardinality(B) \in Nat /\ (Cardinality(A) = 0 <=> A = {})
  BY <1>2, FS_CardinalityType, FS_EmptySet
<1>4. A # {} <=> \E k \in (i + 1)..Len(src) : src[k] \in Fences
  OBVIOUS
<1>5. FencesAfter(src, i) = Cardinality(A) /\ FencesBefore(src, i) = Cardinality(B)
  BY DEF FencesAfter, FencesBefore
<1> HIDE DEF A
<1> QED
  BY <1>2, <1>3, <1>4, <1>5

LEMMA FencesStay ==
    ASSUME NEW src, Len(src) \in Nat, NEW i \in 1..(Len(src) + 1), NEW j \in i..(Len(src) + 1),
           \A k \in i..(j - 1) : src[k] \notin Fences
    PROVE  FencesBefore(src, j) = FencesBefore(src, i)
<1>1. \A k \in 1..(j - 1) : src[k] \in Fences => k \in 1..(i - 1)
  OBVIOUS
<1>2. \A k \in 1..(i - 1) : k \in 1..(j - 1)
  OBVIOUS
<1>3. {k \in 1..(j - 1) : src[k] \in Fences} = {k \in 1..(i - 1) : src[k] \in Fences}
  BY <1>1, <1>2
<1> QED
  BY <1>3 DEF FencesBefore

LEMMA FenceCounted ==
    ASSUME NEW src, Len(src) \in Nat, NEW i \in 1..Len(src), src[i] \in Fences
    PROVE  FencesBefore(src, i + 1) = FencesBefore(src, i) + 1
<1> DEFINE B == {k \in 1..(i - 1) : src[k] \in Fences}
<1>1. IsFiniteSet(B)
  <2>1. i \in 1..(Len(src) + 1)
    OBVIOUS
  <2> QED
    BY <2>1, FenceCounts
<1>2. i \notin B
  OBVIOUS
<1>3. \A k \in 1..((i + 1) - 1) : k = i \/ k \in 1..(i - 1)
  OBVIOUS
<1>4. {k \in 1..((i + 1) - 1) : src[k] \in Fences} = B \union {i}
  BY <1>3
<1>5. FencesBefore(src, i) = Cardinality(B)
      /\ FencesBefore(src, i + 1) = Cardinality(B \union {i})
  BY <1>4 DEF FencesBefore
<1> HIDE DEF B
<1> QED
  BY <1>1, <1>2, <1>5, FS_AddElement

LEMMA ClosingFacts ==
    ASSUME NEW src, Len(src) \in Nat, NEW i \in 1..Len(src)
    PROVE  LET j == Closing(src, i)
           IN  /\ j \in (i + 1)..(Len(src) + 1)
               /\ j <= Len(src) => src[j] \in Fences
               /\ \A k \in (i + 1)..(j - 1) : src[k] \notin Fences
<1> DEFINE n == Len(src)
           J == {j \in (i + 1)..(n + 1) : j <= n => src[j] \in Fences}
<1>1. J \subseteq Nat /\ n + 1 \in J
  OBVIOUS
<1>2. PICK m \in J : \A j \in J : m <= j
  <2> HIDE DEF J
  <2> QED
    BY <1>1, LeastElement
<1>3. ASSUME NEW k \in (i + 1)..(m - 1)
      PROVE  src[k] \notin Fences
  <2>1. k \in (i + 1)..(n + 1) /\ ~(m <= k)
    OBVIOUS
  <2> QED
    BY <1>2, <2>1
<1>4. \E j \in (i + 1)..(n + 1) :
        /\ j <= n => src[j] \in Fences
        /\ \A k \in (i + 1)..(j - 1) : src[k] \notin Fences
  BY <1>3
<1> QED
  BY <1>4 DEF Closing

\* Where the renderer is not inside code: an even number of fences is before i, or
\* the last one, without a partner, and none follows.
Outside(src, i) ==
    FencesBefore(src, i) % 2 = 0 \/ \A k \in i..Len(src) : src[k] \notin Fences

Code == {"token", "spoiltToken"}
Token == [kind : Line \union Code, from : Nat, to : Nat]

LEMMA KindsDiffer ==
    /\ Code \intersect Line = {} /\ Fences \subseteq Line
    /\ (HasPipe \union Bullets \union {"number", "heading", "quote", "blank", "text"})
         \subseteq Line \ Fences
BY DEF Code, Line, Fences, HasPipe, Bullets

\* A token is one line, shown for what it is unless it is the last fence, or code
\* from a fence to the next one.
LEMMA TokenFacts ==
    ASSUME NEW src \in Seq(Line), NEW i \in 1..Len(src)
    PROVE  LET t == TokenAt(src, i)
           IN  /\ t \in Token /\ t.from = i /\ t.to \in i..Len(src)
               /\ \/ t.kind = src[i] /\ t.to = i /\ src[i] \notin Fences
                  \/ /\ t.kind = "text" /\ t.to = i
                     /\ src[i] \in Fences /\ \A k \in (i + 1)..Len(src) : src[k] \notin Fences
                  \/ /\ t.kind = TokenOf(src, i, t.to) /\ t.kind \in Code
                     /\ i < t.to /\ src[i] \in Fences /\ src[t.to] \in Fences
                     /\ \A k \in (i + 1)..(t.to - 1) : src[k] \notin Fences
<1> DEFINE n == Len(src)
           t == TokenAt(src, i)
           j == Closing(src, i)
<1>1. n \in Nat /\ src[i] \in Line
  BY LenProperties, ElementOfSeq
<1>2. /\ j \in (i + 1)..(n + 1)
      /\ j <= n => src[j] \in Fences
      /\ \A k \in (i + 1)..(j - 1) : src[k] \notin Fences
  BY <1>1, ClosingFacts
<1>3. TokenOf(src, i, j) \in Code
  BY DEF TokenOf, Code
<1>4. CASE src[i] \notin Fences
  <2>1. t = [kind |-> src[i], from |-> i, to |-> i]
    BY <1>4 DEF TokenAt
  <2> HIDE DEF t
  <2>2. t.kind = src[i] /\ t.from = i /\ t.to = i /\ t \in Token
    BY <1>1, <2>1 DEF Token
  <2> QED
    BY <1>1, <1>4, <2>2 DEF t
<1>5. CASE src[i] \in Fences /\ j > n
  <2>1. t = [kind |-> "text", from |-> i, to |-> i]
    BY <1>5 DEF TokenAt
  <2> HIDE DEF t
  <2>2. t.kind = "text" /\ t.from = i /\ t.to = i /\ t \in Token
    BY <1>1, <2>1, KindsDiffer DEF Token
  <2>3. \A k \in (i + 1)..n : k \in (i + 1)..(j - 1)
    BY <1>1, <1>2, <1>5
  <2> QED
    BY <1>1, <1>2, <1>5, <2>2, <2>3 DEF t
<1>6. CASE src[i] \in Fences /\ ~(j > n)
  <2>1. t = [kind |-> TokenOf(src, i, j), from |-> i, to |-> j]
    BY <1>6 DEF TokenAt
  <2> HIDE DEF t, j
  <2>2. t.kind = TokenOf(src, i, j) /\ t.from = i /\ t.to = j /\ t \in Token
    BY <1>1, <1>2, <1>3, <2>1 DEF Token
  <2>3. j <= n /\ j \in i..n /\ i < j
    BY <1>1, <1>2, <1>6
  <2> QED
    BY <1>2, <1>3, <1>6, <2>2, <2>3 DEF t
<1> QED
  BY <1>4, <1>5, <1>6

\* After a token that starts outside of code, the renderer is outside again.
LEMMA TokensEndOutside ==
    ASSUME NEW src \in Seq(Line), NEW i \in 1..Len(src), Outside(src, i)
    PROVE  Outside(src, TokenAt(src, i).to + 1)
<1> DEFINE n == Len(src)
           j == TokenAt(src, i).to
<1>1. n \in Nat /\ i \in 1..(n + 1) /\ j \in i..n
  BY LenProperties, TokenFacts
<1>2. CASE \A k \in i..n : src[k] \notin Fences
  <2>1. \A k \in (j + 1)..n : k \in i..n
    BY <1>1
  <2> QED
    BY <1>2, <2>1 DEF Outside
<1>3. CASE FencesBefore(src, i) % 2 = 0 /\ j = i /\ src[i] \notin Fences
  <2>1. FencesBefore(src, i + 1) = FencesBefore(src, i)
    BY <1>1, <1>3, FencesStay
  <2> QED
    BY <1>3, <2>1 DEF Outside
<1>4. CASE j = i /\ \A k \in (i + 1)..n : src[k] \notin Fences
  BY <1>4 DEF Outside
<1>5. CASE /\ FencesBefore(src, i) % 2 = 0 /\ i < j /\ src[i] \in Fences /\ src[j] \in Fences
           /\ \A k \in (i + 1)..(j - 1) : src[k] \notin Fences
  <2>1. FencesBefore(src, i + 1) = FencesBefore(src, i) + 1
    BY <1>1, <1>5, FenceCounted
  <2>2. FencesBefore(src, j) = FencesBefore(src, i + 1)
    <3>1. n \in Nat /\ i + 1 \in 1..(n + 1) /\ j \in (i + 1)..(n + 1)
      BY <1>1, <1>5
    <3> HIDE DEF j
    <3> QED
      BY <1>5, <3>1, FencesStay
  <2>3. FencesBefore(src, j + 1) = FencesBefore(src, j) + 1
    BY <1>1, <1>5, FenceCounted
  <2>4. FencesBefore(src, i) \in Nat
    BY <1>1, FenceCounts
  <2> HIDE DEF j
  <2>5. FencesBefore(src, j + 1) % 2 = 0
    BY <1>5, <2>1, <2>2, <2>3, <2>4
  <2> QED
    BY <2>5 DEF Outside, j
<1> QED
  BY <1>2, <1>3, <1>4, <1>5, TokenFacts DEF Outside

------------------------------------------------------------------------------
(* Tokenized.                                                              *)

\* ts are the tokens from line i on: each starts outside of code, and every line
\* from i on is in exactly one.
Spreads(src, ts, i) ==
    /\ \A k \in 1..Len(ts) :
         /\ ts[k].from \in i..Len(src)
         /\ ts[k] = TokenAt(src, ts[k].from) /\ Outside(src, ts[k].from)
    /\ \A j, k \in 1..Len(ts) : j < k => ts[j].to < ts[k].from
    /\ \A l \in i..Len(src) : \E k \in 1..Len(ts) : l \in ts[k].from..ts[k].to

LEMMA SpreadsBack ==
    ASSUME NEW src \in Seq(Line), NEW i \in 1..Len(src), Outside(src, i),
           NEW s \in Seq(Token), Spreads(src, s, TokenAt(src, i).to + 1)
    PROVE  Spreads(src, <<TokenAt(src, i)>> \o s, i)
<1> DEFINE n == Len(src)
           t == TokenAt(src, i)
           ts == <<t>> \o s
<1>1. n \in Nat /\ t \in Token /\ t.from = i /\ t.to \in i..n
  BY LenProperties, TokenFacts
<1>2. Len(s) \in Nat /\ \A k \in 1..Len(s) : s[k].from \in Nat /\ s[k].to \in Nat
  <2>1. \A k \in 1..Len(s) : s[k] \in Token
    BY ElementOfSeq
  <2> QED
    BY <2>1, LenProperties DEF Token
<1>3. t = TokenAt(src, t.from) /\ Outside(src, t.from)
  BY <1>1
<1> HIDE DEF t, n
<1>4. /\ Len(ts) = Len(s) + 1 /\ ts[1] = t
      /\ \A k \in 1..Len(s) : ts[k + 1] = s[k]
      /\ \A k \in 2..Len(ts) : ts[k] = s[k - 1] /\ k - 1 \in 1..Len(s)
  BY <1>1, ConsFacts
<1> HIDE DEF ts
<1>5. /\ \A k \in 1..Len(s) :
           /\ s[k].from \in (t.to + 1)..n
           /\ s[k] = TokenAt(src, s[k].from) /\ Outside(src, s[k].from)
      /\ \A j, k \in 1..Len(s) : j < k => s[j].to < s[k].from
      /\ \A l \in (t.to + 1)..n : \E k \in 1..Len(s) : l \in s[k].from..s[k].to
  BY DEF Spreads, t, n
<1>6. ASSUME NEW k \in 1..Len(ts)
      PROVE  /\ ts[k].from \in i..n
             /\ ts[k] = TokenAt(src, ts[k].from) /\ Outside(src, ts[k].from)
  <2>1. CASE k = 1
    BY <1>1, <1>3, <1>4, <2>1
  <2>2. CASE k # 1
    <3>1. k \in 2..Len(ts)
      BY <1>2, <1>4, <2>2
    <3>2. ts[k] = s[k - 1] /\ k - 1 \in 1..Len(s)
      BY <1>4, <3>1
    <3>3. s[k - 1].from \in (t.to + 1)..n /\ s[k - 1] = TokenAt(src, s[k - 1].from)
          /\ Outside(src, s[k - 1].from)
      BY <1>5, <3>2
    <3>4. s[k - 1].from \in i..n
      BY <1>1, <3>3
    <3> QED
      BY <3>2, <3>3, <3>4
  <2> QED
    BY <2>1, <2>2
<1>7. ASSUME NEW j \in 1..Len(ts), NEW k \in 1..Len(ts), j < k
      PROVE  ts[j].to < ts[k].from
  <2>1. k \in 2..Len(ts)
    BY <1>2, <1>4, <1>7
  <2>2. ts[k] = s[k - 1] /\ k - 1 \in 1..Len(s)
    BY <1>4, <2>1
  <2>3. CASE j = 1
    <3>1. s[k - 1].from \in (t.to + 1)..n
      BY <1>5, <2>2
    <3> QED
      BY <1>1, <1>4, <2>2, <2>3, <3>1
  <2>4. CASE j # 1
    <3>1. j \in 2..Len(ts) /\ j - 1 < k - 1
      BY <1>2, <1>4, <1>7, <2>4
    <3>2. ts[j] = s[j - 1] /\ j - 1 \in 1..Len(s)
      BY <1>4, <3>1
    <3> QED
      BY <1>5, <2>2, <3>1, <3>2
  <2> QED
    BY <2>3, <2>4
<1>8. ASSUME NEW l \in i..n
      PROVE  \E k \in 1..Len(ts) : l \in ts[k].from..ts[k].to
  <2>1. CASE l <= t.to
    <3>1. 1 \in 1..Len(ts) /\ l \in ts[1].from..ts[1].to
      BY <1>1, <1>2, <1>4, <2>1
    <3> QED
      BY <3>1
  <2>2. CASE ~(l <= t.to)
    <3>1. l \in (t.to + 1)..n
      BY <1>1, <2>2
    <3>2. PICK k \in 1..Len(s) : l \in s[k].from..s[k].to
      BY <1>5, <3>1
    <3>3. k + 1 \in 1..Len(ts) /\ ts[k + 1] = s[k]
      BY <1>2, <1>4
    <3>4. l \in ts[k + 1].from..ts[k + 1].to
      BY <3>2, <3>3
    <3> QED
      BY <3>3, <3>4
  <2> QED
    BY <2>1, <2>2
<1> QED
  BY <1>6, <1>7, <1>8 DEF Spreads, ts, t, n

\* The tokens of a file, whatever its length, are all its lines.
LEMMA TokensSpread ==
    ASSUME NEW src \in Seq(Line)
    PROVE  Tokenized(src) \in Seq(Token) /\ Spreads(src, Tokenized(src), 1)
<1> DEFINE n == Len(src)
           step == [i \in DOMAIN src |->
                      [out |-> <<TokenAt(src, i)>>, next |-> TokenAt(src, i).to + 1]]
           From(i) == {ts \in Seq(Token) : Outside(src, i) => Spreads(src, ts, i)}
           Good == [i \in 1..(n + 1) |-> From(i)]
<1>1. n \in Nat /\ DOMAIN src = 1..n
  BY LenProperties
<1>2. \A i \in 1..n : TokenAt(src, i) \in Token /\ TokenAt(src, i).to \in i..n
  BY TokenFacts
<1>3. /\ step \in [1..n -> [out : Seq(Token), next : Nat]]
      /\ \A i \in 1..n : step[i].out = <<TokenAt(src, i)>>
                         /\ step[i].next = TokenAt(src, i).to + 1
  <2>1. ASSUME NEW i \in 1..n
        PROVE  <<TokenAt(src, i)>> \in Seq(Token) /\ TokenAt(src, i).to + 1 \in Nat
    BY <1>1, <1>2
  <2> QED
    BY <1>1, <2>1
<1> HIDE DEF step
<1>4. step \in Seq([out : Seq(Token), next : Nat]) /\ Len(step) = n
  BY <1>1, <1>3, FunctionIsSequence
<1>5. IsLoop(step, Token)
  <2>1. \A i \in 1..n : step[i].next \in (i + 1)..(n + 1)
    BY <1>1, <1>2, <1>3
  <2> QED
    BY <1>4, <2>1 DEF IsLoop
<1>6. Good \in [1..(n + 1) -> SUBSET Seq(Token)]
  OBVIOUS
<1>7. <<>> \in Good[n + 1]
  <2>1. (n + 1)..n = {} /\ 1..Len(<<>>) = {}
    BY <1>1
  <2>2. Spreads(src, <<>>, n + 1)
    BY <2>1 DEF Spreads
  <2>3. <<>> \in Seq(Token) /\ n + 1 \in 1..(n + 1)
    BY <1>1, EmptySeq
  <2> QED
    BY <2>2, <2>3
<1>8. ASSUME NEW i \in 1..n, NEW s \in Good[step[i].next]
      PROVE  step[i].out \o s \in Good[i]
  <2>1. step[i].next = TokenAt(src, i).to + 1 /\ step[i].next \in 1..(n + 1)
        /\ step[i].out = <<TokenAt(src, i)>> /\ i \in 1..(n + 1)
    BY <1>1, <1>2, <1>3
  <2>2. s \in From(TokenAt(src, i).to + 1)
    BY <2>1
  <2>3. <<TokenAt(src, i)>> \o s \in Seq(Token)
    BY <1>2, <2>2, ConsFacts
  <2>4. Outside(src, i) => Spreads(src, <<TokenAt(src, i)>> \o s, i)
    BY <2>2, SpreadsBack, TokensEndOutside
  <2> QED
    BY <2>1, <2>3, <2>4
<1>9. Tokenized(src) = Emitted(step)
  BY DEF Tokenized, step
<1> HIDE DEF Good
<1>10. Emitted(step) \in Good[1]
  BY <1>4, <1>5, <1>6, <1>7, <1>8, EmittedIn
<1>11. Outside(src, 1)
  <2>1. 1..(1 - 1) = {}
    OBVIOUS
  <2>2. {k \in 1..(1 - 1) : src[k] \in Fences} = {}
    BY <2>1
  <2>3. FencesBefore(src, 1) = 0
    BY <2>2, FS_EmptySet DEF FencesBefore
  <2> QED
    BY <2>3 DEF Outside
<1>12. 1 \in 1..(n + 1)
  BY <1>1
<1> QED
  BY <1>9, <1>10, <1>11, <1>12 DEF Good

------------------------------------------------------------------------------
(* The lines of the loop of markdownToHtml.                                *)

\* The line of the source at which lines[i] starts; past the last, the end.
Start(src, lines, i) == IF i > Len(lines) THEN Len(src) + 1 ELSE lines[i].from

\* What a well fenced file is cut into.
IsCut(src, lines) ==
    /\ src \in Seq(Line) /\ WellFenced(src)
    /\ lines \in Seq(Token) /\ Spreads(src, lines, 1)

LEMMA CutFacts ==
    ASSUME NEW src, NEW lines, IsCut(src, lines)
    PROVE  /\ Len(src) \in Nat /\ Len(lines) \in Nat
           /\ DOMAIN src = 1..Len(src) /\ DOMAIN lines = 1..Len(lines)
           /\ \A k \in 1..Len(lines) :
                /\ lines[k] \in Token /\ lines[k].from \in 1..Len(src)
                /\ lines[k] = TokenAt(src, lines[k].from)
                /\ lines[k].to \in lines[k].from..Len(src)
           /\ \A i \in 1..(Len(lines) + 1) : Start(src, lines, i) \in 1..(Len(src) + 1)
<1>1. /\ Len(src) \in Nat /\ Len(lines) \in Nat
      /\ DOMAIN src = 1..Len(src) /\ DOMAIN lines = 1..Len(lines)
  BY LenProperties DEF IsCut
<1>2. ASSUME NEW k \in 1..Len(lines)
      PROVE  /\ lines[k] \in Token /\ lines[k].from \in 1..Len(src)
             /\ lines[k] = TokenAt(src, lines[k].from)
             /\ lines[k].to \in lines[k].from..Len(src)
  <2>1. lines[k] \in Token /\ lines[k].from \in 1..Len(src)
        /\ lines[k] = TokenAt(src, lines[k].from)
    BY ElementOfSeq DEF IsCut, Spreads
  <2>2. TokenAt(src, lines[k].from).to \in lines[k].from..Len(src)
    BY <2>1, TokenFacts DEF IsCut
  <2> QED
    BY <2>1, <2>2
<1>3. \A i \in 1..(Len(lines) + 1) : Start(src, lines, i) \in 1..(Len(src) + 1)
  BY <1>1, <1>2 DEF Start
<1> QED
  BY <1>1, <1>2, <1>3

\* The lines of the source from one start to a later one are those of the lines
\* in between.
LEMMA Between ==
    ASSUME NEW src, NEW lines, IsCut(src, lines),
           NEW i \in 1..Len(lines), NEW j \in (i + 1)..(Len(lines) + 1)
    PROVE  /\ \A k \in i..(j - 1) : /\ k \in 1..Len(lines)
                                    /\ Start(src, lines, i) <= lines[k].from
                                    /\ lines[k].to < Start(src, lines, j)
           /\ \A l \in Start(src, lines, i)..(Start(src, lines, j) - 1) :
                \E k \in i..(j - 1) : l \in lines[k].from..lines[k].to
<1> DEFINE n == Len(src)
           m == Len(lines)
           a == Start(src, lines, i)
           z == Start(src, lines, j)
<1>1. /\ n \in Nat /\ m \in Nat /\ a \in 1..(n + 1) /\ z \in 1..(n + 1)
      /\ \A k \in 1..m : lines[k].from \in 1..n /\ lines[k].to \in lines[k].from..n
  BY CutFacts
<1>2. /\ \A h, k \in 1..m : h < k => lines[h].to < lines[k].from
      /\ \A l \in 1..n : \E k \in 1..m : l \in lines[k].from..lines[k].to
  BY DEF IsCut, Spreads
<1>3. a = lines[i].from /\ z = IF j > m THEN n + 1 ELSE lines[j].from
  BY <1>1 DEF Start
<1> HIDE DEF a, z, m, n
<1>4. i \in 1..m /\ j \in (i + 1)..(m + 1)
  BY DEF m
<1>5. ASSUME NEW k \in i..(j - 1)
      PROVE  k \in 1..m /\ a <= lines[k].from /\ lines[k].to < z
  <2>1. k \in 1..m
    BY <1>1, <1>4
  <2>2. a <= lines[k].from
    <3>1. CASE k = i
      BY <1>1, <1>3, <1>4, <3>1
    <3>2. CASE k # i
      <4>1. lines[i].to < lines[k].from
        BY <1>2, <1>4, <2>1, <3>2
      <4> QED
        BY <1>1, <1>3, <1>4, <2>1, <4>1
    <3> QED
      BY <3>1, <3>2
  <2>3. lines[k].to < z
    <3>1. CASE j > m
      BY <1>1, <1>3, <2>1, <3>1
    <3>2. CASE ~(j > m)
      BY <1>1, <1>2, <1>3, <1>4, <2>1, <3>2
    <3> QED
      BY <3>1, <3>2
  <2> QED
    BY <2>1, <2>2, <2>3
<1>6. ASSUME NEW l \in a..(z - 1)
      PROVE  \E k \in i..(j - 1) : l \in lines[k].from..lines[k].to
  <2>1. l \in 1..n
    BY <1>1
  <2>2. PICK k \in 1..m : l \in lines[k].from..lines[k].to
    BY <1>2, <2>1
  <2>3. ~(k < i)
    <3> SUFFICES ASSUME k < i
                 PROVE  FALSE
      OBVIOUS
    <3>1. lines[k].to < a
      BY <1>2, <1>3, <1>4
    <3>2. /\ a \in Int /\ l \in Int /\ lines[k].to \in Int /\ lines[k].from \in Int
          /\ a <= l /\ l <= lines[k].to
      BY <1>1, <2>1, <2>2
    <3> QED
      BY <3>1, <3>2
  <2>4. ~(k >= j)
    <3> SUFFICES ASSUME k >= j
                 PROVE  FALSE
      OBVIOUS
    <3>1. j \in 1..m /\ z = lines[j].from
      <4>1. j \in 1..m
        BY <1>1, <1>4
      <4> QED
        BY <1>1, <1>3, <4>1
    <3>2. z <= lines[k].from
      <4>1. CASE k = j
        BY <1>1, <3>1, <4>1
      <4>2. CASE j < k
        <5>1. lines[j].to < lines[k].from
          BY <1>2, <3>1, <4>2
        <5>2. /\ z \in Int /\ lines[j].to \in Int /\ lines[k].from \in Int
              /\ z <= lines[j].to
          BY <1>1, <3>1
        <5> QED
          BY <5>1, <5>2
      <4> QED
        BY <1>1, <1>4, <4>1, <4>2
    <3> QED
      BY <1>1, <2>2, <3>2
  <2>5. k \in i..(j - 1)
    BY <1>1, <1>4, <2>3, <2>4
  <2> QED
    BY <2>2, <2>5
<1> QED
  BY <1>5, <1>6 DEF a, z, m

\* Code is recognised for what it is, its fences with it.
LEMMA CodeFacts ==
    ASSUME NEW src, NEW lines, IsCut(src, lines),
           NEW k \in 1..Len(lines), lines[k].kind \in Code
    PROVE  /\ lines[k].kind = "token"
           /\ Opens(src, lines[k].from) /\ Closes(src, lines[k].to)
           /\ lines[k].from < lines[k].to
           /\ \A l \in lines[k].from..lines[k].to :
                /\ ShownAsCode(src, l) <=> l \in CodeShown(src, lines[k])
                /\ \/ l = lines[k].from \/ l = lines[k].to
                   \/ src[l] = "blank" \/ l \in CodeShown(src, lines[k])
<1> DEFINE n == Len(src)
           i == lines[k].from
           j == lines[k].to
           B(l) == FencesBefore(src, l)
<1>1. /\ n \in Nat /\ DOMAIN src = 1..n /\ i \in 1..n /\ j \in i..n
      /\ lines[k] = TokenAt(src, i) /\ Outside(src, i)
  BY CutFacts DEF IsCut, Spreads
<1>2. /\ lines[k].kind = TokenOf(src, i, j) /\ i < j
      /\ src[i] \in Fences /\ src[j] \in Fences
      /\ \A l \in (i + 1)..(j - 1) : src[l] \notin Fences
  <2>1. src \in Seq(Line)
    BY DEF IsCut
  <2> HIDE DEF i, n
  <2>2. \/ lines[k].kind = src[i] /\ src[i] \notin Fences
        \/ lines[k].kind = "text"
        \/ /\ lines[k].kind = TokenOf(src, i, j) /\ i < j
           /\ src[i] \in Fences /\ src[j] \in Fences
           /\ \A l \in (i + 1)..(j - 1) : src[l] \notin Fences
    BY <1>1, <2>1, TokenFacts DEF n
  <2>3. src[i] \in Line
    BY <1>1, <2>1, ElementOfSeq DEF n
  <2>4. lines[k].kind # src[i] /\ lines[k].kind # "text"
    BY <2>3, KindsDiffer
  <2> QED
    BY <2>2, <2>4
<1> HIDE DEF i, j, n
<1>3. B(i) % 2 = 0 /\ B(i) \in Nat
  <2>1. B(i) % 2 = 0
    BY <1>1, <1>2 DEF Outside, n
  <2>2. B(i) \in Nat
    <3>1. i \in 1..(n + 1)
      BY <1>1
    <3> QED
      BY <1>1, <3>1, FenceCounts DEF n
  <2> QED
    BY <2>1, <2>2
<1>4. B(i + 1) = B(i) + 1
  BY <1>1, <1>2, FenceCounted DEF n
<1>5. \A l \in (i + 1)..j : B(l) = B(i + 1)
  <2> SUFFICES ASSUME NEW l \in (i + 1)..j
               PROVE  B(l) = B(i + 1)
    OBVIOUS
  <2>1. i + 1 \in 1..(n + 1) /\ l \in (i + 1)..(n + 1)
    BY <1>1
  <2>2. \A h \in (i + 1)..(l - 1) : h \in (i + 1)..(j - 1)
    BY <1>1
  <2> QED
    BY <1>1, <1>2, <2>1, <2>2, FencesStay DEF n
<1> HIDE DEF B
<1>6. \A l \in (i + 1)..j : B(l) % 2 = 1
  BY <1>3, <1>4, <1>5
<1>7. \A l \in i..(j - 1) : FencesAfter(src, l) > 0
  <2> SUFFICES ASSUME NEW l \in i..(j - 1)
               PROVE  FencesAfter(src, l) > 0
    OBVIOUS
  <2>1. l \in 1..(n + 1) /\ j \in (l + 1)..n
    BY <1>1
  <2> QED
    BY <1>1, <1>2, <2>1, FenceCounts DEF n
<1>8. Opens(src, i) /\ Closes(src, j)
  <2>1. i \in i..(j - 1) /\ j \in (i + 1)..j
    BY <1>1, <1>2
  <2> QED
    BY <1>2, <1>3, <1>6, <1>7, <2>1 DEF Opens, Closes, B
<1>9. lines[k].kind = "token"
  <2>1. src[i] # "indentedFence" /\ src[j] # "languageFence"
    BY <1>1, <1>8 DEF IsCut, WellFenced
  <2> QED
    BY <1>2, <2>1 DEF TokenOf
<1>10. ASSUME NEW l \in i..j
       PROVE  /\ IsCode(src, l) <=> l \in (i + 1)..(j - 1)
              /\ l = i \/ l = j \/ l \in (i + 1)..(j - 1)
  <2>1. CASE l = i \/ l = j
    <3>1. l \notin (i + 1)..(j - 1)
      BY <1>1, <2>1
    <3>2. ~IsCode(src, l)
      BY <1>2, <2>1 DEF IsCode
    <3> QED
      BY <2>1, <3>1, <3>2
  <2>2. CASE ~(l = i \/ l = j)
    <3>1. l \in (i + 1)..(j - 1) /\ l \in i..(j - 1) /\ l \in (i + 1)..j
      BY <1>1, <2>2
    <3>2. IsCode(src, l)
      BY <1>2, <1>6, <1>7, <3>1 DEF IsCode, B
    <3> QED
      BY <3>1, <3>2
  <2> QED
    BY <2>1, <2>2
<1> DEFINE shown == {l \in (i + 1)..(j - 1) : \E h \in l..(j - 1) : src[h] # "blank"}
<1>11. CodeShown(src, lines[k]) = shown
  BY DEF CodeShown, i, j
<1>12. ASSUME NEW l \in (i + 1)..(j - 1)
       PROVE  (\E h \in l..(j - 1) : src[h] # "blank")
              <=> (\E h \in l..n : src[h] # "blank" /\ \A g \in l..h : src[g] \notin Fences)
  <2>1. ASSUME NEW h \in l..(j - 1), src[h] # "blank"
        PROVE  h \in l..n /\ \A g \in l..h : src[g] \notin Fences
    <3>1. h \in l..n /\ \A g \in l..h : g \in (i + 1)..(j - 1)
      BY <1>1
    <3> QED
      BY <1>2, <3>1
  <2>2. ASSUME NEW h \in l..n, \A g \in l..h : src[g] \notin Fences
        PROVE  h \in l..(j - 1)
    <3>1. h < j
      <4>1. j \notin l..h
        BY <1>2, <2>2
      <4> QED
        BY <1>1, <4>1
    <3> QED
      BY <1>1, <3>1
  <2> QED
    BY <2>1, <2>2
<1>13. ASSUME NEW l \in i..j
       PROVE  /\ ShownAsCode(src, l) <=> l \in shown
              /\ l = i \/ l = j \/ src[l] = "blank" \/ l \in shown
  <2>1. CASE l \in (i + 1)..(j - 1)
    <3>1. l \in l..(j - 1) /\ IsCode(src, l)
      BY <1>1, <1>10, <2>1
    <3>2. ShownAsCode(src, l) <=> \E h \in l..(j - 1) : src[h] # "blank"
      BY <1>12, <2>1, <3>1 DEF ShownAsCode, n
    <3> QED
      BY <2>1, <3>1, <3>2
  <2>2. CASE l \notin (i + 1)..(j - 1)
    BY <1>10, <2>2 DEF ShownAsCode
  <2> QED
    BY <2>1, <2>2
<1> HIDE DEF shown
<1> QED
  BY <1>2, <1>8, <1>9, <1>11, <1>13 DEF i, j

\* Any other line is one line of the source, and no code.
LEMMA LineFacts ==
    ASSUME NEW src, NEW lines, IsCut(src, lines),
           NEW k \in 1..Len(lines), lines[k].kind \notin Code
    PROVE  /\ lines[k].to = lines[k].from /\ ~ShownAsCode(src, lines[k].from)
           /\ lines[k].kind \in Line \ Fences
           /\ \/ src[lines[k].from] = lines[k].kind
              \/ lines[k].kind = "text" /\ src[lines[k].from] \in Fences
<1> DEFINE n == Len(src)
           i == lines[k].from
<1>1. /\ n \in Nat /\ i \in 1..n /\ lines[k] = TokenAt(src, i) /\ Outside(src, i)
  BY CutFacts DEF IsCut, Spreads
<1>2. src \in Seq(Line) /\ src[i] \in Line
  BY <1>1, ElementOfSeq DEF IsCut
<1> HIDE DEF i
<1>3. \/ lines[k].kind = src[i] /\ lines[k].to = i /\ src[i] \notin Fences
      \/ lines[k].kind = "text" /\ lines[k].to = i /\ src[i] \in Fences
  BY <1>1, <1>2, TokenFacts
<1>4. ~ShownAsCode(src, i)
  <2> SUFFICES ASSUME IsCode(src, i)
               PROVE  FALSE
    BY DEF ShownAsCode
  <2>1. i \in 1..(n + 1)
    BY <1>1
  <2>2. \E l \in (i + 1)..n : src[l] \in Fences
    BY <1>1, <2>1, FenceCounts DEF IsCode
  <2>3. FencesBefore(src, i) % 2 = 1
    BY DEF IsCode
  <2>4. \A l \in (i + 1)..n : l \in i..n
    BY <1>1
  <2> QED
    BY <1>1, <2>2, <2>3, <2>4 DEF Outside
<1> QED
  BY <1>2, <1>3, <1>4, KindsDiffer DEF i

------------------------------------------------------------------------------
(* Blocks.                                                                 *)

BlockType == [tag : {"table", "pre", "heading", "quote", "ul", "ol", "p"}, shown : SUBSET Nat]

LeftOut(src, l) ==
    src[l] = "blank" \/ Opens(src, l) \/ Closes(src, l) \/ UnderHeader(src, l)

\* The items that a list of each kind holds.
Items(tag) == IF tag = "ul" THEN Bullets ELSE {"number"}

\* Block b shows what a page should show of the lines from a up to z, and takes every
\* item there is if it is a list.
Fits(src, b, a, z) ==
    /\ b \in BlockType /\ b.shown \subseteq a..(z - 1)
    /\ \A l \in a..(z - 1) :
         /\ ShownAsCode(src, l) <=> b.tag = "pre" /\ l \in b.shown
         /\ LeftOut(src, l) \/ l \in b.shown
    /\ b.tag \in {"ul", "ol"} =>
         /\ \A l \in b.shown : src[l] \in Items(b.tag)
         /\ z <= Len(src) => src[z] \notin Items(b.tag)

\* The blocks bs show what a page should show of the lines from a on.
Shows(src, bs, a) ==
    /\ bs \in Seq(BlockType)
    /\ \A b \in 1..Len(bs) : bs[b].shown \subseteq a..Len(src)
    /\ \A b, c \in 1..Len(bs) : b < c =>
         \A i \in bs[b].shown, j \in bs[c].shown : i < j
    /\ \A l \in a..Len(src) :
         /\ ShownAsCode(src, l) <=> \E b \in 1..Len(bs) : bs[b].tag = "pre" /\ l \in bs[b].shown
         /\ LeftOut(src, l) \/ \E b \in 1..Len(bs) : l \in bs[b].shown
    /\ \A b \in 1..Len(bs) : bs[b].tag \in {"ul", "ol"} =>
         /\ \A l \in bs[b].shown : src[l] \in Items(bs[b].tag)
         /\ b > 1 => \/ bs[b - 1].tag # bs[b].tag
                     \/ \A i \in bs[b].shown : i - 1 \notin bs[b - 1].shown

\* Lines that no block shows may come before the rest.
LEMMA ShowsPastBlank ==
    ASSUME NEW src, Len(src) \in Nat, NEW a \in 1..Len(src), NEW z \in a..(Len(src) + 1),
           NEW bs, Shows(src, bs, z),
           \A l \in a..(z - 1) : ~ShownAsCode(src, l) /\ LeftOut(src, l)
    PROVE  Shows(src, bs, a)
<1> DEFINE n == Len(src)
<1>1. \A l \in a..n : l \in a..(z - 1) \/ l \in z..n
  OBVIOUS
<1>2. \A l \in z..n : l \in a..n /\ l \notin a..(z - 1)
  OBVIOUS
<1>3. \A b \in 1..Len(bs) : bs[b].shown \subseteq z..n
  BY DEF Shows
<1>4. \A b \in 1..Len(bs) : bs[b].shown \subseteq a..n
  BY <1>2, <1>3
<1>5. ASSUME NEW l \in a..n
      PROVE  /\ ShownAsCode(src, l) <=> \E b \in 1..Len(bs) : bs[b].tag = "pre" /\ l \in bs[b].shown
             /\ LeftOut(src, l) \/ \E b \in 1..Len(bs) : l \in bs[b].shown
  <2>1. CASE l \in a..(z - 1)
    <3>1. \A b \in 1..Len(bs) : l \notin bs[b].shown
      BY <1>2, <1>3, <2>1
    <3> QED
      BY <2>1, <3>1
  <2>2. CASE l \in z..n
    BY <2>2 DEF Shows
  <2> QED
    BY <1>1, <2>1, <2>2
<1> QED
  BY <1>4, <1>5 DEF Shows

\* So may a block that fits.
LEMMA ShowsPastBlock ==
    ASSUME NEW src, Len(src) \in Nat, NEW a \in 1..Len(src), NEW z \in a..(Len(src) + 1),
           NEW bs, Shows(src, bs, z), NEW block, Fits(src, block, a, z)
    PROVE  Shows(src, <<block>> \o bs, a)
<1> DEFINE n == Len(src)
           all == <<block>> \o bs
<1>1. bs \in Seq(BlockType) /\ block \in BlockType /\ Len(bs) \in Nat
  BY LenProperties DEF Shows, Fits
<1>2. /\ all \in Seq(BlockType) /\ Len(all) = Len(bs) + 1 /\ all[1] = block
      /\ \A b \in 1..Len(bs) : all[b + 1] = bs[b]
      /\ \A b \in 2..Len(all) : all[b] = bs[b - 1] /\ b - 1 \in 1..Len(bs)
  <2>1. /\ all \in Seq(BlockType) /\ Len(all) = Len(bs) + 1 /\ all[1] = block
        /\ \A b \in 1..Len(bs) : all[b + 1] = bs[b]
        /\ \A b \in 2..(Len(bs) + 1) : all[b] = bs[b - 1] /\ b - 1 \in 1..Len(bs)
    BY <1>1, ConsFacts
  <2> HIDE DEF all
  <2> QED
    BY <2>1
<1> HIDE DEF all, n
<1>3. \A b \in 1..Len(all) : b = 1 \/ b \in 2..Len(all)
  BY <1>1, <1>2
<1>4. block.shown \subseteq a..(z - 1) /\ \A b \in 1..Len(bs) : bs[b].shown \subseteq z..n
  BY DEF Fits, Shows, n
<1>5. /\ \A l \in a..n : l \in a..(z - 1) \/ l \in z..n
      /\ \A l \in z..n : l \in a..n /\ l \notin a..(z - 1)
      /\ \A l \in a..(z - 1) : l \in a..n /\ l \notin z..n
  BY DEF n
<1>6. \A b \in 1..Len(all) : all[b].shown \subseteq a..n
  BY <1>2, <1>3, <1>4, <1>5
<1>7. ASSUME NEW b \in 1..Len(all), NEW c \in 1..Len(all), b < c,
             NEW i \in all[b].shown, NEW j \in all[c].shown
      PROVE  i < j
  <2>1. c \in 2..Len(all)
    BY <1>1, <1>2, <1>7
  <2>2. all[c] = bs[c - 1] /\ c - 1 \in 1..Len(bs)
    BY <1>2, <2>1
  <2>3. CASE b = 1
    <3>1. i \in a..(z - 1) /\ j \in z..n
      BY <1>2, <1>4, <2>2, <2>3
    <3> QED
      BY <3>1 DEF n
  <2>4. CASE b # 1
    <3>1. b \in 2..Len(all) /\ b - 1 < c - 1
      BY <1>1, <1>2, <1>7, <2>4
    <3>2. all[b] = bs[b - 1] /\ b - 1 \in 1..Len(bs)
      BY <1>2, <3>1
    <3>3. \A e, f \in 1..Len(bs) : e < f =>
            \A g \in bs[e].shown, h \in bs[f].shown : g < h
      BY DEF Shows
    <3>4. i \in bs[b - 1].shown /\ j \in bs[c - 1].shown
      BY <1>7, <2>2, <3>2
    <3> QED
      BY <2>2, <3>1, <3>2, <3>3, <3>4, ZenonT(30)
  <2> QED
    BY <2>3, <2>4
<1>8. ASSUME NEW l \in a..n
      PROVE  /\ ShownAsCode(src, l) <=>
                  \E b \in 1..Len(all) : all[b].tag = "pre" /\ l \in all[b].shown
             /\ LeftOut(src, l) \/ \E b \in 1..Len(all) : l \in all[b].shown
  <2>1. 1 \in 1..Len(all) /\ \A b \in 1..Len(bs) : b + 1 \in 1..Len(all)
    BY <1>1, <1>2
  <2>2. CASE l \in a..(z - 1)
    <3>1. \A b \in 1..Len(all) : l \in all[b].shown => b = 1
      BY <1>2, <1>3, <1>4, <1>5, <2>2
    <3>2. /\ ShownAsCode(src, l) <=> block.tag = "pre" /\ l \in block.shown
          /\ LeftOut(src, l) \/ l \in block.shown
      BY <2>2 DEF Fits
    <3> QED
      BY <1>2, <2>1, <3>1, <3>2
  <2>3. CASE l \in z..n
    <3>1. l \notin block.shown
      BY <1>4, <1>5, <2>3
    <3>2. /\ ShownAsCode(src, l) <=> \E b \in 1..Len(bs) : bs[b].tag = "pre" /\ l \in bs[b].shown
          /\ LeftOut(src, l) \/ \E b \in 1..Len(bs) : l \in bs[b].shown
      BY <2>3 DEF Shows, n
    <3>3. \A b \in 1..Len(all) : l \in all[b].shown =>
            b - 1 \in 1..Len(bs) /\ all[b] = bs[b - 1]
      BY <1>2, <1>3, <3>1
    <3>4. (\E b \in 1..Len(bs) : bs[b].tag = "pre" /\ l \in bs[b].shown) <=>
          (\E b \in 1..Len(all) : all[b].tag = "pre" /\ l \in all[b].shown)
      BY <1>2, <2>1, <3>3
    <3>5. (\E b \in 1..Len(bs) : l \in bs[b].shown) => (\E b \in 1..Len(all) : l \in all[b].shown)
      BY <1>2, <2>1
    <3> QED
      BY <3>2, <3>4, <3>5
  <2> QED
    BY <1>5, <2>2, <2>3
<1>9. ASSUME NEW b \in 1..Len(all), all[b].tag \in {"ul", "ol"}
      PROVE  /\ \A l \in all[b].shown : src[l] \in Items(all[b].tag)
             /\ b > 1 => \/ all[b - 1].tag # all[b].tag
                         \/ \A i \in all[b].shown : i - 1 \notin all[b - 1].shown
  <2>1. CASE b = 1
    BY <1>2, <1>9, <2>1 DEF Fits
  <2>2. CASE b \in 2..Len(all)
    <3>1. all[b] = bs[b - 1] /\ b - 1 \in 1..Len(bs)
      BY <1>2, <2>2
    <3>2. \A l \in all[b].shown : src[l] \in Items(all[b].tag)
      BY <1>9, <3>1 DEF Shows
    <3>3. CASE b = 2
      <4> SUFFICES ASSUME all[1].tag = all[2].tag, NEW i \in all[2].shown, i - 1 \in all[1].shown
                   PROVE  FALSE
        BY <3>2, <3>3
      <4>1. i \in z..n /\ i - 1 \in a..(z - 1)
        BY <1>2, <1>4, <3>1, <3>3
      <4>2. i = z /\ z <= n
        BY <4>1 DEF n
      <4>3. src[z] \in Items(block.tag)
        BY <1>2, <3>2, <3>3, <4>2
      <4>4. src[z] \notin Items(block.tag)
        BY <1>2, <1>9, <3>3, <4>2 DEF Fits, n
      <4> QED
        BY <4>3, <4>4
    <3>4. CASE b # 2
      <4>1. b - 1 \in 2..Len(all) /\ b - 1 > 1
        BY <1>1, <1>2, <2>2, <3>4
      <4>2. all[b - 1] = bs[(b - 1) - 1]
        BY <1>2, <4>1
      <4>3. \/ bs[(b - 1) - 1].tag # bs[b - 1].tag
            \/ \A i \in bs[b - 1].shown : i - 1 \notin bs[(b - 1) - 1].shown
        BY <1>9, <3>1, <4>1 DEF Shows
      <4> QED
        BY <3>1, <3>2, <4>2, <4>3
    <3> QED
      BY <3>3, <3>4
  <2> QED
    BY <1>3, <2>1, <2>2
<1> QED
  BY <1>2, <1>6, <1>7, <1>8, <1>9 DEF Shows, all, n

------------------------------------------------------------------------------
(* The branches of the loop of markdownToHtml.                             *)

LEMMA EndOfRunFacts ==
    ASSUME NEW lines, Len(lines) \in Nat, NEW i \in 1..Len(lines), NEW K, lines[i].kind \in K
    PROVE  LET j == EndOfRun(lines, i, K)
           IN  /\ j \in (i + 1)..(Len(lines) + 1)
               /\ j <= Len(lines) => lines[j].kind \notin K
               /\ \A k \in i..(j - 1) : lines[k].kind \in K
<1> DEFINE m == Len(lines)
           J == {j \in i..(m + 1) : j <= m => lines[j].kind \notin K}
           IsEnd(j) == /\ j <= m => lines[j].kind \notin K
                       /\ \A k \in i..(j - 1) : lines[k].kind \in K
           end == EndOfRun(lines, i, K)
<1>1. J \subseteq Nat /\ m + 1 \in J
  OBVIOUS
<1>2. PICK j \in J : \A k \in J : j <= k
  <2> HIDE DEF J
  <2> QED
    BY <1>1, LeastElement
<1>3. ASSUME NEW k \in i..(j - 1)
      PROVE  lines[k].kind \in K
  <2>1. k \in i..(m + 1) /\ ~(j <= k)
    OBVIOUS
  <2> QED
    BY <1>2, <2>1
<1>4. \E k \in i..(m + 1) : IsEnd(k)
  BY <1>2, <1>3
<1>5. end = CHOOSE k \in i..(m + 1) : IsEnd(k)
  BY DEF EndOfRun
<1> HIDE DEF end
<1>6. end \in i..(m + 1) /\ IsEnd(end)
  <2> HIDE DEF IsEnd
  <2> QED
    BY <1>4, <1>5
<1>7. end # i
  BY <1>6
<1>8. end \in (i + 1)..(m + 1)
  BY <1>6, <1>7
<1> QED
  BY <1>6, <1>8 DEF end

\* A line that starts a run of one kind is not inside a longer line.
LEMMA NextStart ==
    ASSUME NEW src, NEW lines, IsCut(src, lines), NEW j \in 1..(Len(lines) + 1),
           NEW K, K \subseteq Line \ Fences, j <= Len(lines) => lines[j].kind \notin K
    PROVE  Start(src, lines, j) <= Len(src) => src[Start(src, lines, j)] \notin K
<1> SUFFICES ASSUME Start(src, lines, j) <= Len(src)
             PROVE  src[Start(src, lines, j)] \notin K
  OBVIOUS
<1>1. Len(src) \in Nat /\ Len(lines) \in Nat
  BY CutFacts
<1>2. j \in 1..Len(lines) /\ Start(src, lines, j) = lines[j].from
  BY <1>1 DEF Start
<1>3. CASE lines[j].kind \in Code
  <2>1. src[lines[j].from] \in Fences
    BY <1>2, <1>3, CodeFacts DEF Opens
  <2> QED
    BY <1>2, <2>1
<1>4. CASE lines[j].kind \notin Code
  <2>1. src[lines[j].from] = lines[j].kind \/ src[lines[j].from] \in Fences
    BY <1>2, <1>4, LineFacts
  <2> QED
    BY <1>2, <2>1
<1> QED
  BY <1>3, <1>4

\* The lines of a run of one kind.
LEMMA RunFacts ==
    ASSUME NEW src, NEW lines, IsCut(src, lines), NEW i \in 1..Len(lines),
           NEW j \in (i + 1)..(Len(lines) + 1),
           \A k \in i..(j - 1) : lines[k].kind \in Line \ (Fences \union {"text"})
    PROVE  /\ \A k \in i..(j - 1) :
                /\ lines[k].from \in Start(src, lines, i)..(Start(src, lines, j) - 1)
                /\ src[lines[k].from] = lines[k].kind
           /\ \A l \in Start(src, lines, i)..(Start(src, lines, j) - 1) :
                ~ShownAsCode(src, l) /\ \E k \in i..(j - 1) : l = lines[k].from
<1>1. \A k \in i..(j - 1) : k \in 1..Len(lines) /\ lines[k].kind \notin Code
  BY Between, KindsDiffer
<1>2. \A k \in i..(j - 1) : lines[k].to = lines[k].from /\ ~ShownAsCode(src, lines[k].from)
                            /\ src[lines[k].from] = lines[k].kind
  BY <1>1, LineFacts
<1>3. \A k \in i..(j - 1) : lines[k].from \in 1..Len(src)
  BY <1>1, CutFacts
<1>4. /\ Len(src) \in Nat
      /\ Start(src, lines, i) \in 1..(Len(src) + 1) /\ Start(src, lines, j) \in 1..(Len(src) + 1)
  BY CutFacts
<1>5. ASSUME NEW k \in i..(j - 1)
      PROVE  lines[k].from \in Start(src, lines, i)..(Start(src, lines, j) - 1)
  <2>1. Start(src, lines, i) <= lines[k].from /\ lines[k].to < Start(src, lines, j)
    BY Between
  <2> QED
    BY <1>2, <1>3, <1>4, <2>1
<1>6. ASSUME NEW l \in Start(src, lines, i)..(Start(src, lines, j) - 1)
      PROVE  ~ShownAsCode(src, l) /\ \E k \in i..(j - 1) : l = lines[k].from
  <2>1. PICK k \in i..(j - 1) : l \in lines[k].from..lines[k].to
    BY Between
  <2>2. l = lines[k].from
    BY <1>2, <1>3, <2>1
  <2> QED
    BY <1>2, <2>2
<1> QED
  BY <1>2, <1>5, <1>6

\* A list has every item of its run.
LEMMA ListFits ==
    ASSUME NEW src, NEW lines, IsCut(src, lines), NEW i \in 1..Len(lines),
           NEW tag \in {"ul", "ol"}, lines[i].kind \in Items(tag)
    PROVE  LET j == EndOfRun(lines, i, Items(tag))
           IN  /\ j \in (i + 1)..(Len(lines) + 1)
               /\ Fits(src, [tag |-> tag, shown |-> Run(lines, i, j)],
                       Start(src, lines, i), Start(src, lines, j))
<1> DEFINE j == EndOfRun(lines, i, Items(tag))
           a == Start(src, lines, i)
           z == Start(src, lines, j)
           shown == Run(lines, i, j)
           block == [tag |-> tag, shown |-> shown]
<1>1. /\ j \in (i + 1)..(Len(lines) + 1)
      /\ j <= Len(lines) => lines[j].kind \notin Items(tag)
      /\ \A k \in i..(j - 1) : lines[k].kind \in Items(tag)
  <2>1. Len(lines) \in Nat
    BY CutFacts
  <2> QED
    BY <2>1, EndOfRunFacts
<1> HIDE DEF j
<1>2. Items(tag) \subseteq Line \ (Fences \union {"text"})
  BY DEF Items, Line, Fences, Bullets
<1>3. /\ \A k \in i..(j - 1) : lines[k].from \in a..(z - 1) /\ src[lines[k].from] = lines[k].kind
      /\ \A l \in a..(z - 1) : ~ShownAsCode(src, l) /\ \E k \in i..(j - 1) : l = lines[k].from
  <2>1. \A k \in i..(j - 1) : lines[k].kind \in Line \ (Fences \union {"text"})
    BY <1>1, <1>2
  <2> QED
    BY <1>1, <2>1, RunFacts
<1>4. a \in 1..(Len(src) + 1) /\ z \in 1..(Len(src) + 1) /\ Len(src) \in Nat /\ Len(lines) \in Nat
  BY <1>1, CutFacts
<1>5. z <= Len(src) => src[z] \notin Items(tag)
  <2>1. j \in 1..(Len(lines) + 1)
    BY <1>1, <1>4
  <2>2. Items(tag) \subseteq Line \ Fences
    BY <1>2
  <2> QED
    BY <1>1, <2>1, <2>2, NextStart
<1> HIDE DEF a, z
<1>6. /\ shown \subseteq a..(z - 1) /\ \A l \in a..(z - 1) : l \in shown
      /\ \A l \in shown : src[l] \in Items(tag)
  BY <1>1, <1>3 DEF Run
<1> HIDE DEF shown
<1>7. block \in BlockType /\ block.tag = tag /\ block.shown = shown
  <2>1. shown \subseteq Nat
    BY <1>4, <1>6
  <2> QED
    BY <2>1 DEF BlockType
<1> HIDE DEF block
<1>8. Fits(src, block, a, z)
  BY <1>3, <1>5, <1>6, <1>7 DEF Fits
<1> QED
  BY <1>1, <1>8 DEF j, a, z, shown, block

\* A table has the header and every row of its run; the separator is left out.
LEMMA TableFits ==
    ASSUME NEW src, NEW lines, IsCut(src, lines), NEW i \in 1..Len(lines), IsTable(lines, i)
    PROVE  LET j == EndOfRun(lines, i, HasPipe)
           IN  /\ j \in (i + 1)..(Len(lines) + 1)
               /\ Fits(src, [tag |-> "table", shown |-> TableRows(lines, i, j)],
                       Start(src, lines, i), Start(src, lines, j))
<1> DEFINE j == EndOfRun(lines, i, HasPipe)
           a == Start(src, lines, i)
           z == Start(src, lines, j)
           shown == TableRows(lines, i, j)
           block == [tag |-> "table", shown |-> shown]
<1>1. /\ Len(src) \in Nat /\ Len(lines) \in Nat
      /\ lines[i].kind \in HasPipe /\ i + 1 \in 1..Len(lines)
      /\ lines[i + 1].kind = "separator"
  BY CutFacts DEF IsTable
<1>2. /\ j \in (i + 1)..(Len(lines) + 1)
      /\ j <= Len(lines) => lines[j].kind \notin HasPipe
      /\ \A k \in i..(j - 1) : lines[k].kind \in HasPipe
  BY <1>1, EndOfRunFacts
<1> HIDE DEF j
<1>3. j \in (i + 2)..(Len(lines) + 1)
  <2>1. j # i + 1
    BY <1>1, <1>2 DEF HasPipe
  <2> QED
    BY <1>1, <1>2, <2>1
<1>4. HasPipe \subseteq Line \ (Fences \union {"text"})
  BY DEF HasPipe, Line, Fences
<1>5. /\ \A k \in i..(j - 1) : lines[k].from \in a..(z - 1) /\ src[lines[k].from] = lines[k].kind
      /\ \A l \in a..(z - 1) : ~ShownAsCode(src, l) /\ \E k \in i..(j - 1) : l = lines[k].from
  <2>1. \A k \in i..(j - 1) : lines[k].kind \in Line \ (Fences \union {"text"})
    BY <1>2, <1>4
  <2> QED
    BY <1>2, <2>1, RunFacts
<1>6. UnderHeader(src, lines[i + 1].from)
  <2> DEFINE h == lines[i].from
             l == lines[i + 1].from
  <2>1. i \in i..(j - 1) /\ i + 1 \in i..(j - 1)
    BY <1>1, <1>3
  <2>2. /\ h \in 1..Len(src) /\ l \in 1..Len(src) /\ lines[i].to < l
        /\ src[h] \in HasPipe /\ src[l] = "separator"
    <3>1. h \in 1..Len(src) /\ l \in 1..Len(src)
      BY <1>1, CutFacts
    <3>2. lines[i].to < l
      BY <1>1 DEF IsCut, Spreads
    <3> QED
      BY <1>1, <1>5, <2>1, <3>1, <3>2
  <2>3. lines[i].to = h
    BY <1>1, <1>4, KindsDiffer, LineFacts
  <2>4. Start(src, lines, i) = h /\ Start(src, lines, i + 1) = l
    BY <1>1 DEF Start
  <2>5. l - 1 = h
    <3>1. l - 1 \in h..(l - 1)
      BY <2>2, <2>3
    <3>2. i + 1 \in (i + 1)..(Len(lines) + 1)
      BY <1>1
    <3>3. PICK k \in i..((i + 1) - 1) : l - 1 \in lines[k].from..lines[k].to
      BY <2>4, <3>1, <3>2, Between
    <3>4. k = i
      OBVIOUS
    <3> QED
      BY <2>2, <2>3, <3>3, <3>4
  <2> HIDE DEF h, l
  <2>6. src[l - 1] \in HasPipe /\ l > 1
    BY <2>2, <2>5
  <2> QED
    BY <2>2, <2>6 DEF UnderHeader, l
<1>7. a \in 1..(Len(src) + 1) /\ z \in 1..(Len(src) + 1)
  BY <1>1, <1>2, CutFacts
<1> HIDE DEF a, z
<1>8. shown \subseteq a..(z - 1)
  <2>1. \A k \in {i} \union ((i + 2)..(j - 1)) : k \in i..(j - 1)
    BY <1>1, <1>3
  <2> QED
    BY <1>5, <2>1 DEF TableRows
<1>9. \A l \in a..(z - 1) : l \in shown \/ l = lines[i + 1].from
  <2> SUFFICES ASSUME NEW l \in a..(z - 1)
               PROVE  l \in shown \/ l = lines[i + 1].from
    OBVIOUS
  <2>1. PICK k \in i..(j - 1) : l = lines[k].from
    BY <1>5
  <2>2. k = i + 1 \/ k \in {i} \union ((i + 2)..(j - 1))
    BY <1>1, <1>3
  <2> QED
    BY <2>1, <2>2 DEF TableRows
<1> HIDE DEF shown
<1>10. block \in BlockType /\ block.tag = "table" /\ block.shown = shown
  <2>1. shown \subseteq Nat
    BY <1>7, <1>8
  <2> QED
    BY <2>1 DEF BlockType
<1> HIDE DEF block
<1>11. Fits(src, block, a, z)
  BY <1>5, <1>6, <1>8, <1>9, <1>10 DEF Fits, LeftOut
<1> QED
  BY <1>2, <1>11 DEF j, a, z, shown, block

\* One line: up to the next one is what it stands for.
LEMMA OneLine ==
    ASSUME NEW src, NEW lines, IsCut(src, lines), NEW i \in 1..Len(lines)
    PROVE  /\ i + 1 \in (i + 1)..(Len(lines) + 1)
           /\ Start(src, lines, i) = lines[i].from
           /\ Start(src, lines, i)..(Start(src, lines, i + 1) - 1) = lines[i].from..lines[i].to
<1>1. /\ Len(lines) \in Nat /\ Len(src) \in Nat
      /\ lines[i].from \in 1..Len(src) /\ lines[i].to \in lines[i].from..Len(src)
  BY CutFacts
<1>2. i + 1 \in (i + 1)..(Len(lines) + 1)
  BY <1>1
<1>3. Start(src, lines, i) = lines[i].from
  BY <1>1 DEF Start
<1>4. Start(src, lines, i + 1) \in 1..(Len(src) + 1)
  <2>1. i + 1 \in 1..(Len(lines) + 1)
    BY <1>1
  <2> QED
    BY <2>1, CutFacts
<1>5. lines[i].to < Start(src, lines, i + 1)
  <2>1. i \in i..((i + 1) - 1)
    OBVIOUS
  <2> QED
    BY <1>2, <2>1, Between
<1>6. ASSUME NEW l \in Start(src, lines, i)..(Start(src, lines, i + 1) - 1)
      PROVE  l \in lines[i].from..lines[i].to
  <2>1. PICK k \in i..((i + 1) - 1) : l \in lines[k].from..lines[k].to
    BY <1>2, Between
  <2>2. k = i
    OBVIOUS
  <2> QED
    BY <2>1, <2>2
<1>7. ASSUME NEW l \in lines[i].from..lines[i].to
      PROVE  l \in Start(src, lines, i)..(Start(src, lines, i + 1) - 1)
  BY <1>1, <1>3, <1>4, <1>5
<1> QED
  BY <1>2, <1>3, <1>6, <1>7

LEMMA CodeFits ==
    ASSUME NEW src, NEW lines, IsCut(src, lines), NEW i \in 1..Len(lines),
           lines[i].kind \in Code
    PROVE  Fits(src, [tag |-> "pre", shown |-> CodeShown(src, lines[i])],
                Start(src, lines, i), Start(src, lines, i + 1))
<1> DEFINE shown == CodeShown(src, lines[i])
           block == [tag |-> "pre", shown |-> shown]
<1>1. Start(src, lines, i)..(Start(src, lines, i + 1) - 1) = lines[i].from..lines[i].to
  BY OneLine
<1>2. lines[i].from \in Nat /\ lines[i].to \in Nat
  BY CutFacts
<1>3. \A l \in lines[i].from..lines[i].to :
        (ShownAsCode(src, l) <=> l \in shown) /\ (LeftOut(src, l) \/ l \in shown)
  BY CodeFacts DEF LeftOut
<1>4. shown \subseteq lines[i].from..lines[i].to /\ shown \subseteq Nat
  BY <1>2 DEF CodeShown
<1> HIDE DEF shown
<1>5. block \in BlockType /\ block.tag = "pre" /\ block.shown = shown
  BY <1>4 DEF BlockType
<1> HIDE DEF block
<1>6. Fits(src, block, Start(src, lines, i), Start(src, lines, i + 1))
  BY <1>1, <1>3, <1>4, <1>5 DEF Fits
<1> QED
  BY <1>6 DEF block, shown

LEMMA LineFits ==
    ASSUME NEW src, NEW lines, IsCut(src, lines), NEW i \in 1..Len(lines),
           lines[i].kind \notin Code, NEW tag \in {"heading", "quote", "p"}
    PROVE  Fits(src, [tag |-> tag, shown |-> {lines[i].from}],
                Start(src, lines, i), Start(src, lines, i + 1))
<1> DEFINE shown == {lines[i].from}
           block == [tag |-> tag, shown |-> shown]
<1>1. Start(src, lines, i)..(Start(src, lines, i + 1) - 1) = lines[i].from..lines[i].to
  BY OneLine
<1>2. lines[i].from \in Nat /\ lines[i].to = lines[i].from /\ ~ShownAsCode(src, lines[i].from)
  BY CutFacts, LineFacts
<1>3. lines[i].from..lines[i].to = shown /\ shown \subseteq Nat
  BY <1>2
<1>4. \A l \in shown : ~ShownAsCode(src, l)
  BY <1>2
<1> HIDE DEF shown
<1>5. block \in BlockType /\ block.tag = tag /\ block.shown = shown /\ tag \notin {"pre", "ul", "ol"}
  BY <1>3 DEF BlockType
<1> HIDE DEF block
<1>6. Fits(src, block, Start(src, lines, i), Start(src, lines, i + 1))
  BY <1>1, <1>3, <1>4, <1>5 DEF Fits
<1> QED
  BY <1>6 DEF block, shown

\* Every branch skips a blank line or emits a block that fits.
LEMMA BranchFits ==
    ASSUME NEW src, NEW lines, IsCut(src, lines), NEW i \in 1..Len(lines)
    PROVE  \/ lines[i].kind = "blank" /\ Branch(src, lines, i) = Emit(<<>>, i + 1)
           \/ \E block, j : /\ Branch(src, lines, i) = Emit(<<block>>, j)
                            /\ j \in (i + 1)..(Len(lines) + 1)
                            /\ Fits(src, block, Start(src, lines, i), Start(src, lines, j))
<1> DEFINE kind == lines[i].kind
           from == lines[i].from
           Fit(block, j) == /\ j \in (i + 1)..(Len(lines) + 1)
                            /\ Fits(src, block, Start(src, lines, i), Start(src, lines, j))
           Is(block, j) == Branch(src, lines, i) = Emit(<<block>>, j)
<1>1. i + 1 \in (i + 1)..(Len(lines) + 1)
  BY OneLine
<1>2. kind # "spoiltToken"
  BY CodeFacts DEF Code
<1>3. CASE kind = "blank"
  <2>1. ~IsTable(lines, i)
    BY <1>3 DEF IsTable, HasPipe
  <2> QED
    BY <1>3, <2>1 DEF Branch, Bullets
<1>4. CASE IsTable(lines, i)
  <2> DEFINE j == EndOfRun(lines, i, HasPipe)
             block == [tag |-> "table", shown |-> TableRows(lines, i, j)]
  <2>1. kind \in HasPipe
    BY <1>4 DEF IsTable
  <2>2. Is(block, j)
    BY <1>4, <2>1, Zenon DEF Branch, Block, HasPipe
  <2>3. Fit(block, j)
    BY <1>4, TableFits
  <2> QED
    BY <2>2, <2>3
<1>5. CASE kind = "token"
  <2> DEFINE block == [tag |-> "pre", shown |-> CodeShown(src, lines[i])]
  <2>1. ~IsTable(lines, i)
    BY <1>5 DEF IsTable, HasPipe
  <2>2. Is(block, i + 1)
    BY <1>5, <2>1 DEF Branch, Block, Bullets
  <2>3. Fit(block, i + 1)
    BY <1>1, <1>5, CodeFits DEF Code
  <2> QED
    BY <2>2, <2>3
<1>6. CASE kind \in {"heading", "quote"}
  <2> DEFINE block == [tag |-> kind, shown |-> {from}]
  <2>1. ~IsTable(lines, i)
    BY <1>6 DEF IsTable, HasPipe
  <2>2. Is(block, i + 1)
    BY <1>6, <2>1 DEF Branch, Block, Bullets
  <2>3. kind \notin Code /\ kind \in {"heading", "quote", "p"}
    BY <1>6 DEF Code
  <2>4. Fit(block, i + 1)
    BY <1>1, <2>3, LineFits
  <2> QED
    BY <2>2, <2>4
<1>7. CASE kind \in Bullets /\ ~IsTable(lines, i)
  <2> DEFINE j == EndOfRun(lines, i, Bullets)
             block == [tag |-> "ul", shown |-> Run(lines, i, j)]
  <2>1. Is(block, j)
    BY <1>7 DEF Branch, Block, Bullets
  <2>2. Items("ul") = Bullets
    BY DEF Items
  <2>3. Fit(block, j)
    BY <1>7, <2>2, ListFits
  <2> QED
    BY <2>1, <2>3
<1>8. CASE kind = "number"
  <2> DEFINE j == EndOfRun(lines, i, {"number"})
             block == [tag |-> "ol", shown |-> Run(lines, i, j)]
  <2>1. ~IsTable(lines, i) /\ kind \notin Bullets
    BY <1>8 DEF IsTable, HasPipe, Bullets
  <2>2. Is(block, j)
    BY <1>8, <2>1 DEF Branch, Block
  <2>3. Items("ol") = {"number"}
    BY DEF Items
  <2>4. Fit(block, j)
    BY <1>8, <2>3, ListFits
  <2> QED
    BY <2>2, <2>4
<1>9. CASE /\ kind \notin {"blank", "token", "heading", "quote", "number"} \union Bullets
           /\ ~IsTable(lines, i)
  <2> DEFINE block == [tag |-> "p", shown |-> {from}]
  <2>1. Is(block, i + 1)
    BY <1>2, <1>9 DEF Branch, Block
  <2>2. kind \notin Code
    BY <1>2, <1>9 DEF Code
  <2>3. Fit(block, i + 1)
    BY <1>1, <2>2, LineFits
  <2> QED
    BY <2>1, <2>3
<1> QED
  BY <1>3, <1>4, <1>5, <1>6, <1>7, <1>8, <1>9

\* Every iteration hands on that the page shows what it should.
LEMMA BranchShows ==
    ASSUME NEW src, NEW lines, IsCut(src, lines), NEW i \in 1..Len(lines)
    PROVE  LET b == Branch(src, lines, i)
           IN  /\ b.out \in Seq(BlockType) /\ b.next \in (i + 1)..(Len(lines) + 1)
               /\ \A bs : Shows(src, bs, Start(src, lines, b.next)) =>
                    Shows(src, b.out \o bs, Start(src, lines, i))
<1> DEFINE n == Len(src)
           b == Branch(src, lines, i)
           a == Start(src, lines, i)
           z(j) == Start(src, lines, j)
<1>1. n \in Nat /\ a \in 1..n /\ i + 1 \in (i + 1)..(Len(lines) + 1)
  <2>1. n \in Nat /\ lines[i].from \in 1..n
    BY CutFacts
  <2>2. a = lines[i].from /\ i + 1 \in (i + 1)..(Len(lines) + 1)
    BY OneLine
  <2> QED
    BY <2>1, <2>2
<1>2. \A j \in (i + 1)..(Len(lines) + 1) : z(j) \in a..(n + 1)
  <2> SUFFICES ASSUME NEW j \in (i + 1)..(Len(lines) + 1)
               PROVE  z(j) \in a..(n + 1)
    OBVIOUS
  <2>1. Len(lines) \in Nat /\ lines[i].from \in 1..n /\ lines[i].to \in lines[i].from..n
    BY CutFacts
  <2>2. j \in 1..(Len(lines) + 1) /\ i \in i..(j - 1)
    BY <2>1
  <2>3. z(j) \in 1..(n + 1)
    BY <2>2, CutFacts
  <2>4. a <= lines[i].from /\ lines[i].to < z(j)
    BY <2>2, Between
  <2> QED
    BY <1>1, <2>1, <2>3, <2>4
<1>3. ASSUME lines[i].kind = "blank", b = Emit(<<>>, i + 1)
      PROVE  /\ b.out \in Seq(BlockType) /\ b.next \in (i + 1)..(Len(lines) + 1)
             /\ \A bs : Shows(src, bs, z(b.next)) => Shows(src, b.out \o bs, a)
  <2>1. b.out = <<>> /\ b.next = i + 1
    BY <1>3 DEF Emit
  <2>2. \A l \in a..(z(i + 1) - 1) : ~ShownAsCode(src, l) /\ LeftOut(src, l)
    <3>1. lines[i].kind \notin Code /\ lines[i].from \in 1..n
      BY <1>3, CutFacts DEF Code
    <3>2. /\ lines[i].to = lines[i].from /\ ~ShownAsCode(src, lines[i].from)
          /\ src[lines[i].from] = "blank"
      BY <1>3, <3>1, LineFacts
    <3>3. a..(z(i + 1) - 1) = lines[i].from..lines[i].to
      BY OneLine
    <3>4. \A l \in a..(z(i + 1) - 1) : l = lines[i].from
      BY <3>1, <3>2, <3>3
    <3> QED
      BY <3>2, <3>4 DEF LeftOut
  <2> HIDE DEF a, z, n, b
  <2>3. ASSUME NEW bs, Shows(src, bs, z(b.next))
        PROVE  Shows(src, b.out \o bs, a)
    <3>1. Shows(src, bs, a)
      BY <1>1, <1>2, <2>1, <2>2, <2>3, ShowsPastBlank DEF n
    <3>2. bs \in Seq(BlockType)
      BY <2>3 DEF Shows
    <3> QED
      BY <2>1, <3>1, <3>2, ConcatEmptySeq
  <2> QED
    BY <1>1, <2>1, <2>3, EmptySeq
<1>4. ASSUME NEW block, NEW j \in (i + 1)..(Len(lines) + 1), b = Emit(<<block>>, j),
             Fits(src, block, a, z(j))
      PROVE  /\ b.out \in Seq(BlockType) /\ b.next \in (i + 1)..(Len(lines) + 1)
             /\ \A bs : Shows(src, bs, z(b.next)) => Shows(src, b.out \o bs, a)
  <2>1. b.out = <<block>> /\ b.next = j
    BY <1>4 DEF Emit
  <2>2. <<block>> \in Seq(BlockType)
    BY <1>4 DEF Fits
  <2> HIDE DEF a, z, n, b
  <2>3. ASSUME NEW bs, Shows(src, bs, z(b.next))
        PROVE  Shows(src, b.out \o bs, a)
    BY <1>1, <1>2, <1>4, <2>1, <2>3, ShowsPastBlock DEF n
  <2> QED
    BY <2>1, <2>2, <2>3
<1>5. \/ lines[i].kind = "blank" /\ b = Emit(<<>>, i + 1)
      \/ \E block, j : /\ b = Emit(<<block>>, j) /\ j \in (i + 1)..(Len(lines) + 1)
                       /\ Fits(src, block, a, z(j))
  BY BranchFits
<1> HIDE DEF a, z, b
<1>6. /\ b.out \in Seq(BlockType) /\ b.next \in (i + 1)..(Len(lines) + 1)
      /\ \A bs : Shows(src, bs, z(b.next)) => Shows(src, b.out \o bs, a)
  <2>1. CASE lines[i].kind = "blank" /\ b = Emit(<<>>, i + 1)
    BY <1>3, <2>1
  <2>2. CASE \E block, j : /\ b = Emit(<<block>>, j) /\ j \in (i + 1)..(Len(lines) + 1)
                           /\ Fits(src, block, a, z(j))
    <3>1. PICK block, j : /\ b = Emit(<<block>>, j) /\ j \in (i + 1)..(Len(lines) + 1)
                          /\ Fits(src, block, a, z(j))
      BY <2>2
    <3> QED
      BY <1>4, <3>1
  <2> QED
    BY <1>5, <2>1, <2>2
<1> QED
  BY <1>6 DEF a, z, b

------------------------------------------------------------------------------
(* The whole page.                                                         *)

\* Whatever the length of a well fenced file and whatever mixture of tables, lists,
\* code and text it holds, the page that markdownToHtml makes of it shows every line
\* that it should, once, in order, code as code, and neighbouring items as one list.
THEOREM RendererIsWhole ==
    ASSUME NEW src \in Seq(Line), WellFenced(src)
    PROVE  RendersWhole(src, MarkdownToHtml(src))
<1> DEFINE lines == Tokenized(src)
           m == Len(lines)
           step == [i \in DOMAIN lines |-> Branch(src, lines, i)]
           From(i) == {bs \in Seq(BlockType) : Shows(src, bs, Start(src, lines, i))}
           Good == [i \in 1..(m + 1) |-> From(i)]
           html == MarkdownToHtml(src)
<1>1. IsCut(src, lines)
  BY TokensSpread DEF IsCut
<1> HIDE DEF lines
<1>2. m \in Nat /\ Len(src) \in Nat /\ DOMAIN lines = 1..m /\ DOMAIN src = 1..Len(src)
  BY <1>1, CutFacts
<1>3. ASSUME NEW i \in 1..m
      PROVE  /\ Branch(src, lines, i) \in [out : Seq(BlockType), next : Nat]
             /\ Branch(src, lines, i).next \in (i + 1)..(m + 1)
  <2>1. /\ Branch(src, lines, i).out \in Seq(BlockType)
        /\ Branch(src, lines, i).next \in (i + 1)..(m + 1)
    BY <1>1, BranchShows
  <2>2. \E out, next : Branch(src, lines, i) = [out |-> out, next |-> next]
    BY <1>1, BranchFits DEF Emit
  <2> QED
    BY <1>2, <2>1, <2>2
<1>4. /\ step \in [1..m -> [out : Seq(BlockType), next : Nat]]
      /\ \A i \in 1..m : step[i] = Branch(src, lines, i)
  BY <1>2, <1>3
<1> HIDE DEF step
<1>5. step \in Seq([out : Seq(BlockType), next : Nat]) /\ Len(step) = m
  BY <1>2, <1>4, FunctionIsSequence
<1>6. IsLoop(step, BlockType)
  BY <1>3, <1>4, <1>5 DEF IsLoop
<1>7. Good \in [1..(m + 1) -> SUBSET Seq(BlockType)]
  OBVIOUS
<1>8. <<>> \in Good[m + 1]
  <2>1. Start(src, lines, m + 1) = Len(src) + 1
    BY <1>2 DEF Start
  <2>2. 1..Len(<<>>) = {} /\ (Len(src) + 1)..Len(src) = {}
    BY <1>2
  <2>3. Shows(src, <<>>, Len(src) + 1)
    BY <2>2, EmptySeq DEF Shows
  <2> QED
    BY <1>2, <2>1, <2>3, EmptySeq
<1>9. ASSUME NEW i \in 1..m, NEW bs \in Good[step[i].next]
      PROVE  step[i].out \o bs \in Good[i]
  <2>1. step[i].next \in 1..(m + 1) /\ i \in 1..(m + 1)
    <3>1. step[i].next \in (i + 1)..(m + 1)
      BY <1>3, <1>4
    <3> QED
      BY <1>2, <3>1
  <2>2. bs \in From(step[i].next)
    BY <2>1
  <2>3. Shows(src, step[i].out \o bs, Start(src, lines, i))
    BY <1>1, <1>4, <2>2, BranchShows
  <2>4. step[i].out \o bs \in Seq(BlockType)
    BY <2>3 DEF Shows
  <2> QED
    BY <2>1, <2>3, <2>4
<1>10. html = Emitted(step)
  BY DEF MarkdownToHtml, step, lines
<1> HIDE DEF Good
<1>11. Emitted(step) \in Good[1]
  BY <1>5, <1>6, <1>7, <1>8, <1>9, EmittedIn
<1>12. 1 \in 1..(m + 1)
  BY <1>2
<1>13. Shows(src, html, Start(src, lines, 1))
  BY <1>10, <1>11, <1>12 DEF Good
<1>14. Start(src, lines, 1) = 1
  <2>1. CASE m = 0
    <3>1. Start(src, lines, 1) = Len(src) + 1
      BY <2>1 DEF Start
    <3>2. \A l \in 1..Len(src) : \E k \in 1..m : l \in lines[k].from..lines[k].to
      BY <1>1 DEF IsCut, Spreads
    <3>3. 1 \notin 1..Len(src)
      BY <2>1, <3>2
    <3> QED
      BY <1>2, <3>1, <3>3
  <2>2. CASE m # 0
    <3>1. 1 \in 1..m /\ Start(src, lines, 1) = lines[1].from
      BY <1>2, <2>2 DEF Start
    <3>2. /\ \A k \in 1..m : lines[k].from \in 1..Len(src) /\ lines[k].to \in lines[k].from..Len(src)
      BY <1>1, CutFacts
    <3>3. PICK k \in 1..m : 1 \in lines[k].from..lines[k].to
      <4>1. 1 \in 1..Len(src)
        BY <1>2, <3>1, <3>2
      <4> QED
        BY <1>1, <4>1 DEF IsCut, Spreads
    <3>4. k = 1
      <4> SUFFICES ASSUME k # 1
                   PROVE  FALSE
        OBVIOUS
      <4>1. lines[1].to < lines[k].from
        <5>1. 1 < k
          BY <1>2
        <5> QED
          BY <1>1, <3>1, <5>1 DEF IsCut, Spreads
      <4> QED
        BY <1>2, <3>1, <3>2, <3>3, <4>1
    <3> QED
      BY <1>2, <3>1, <3>2, <3>3, <3>4
  <2> QED
    BY <2>1, <2>2
<1>15. Shows(src, html, 1) /\ html \in Seq(BlockType)
  BY <1>13, <1>14 DEF Shows
<1> HIDE DEF html
<1>16. DOMAIN html = 1..Len(html) /\ Len(html) \in Nat
  BY <1>15, LenProperties
<1>17. /\ \A b, c \in DOMAIN html : b < c =>
            \A i \in html[b].shown, j \in html[c].shown : i < j
       /\ \A b \in DOMAIN html : b > 1 /\ html[b].tag \in {"ul", "ol"} =>
            html[b - 1].tag # html[b].tag
            \/ \A i \in html[b].shown : i - 1 \notin html[b - 1].shown
  BY <1>15, <1>16 DEF Shows
<1> DEFINE shown == UNION {html[b].shown : b \in DOMAIN html}
           pre == UNION {html[b].shown : b \in {c \in DOMAIN html : html[c].tag = "pre"}}
<1>18. ASSUME NEW l \in DOMAIN src
       PROVE  /\ ShownAsCode(src, l) <=> l \in pre
              /\ LeftOut(src, l) \/ l \in shown
  <2>1. /\ ShownAsCode(src, l) <=> \E b \in 1..Len(html) : html[b].tag = "pre" /\ l \in html[b].shown
        /\ LeftOut(src, l) \/ \E b \in 1..Len(html) : l \in html[b].shown
    BY <1>2, <1>15 DEF Shows
  <2>2. l \in pre <=> \E b \in 1..Len(html) : html[b].tag = "pre" /\ l \in html[b].shown
    BY <1>16
  <2>3. l \in shown <=> \E b \in 1..Len(html) : l \in html[b].shown
    BY <1>16
  <2> QED
    BY <2>1, <2>2, <2>3
<1>19. RendersWhole(src, html)
  <2> HIDE DEF shown, pre
  <2>1. \A i \in DOMAIN src :
          /\ ShownAsCode(src, i) <=> i \in pre
          /\ src[i] = "blank" \/ Opens(src, i) \/ Closes(src, i) \/ UnderHeader(src, i)
             \/ i \in shown
    BY <1>18 DEF LeftOut
  <2> QED
    BY <1>17, <2>1 DEF RendersWhole, shown, pre
<1> QED
  BY <1>19 DEF html

==============================================================================

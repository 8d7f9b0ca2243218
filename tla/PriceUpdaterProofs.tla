-------------------------- MODULE PriceUpdaterProofs --------------------------
(***************************************************************************)
(* Theorems about PriceUpdater, for any assets and plugins with feeds as   *)
(* FeedsAssumption has them, any raw prices, scale, maximum age and        *)
(* passage of time; and about Decimals, for texts of any length.           *)
(***************************************************************************)
EXTENDS PriceUpdater, FiniteSetTheorems, SequenceTheorems, WellFoundedInduction, TLAPS

\* x is a cached answer to the feed f, and f has one
AnswerTo(x, f) == x \in ToSet(caches[f.plugin]) /\ x.id = f.id
Answered(f) == \E x \in ToSet(caches[f.plugin]) : x.id = f.id

\* The answers cached are of plugins asked, one per id.
CachesInv ==
  /\ now \in Nat /\ asked \in 0..Len(Plugins) /\ DOMAIN caches = PluginSet
  /\ caches = [p \in PluginSet |-> caches[p]]
  /\ \A p \in PluginSet : \A x \in ToSet(caches[p]) :
       /\ x.plugin = p /\ x.publishTime \in Nat
       /\ \E k \in 1..asked : Plugins[k] = p
  /\ \A p \in PluginSet : \A x, y \in ToSet(caches[p]) : x.id = y.id => x = y

\* The assets of a feed with a valid answer are resolved, a resolved asset has a feed with
\* an answer, and after a feed whose answer is valid none of the asset's feeds has one.
ResolvedInv ==
  /\ \A a \in AssetSet : \A f \in ToSet(Feeds[a]) :
       (\E x \in ToSet(caches[f.plugin]) : x.id = f.id /\ IsValid(x)) => a \in resolved
  /\ \A a \in resolved : a \in AssetSet /\ \E f \in ToSet(Feeds[a]) : Answered(f)
  /\ \A a \in AssetSet : \A i \in Usable(a) : \A j \in DOMAIN Feeds[a] :
       i < j => ~Answered(Feeds[a][j])

\* A price is of an answer to a feed of the asset, and where assets have that feed, none of
\* their later feeds has an answer.
PricesInv ==
  /\ prices \in Seq(ToSet(prices))
  /\ phase = "fetching" => prices = <<>>
  /\ \A p \in ToSet(prices) : p.asset \in AssetSet
  /\ \A p \in ToSet(prices) : p.source # NoAnswer =>
       \E i \in DOMAIN Feeds[p.asset] :
         /\ AnswerTo(p.source, Feeds[p.asset][i])
         /\ \A b \in AssetSet : \A m, n \in DOMAIN Feeds[b] :
              Feeds[b][m] = Feeds[p.asset][i] /\ m < n => ~Answered(Feeds[b][n])

\* The assets gone through have a price or no usable answer.
DoneInv ==
  /\ done \in 0..Len(Assets)
  /\ phase = "returned" => done = Len(Assets)
  /\ phase = "fetching" => done = 0
  /\ phase \in {"resolving", "returned"} =>
       \A k \in 1..done : Assets[k] \in Priced \/ Usable(Assets[k]) = {}

IInv == CachesInv /\ ResolvedInv /\ PricesInv /\ DoneInv /\ FreshWhenPriced

-----------------------------------------------------------------------------
(* Sets and sequences *)

\* A set of natural numbers that is not empty has a least one.
LEMMA MinOfSet ==
  ASSUME NEW S \in SUBSET Nat, S # {}
  PROVE  Min(S) \in S /\ \A y \in S : Min(S) <= y
<1>1. \E x \in S : \A y \in S : ~ (<<y, x>> \in OpToRel(<, Nat))
  BY NatLessThanWellFounded, WFMin
<1>2. \A x, y \in S : ~ (<<y, x>> \in OpToRel(<, Nat)) => x <= y
  BY DEF OpToRel
<1>3. \E x \in S : \A y \in S : x <= y
  BY <1>1, <1>2
<1>4. QED
  BY <1>3 DEF Min

\* The sequences of a finite set have just its elements.
LEMMA SeqsOf ==
  ASSUME NEW S, IsFiniteSet(S), NEW s \in SetToSeqs(S)
  PROVE  s \in Seq(S) /\ ToSet(s) = S
<1>1. Cardinality(S) \in Nat
  BY FS_CardinalityType
<1>2. s \in [1..Cardinality(S) -> S] /\ \A i, j \in 1..Cardinality(S) : i # j => s[i] # s[j]
  BY DEF SetToSeqs
<1>3. s \in Seq(S) /\ DOMAIN s = 1..Cardinality(S)
  BY <1>1, <1>2
<1>4. IsFiniteSet(1..Cardinality(S)) /\ Cardinality(1..Cardinality(S)) = Cardinality(S)
  <2>1. /\ IsFiniteSet(1..Cardinality(S))
        /\ Cardinality(1..Cardinality(S)) = IF 1 > Cardinality(S) THEN 0 ELSE Cardinality(S) - 1 + 1
    BY <1>1, FS_Interval
  <2>2. QED
    BY <2>1, <1>1
<1>5. s \in Injection(1..Cardinality(S), S)
  BY <1>2 DEF Injection, IsInjective
<1>6. s \in Surjection(1..Cardinality(S), S)
  BY <1>4, <1>5, FS_Injection
<1>7. QED
  BY <1>3, <1>6 DEF Surjection, ToSet

\* A sequence has finitely many elements.
LEMMA FiniteRange ==
  ASSUME NEW T, NEW s \in Seq(T)
  PROVE  IsFiniteSet(ToSet(s))
<1>1. DOMAIN s = 1..Len(s) /\ Len(s) \in Nat
  OBVIOUS
<1>2. IsFiniteSet(1..Len(s))
  BY <1>1, FS_Interval
<1>3. s \in Surjection(1..Len(s), ToSet(s))
  BY <1>1 DEF Surjection, ToSet
<1>4. QED
  BY <1>2, <1>3, FS_Surjection

\* An element appended is one more.
LEMMA AppendSet ==
  ASSUME NEW T, NEW s \in Seq(T), NEW e
  PROVE  /\ ToSet(Append(s, e)) = ToSet(s) \cup {e}
         /\ Append(s, e) \in Seq(ToSet(Append(s, e)))
<1>1. DOMAIN s = 1..Len(s) /\ Len(s) \in Nat
  OBVIOUS
<1>2. /\ DOMAIN Append(s, e) = 1..Len(s) + 1
      /\ Append(s, e)[Len(s) + 1] = e
      /\ \A k \in 1..Len(s) : Append(s, e)[k] = s[k]
  <2>1. s \in Seq(T \cup {e}) /\ e \in T \cup {e}
    BY <1>1
  <2>2. QED
    BY <2>1, <1>1
<1>3. ToSet(Append(s, e)) = ToSet(s) \cup {e}
  BY <1>1, <1>2 DEF ToSet
<1>4. \A k \in 1..Len(s) + 1 : Append(s, e)[k] \in ToSet(Append(s, e))
  BY <1>2 DEF ToSet
<1>5. s \in Seq(ToSet(Append(s, e)))
  <2>1. \A k \in 1..Len(s) : s[k] \in ToSet(Append(s, e))
    BY <1>1, <1>3 DEF ToSet
  <2>2. QED
    BY <1>1, <2>1
<1>6. e \in ToSet(Append(s, e))
  BY <1>3
<1>7. QED
  BY <1>3, <1>5, <1>6

-----------------------------------------------------------------------------
(* Induction and recursion *)

\* Induction over the natural numbers, for sets of them.
LEMMA NatSets ==
  ASSUME NEW T, 0 \in T, \A n \in Nat : n \in T => n + 1 \in T
  PROVE  Nat \subseteq T
<1> DEFINE B == Nat \ T
<1>1. SUFFICES ASSUME B # {} PROVE FALSE
  OBVIOUS
<1>2. PICK m \in B : \A y \in B : ~ (<<y, m>> \in OpToRel(<, Nat))
  BY <1>1, NatLessThanWellFounded, WFMin
<1>3. m \in Nat /\ m # 0
  BY <1>2
<1>4. m - 1 \in Nat /\ m - 1 < m /\ (m - 1) + 1 = m
  BY <1>3
<1>5. m - 1 \notin B
  BY <1>2, <1>4 DEF OpToRel
<1>6. QED
  BY <1>2, <1>4, <1>5

\* Induction from all that is less.
LEMMA NatSetsBelow ==
  ASSUME NEW T, \A n \in Nat : (\A k \in Nat : k < n => k \in T) => n \in T
  PROVE  Nat \subseteq T
<1> DEFINE B == Nat \ T
<1>1. SUFFICES ASSUME B # {} PROVE FALSE
  OBVIOUS
<1>2. PICK m \in B : \A y \in B : ~ (<<y, m>> \in OpToRel(<, Nat))
  BY <1>1, NatLessThanWellFounded, WFMin
<1>3. \A k \in Nat : k < m => k \in T
  BY <1>2 DEF OpToRel
<1>4. QED
  BY <1>2, <1>3

\* f is defined up to n by recursion: from its value at an earlier place where R has the
\* place, from base elsewhere.
Recurses(f, n, base, R, prev, step) ==
  \A k \in 0..n : f[k] = IF k \in R THEN step[k][f[prev[k]]] ELSE base[k]

\* Two such functions agree where both are defined.
LEMMA RecursionUnique ==
  ASSUME NEW base, NEW R \in SUBSET Nat, NEW prev \in [R -> Nat], \A k \in R : prev[k] < k,
         NEW step, NEW n \in Nat, NEW m \in Nat, NEW f, NEW g,
         Recurses(f, n, base, R, prev, step), Recurses(g, m, base, R, prev, step)
  PROVE  \A k \in Nat : k <= n /\ k <= m => f[k] = g[k]
<1> DEFINE T == {k \in Nat : k <= n /\ k <= m => f[k] = g[k]}
<1>1. ASSUME NEW k \in Nat, \A j \in Nat : j < k => j \in T
      PROVE  k \in T
  <2>1. SUFFICES ASSUME k <= n, k <= m PROVE f[k] = g[k]
    OBVIOUS
  <2>2. k \in 0..n /\ k \in 0..m
    BY <2>1
  <2>3. CASE k \in R
    <3>1. prev[k] \in Nat /\ prev[k] < k
      BY <2>3
    <3>2. prev[k] <= n /\ prev[k] <= m
      BY <2>1, <3>1
    <3>3. f[prev[k]] = g[prev[k]]
      BY <1>1, <3>1, <3>2
    <3>4. QED
      BY <2>2, <2>3, <3>3 DEF Recurses
  <2>4. CASE k \notin R
    BY <2>2, <2>4 DEF Recurses
  <2>5. QED
    BY <2>3, <2>4
<1> HIDE DEF T
<1>2. Nat \subseteq T
  BY <1>1, NatSetsBelow
<1>3. QED
  BY <1>2 DEF T

\* Up to any place of the domain there is one.
LEMMA RecursionUpTo ==
  ASSUME NEW V, NEW D \in SUBSET Nat, \A k \in D : 0..k \subseteq D,
         NEW base \in [D -> V], NEW R \in SUBSET D, NEW prev \in [R -> Nat],
         \A k \in R : prev[k] < k, NEW step \in [D -> [V -> V]], NEW n \in D
  PROVE  \E f \in [0..n -> V] : Recurses(f, n, base, R, prev, step)
<1> DEFINE Good(m) == \E f \in [0..m -> V] : Recurses(f, m, base, R, prev, step)
           T == {m \in Nat : m \in D => Good(m)}
<1>1. 0 \in D => Good(0)
  <2>1. SUFFICES ASSUME 0 \in D PROVE Good(0)
    OBVIOUS
  <2> DEFINE f == [k \in 0..0 |-> base[0]]
  <2>2. f \in [0..0 -> V]
    BY <2>1
  <2>3. 0 \notin R
    OBVIOUS
  <2>4. Recurses(f, 0, base, R, prev, step)
    BY <2>3 DEF Recurses
  <2>5. QED
    BY <2>2, <2>4
<1>2. ASSUME NEW m \in Nat, m \in D => Good(m), m + 1 \in D
      PROVE  Good(m + 1)
  <2>1. m \in D
    <3>1. m \in 0..(m + 1)
      OBVIOUS
    <3>2. QED
      BY <1>2, <3>1
  <2>2. PICK f \in [0..m -> V] : Recurses(f, m, base, R, prev, step)
    BY <1>2, <2>1
  <2> DEFINE v == IF m + 1 \in R THEN step[m + 1][f[prev[m + 1]]] ELSE base[m + 1]
             h == [k \in 0..(m + 1) |-> IF k \in 0..m THEN f[k] ELSE v]
  <2>3. v \in V
    <3>1. CASE m + 1 \in R
      <4>1. prev[m + 1] \in 0..m
        BY <3>1
      <4>2. f[prev[m + 1]] \in V
        BY <4>1
      <4>3. <<m + 1, f[prev[m + 1]]>> \in D \X V
        BY <1>2, <4>2
      <4>4. QED
        BY <3>1, <4>3
    <3>2. CASE m + 1 \notin R
      BY <1>2, <3>2
    <3>3. QED
      BY <3>1, <3>2
  <2>4. h \in [0..(m + 1) -> V]
    <3> HIDE DEF v
    <3>1. QED
      BY <2>3
  <2>5. ASSUME NEW k \in 0..(m + 1)
        PROVE  h[k] = IF k \in R THEN step[k][h[prev[k]]] ELSE base[k]
    <3>1. k \in R => prev[k] \in 0..m /\ prev[k] \in 0..(m + 1)
      OBVIOUS
    <3>2. k \in R => h[prev[k]] = f[prev[k]]
      BY <3>1
    <3>3. CASE k \in 0..m
      <4>1. h[k] = f[k]
        BY <3>3
      <4> HIDE DEF h, v
      <4>2. QED
        BY <2>2, <3>2, <3>3, <4>1 DEF Recurses
    <3>4. CASE k = m + 1
      <4>1. h[k] = v
        BY <3>4
      <4> HIDE DEF h
      <4>2. QED
        BY <3>2, <3>4, <4>1
    <3>5. QED
      BY <3>3, <3>4
  <2> HIDE DEF h
  <2>6. QED
    BY <2>4, <2>5 DEF Recurses
<1> HIDE DEF Good
<1>3. 0 \in T /\ \A m \in Nat : m \in T => m + 1 \in T
  BY <1>1, <1>2
<1>4. Nat \subseteq T
  <2> HIDE DEF T
  <2>1. QED
    BY <1>3, NatSets
<1>5. QED
  BY <1>4 DEF Good

\* A recursion over D, and a function that solves it
Recursive(V, D, base, R, prev, step) ==
  /\ D \subseteq Nat /\ \A k \in D : 0..k \subseteq D
  /\ base \in [D -> V] /\ step \in [D -> [V -> V]]
  /\ R \subseteq D /\ prev \in [R -> Nat] /\ \A k \in R : prev[k] < k

Solves(f, V, D, base, R, prev, step) ==
  /\ f \in [D -> V]
  /\ \A k \in D : f[k] = IF k \in R THEN step[k][f[prev[k]]] ELSE base[k]

\* What is defined by recursion from earlier places exists.
LEMMA Recursion ==
  ASSUME NEW V, NEW D, NEW base, NEW R, NEW prev, NEW step,
         Recursive(V, D, base, R, prev, step)
  PROVE  \E f : Solves(f, V, D, base, R, prev, step)
<1> DEFINE Is(f, n) == f \in [0..n -> V] /\ Recurses(f, n, base, R, prev, step)
           up == [n \in D |-> CHOOSE f : Is(f, n)]
           F == [n \in D |-> up[n][n]]
<1>0. /\ D \in SUBSET Nat /\ R \in SUBSET D /\ R \in SUBSET Nat
      /\ base \in [D -> V] /\ prev \in [R -> Nat] /\ step \in [D -> [V -> V]]
      /\ \A k \in D : 0..k \subseteq D
      /\ \A k \in R : prev[k] < k
  BY DEF Recursive
<1>1. ASSUME NEW n \in D PROVE up[n] \in [0..n -> V] /\ Recurses(up[n], n, base, R, prev, step)
  <2>1. \E f : Is(f, n)
    BY <1>0, RecursionUpTo
  <2> HIDE DEF Is
  <2>2. Is(up[n], n)
    BY <2>1
  <2>3. QED
    BY <2>2 DEF Is
<1> HIDE DEF up
<1>2. F \in [D -> V]
  <2>1. \A n \in D : n \in 0..n
    BY <1>0
  <2>2. QED
    BY <1>1, <2>1
<1>3. ASSUME NEW n \in D PROVE F[n] = IF n \in R THEN step[n][F[prev[n]]] ELSE base[n]
  <2>1. n \in 0..n /\ n \in Nat
    BY <1>0
  <2>2. F[n] = IF n \in R THEN step[n][up[n][prev[n]]] ELSE base[n]
    BY <1>1, <2>1 DEF Recurses
  <2>3. ASSUME n \in R PROVE up[n][prev[n]] = F[prev[n]]
    <3>1. prev[n] \in Nat /\ prev[n] < n /\ prev[n] \in 0..n
      BY <1>0, <2>1, <2>3
    <3>2. prev[n] \in D
      BY <1>0, <3>1
    <3>3. \A k \in Nat : k <= n /\ k <= prev[n] => up[n][k] = up[prev[n]][k]
      <4>1. ASSUME NEW f, NEW g, NEW m \in Nat, Recurses(f, n, base, R, prev, step),
                   Recurses(g, m, base, R, prev, step)
            PROVE  \A k \in Nat : k <= n /\ k <= m => f[k] = g[k]
        BY <1>0, <2>1, <4>1, RecursionUnique
      <4>2. QED
        BY <1>1, <3>1, <3>2, <4>1
    <3>4. up[n][prev[n]] = up[prev[n]][prev[n]]
      BY <3>1, <3>3
    <3>5. QED
      BY <3>2, <3>4
  <2> HIDE DEF F
  <2>4. QED
    BY <2>2, <2>3
<1> HIDE DEF F
<1>4. QED
  BY <1>2, <1>3 DEF Solves

-----------------------------------------------------------------------------
(* Powers, digits and numbers *)

Digits == ToSet(Digit)

\* The powers of ten, by their recursion
LEMMA PowerFacts ==
  /\ Power[0] = 1
  /\ \A n \in Nat : Power[n] \in Nat /\ Power[n] > 0 /\ Power[n + 1] = 10 * Power[n]
<1> DEFINE V == Nat \ {0}
           base == [n \in Nat |-> 1]
           prev == [n \in V |-> n - 1]
           step == [n \in Nat |-> [x \in V |-> 10 * x]]
<1>1. Recursive(V, Nat, base, V, prev, step)
  BY DEF Recursive
<1> HIDE DEF V, base, prev, step
<1>2. PICK f : Solves(f, V, Nat, base, V, prev, step)
  BY <1>1, Recursion
<1> USE DEF V
<1>3. /\ f \in [Nat -> V]
      /\ \A k \in Nat : f[k] = IF k \in V THEN step[k][f[prev[k]]] ELSE base[k]
  BY <1>2 DEF Solves
<1>4. ASSUME NEW k \in Nat PROVE f[k] = IF k = 0 THEN 1 ELSE 10 * f[k - 1]
  <2>1. CASE k = 0
    BY <1>3, <2>1 DEF base
  <2>2. CASE k # 0
    <3>1. k \in V /\ prev[k] = k - 1 /\ k - 1 \in Nat
      BY <2>2 DEF prev
    <3>2. f[k] = step[k][f[k - 1]]
      BY <1>3, <3>1
    <3>3. f[k - 1] \in V
      BY <1>3, <3>1
    <3>4. QED
      BY <2>2, <3>2, <3>3 DEF step
  <2>3. QED
    BY <2>1, <2>2
<1>5. f = [k \in Nat |-> IF k = 0 THEN 1 ELSE 10 * f[k - 1]]
  BY <1>3, <1>4
<1>6. Power = [k \in Nat |-> IF k = 0 THEN 1 ELSE 10 * Power[k - 1]]
  BY <1>5 DEF Power
<1>7. Power[0] = 1
  BY <1>6
<1>8. ASSUME NEW k \in Nat PROVE Power[k + 1] = 10 * Power[k]
  <2>1. k + 1 \in Nat /\ k + 1 # 0 /\ (k + 1) - 1 = k
    OBVIOUS
  <2>2. Power[k + 1] = IF k + 1 = 0 THEN 1 ELSE 10 * Power[(k + 1) - 1]
    BY <1>6, <2>1
  <2>3. QED
    BY <2>1, <2>2
<1> DEFINE T == {k \in Nat : Power[k] \in Nat /\ Power[k] > 0}
<1>9. 0 \in T /\ \A k \in Nat : k \in T => k + 1 \in T
  BY <1>7, <1>8
<1> HIDE DEF T
<1>10. Nat \subseteq T
  BY <1>9, NatSets
<1>11. QED
  BY <1>7, <1>8, <1>10 DEF T

\* A power of a sum is the product of the powers.
LEMMA PowerSum ==
  ASSUME NEW a \in Nat, NEW b \in Nat
  PROVE  Power[a + b] = Power[a] * Power[b]
<1> DEFINE T == {n \in Nat : Power[a + n] = Power[a] * Power[n]}
<1>1. 0 \in T
  BY PowerFacts
<1>2. ASSUME NEW n \in Nat, n \in T PROVE n + 1 \in T
  <2>1. a + (n + 1) = (a + n) + 1 /\ a + n \in Nat
    OBVIOUS
  <2>2. Power[(a + n) + 1] = 10 * Power[a + n] /\ Power[n + 1] = 10 * Power[n]
    BY <2>1, PowerFacts
  <2>3. ASSUME NEW x \in Nat, NEW y \in Nat PROVE 10 * (x * y) = x * (10 * y)
    OBVIOUS
  <2>4. Power[a + (n + 1)] = Power[a] * Power[n + 1]
    BY <1>2, <2>1, <2>2, <2>3, PowerFacts
  <2>5. QED
    BY <2>4
<1> HIDE DEF T
<1>3. Nat \subseteq T
  BY <1>1, <1>2, NatSets
<1>4. QED
  BY <1>3 DEF T

\* The digits and what they count
LEMMA DigitFacts ==
  /\ Digits = {"0", "1", "2", "3", "4", "5", "6", "7", "8", "9"}
  /\ \A d \in 0..9 : Digit[d + 1] \in Digits /\ DigitValue(Digit[d + 1]) = d
  /\ \A c \in Digits : DigitValue(c) \in 0..9
  /\ DigitValue("0") = 0
<1>1. Digits = {"0", "1", "2", "3", "4", "5", "6", "7", "8", "9"}
  <2>1. DOMAIN Digit = 1..10
    BY DEF Digit
  <2>2. 1..10 = {1, 2, 3, 4, 5, 6, 7, 8, 9, 10}
    OBVIOUS
  <2>3. Digits = {Digit[i] : i \in {1, 2, 3, 4, 5, 6, 7, 8, 9, 10}}
    BY <2>1, <2>2 DEF Digits, ToSet
  <2>4. QED
    BY <2>3 DEF Digit
<1>2. 0..9 = {0, 1, 2, 3, 4, 5, 6, 7, 8, 9}
  OBVIOUS
<1>3. \A d \in 0..9 : Digit[d + 1] \in Digits
  BY <1>1, <1>2 DEF Digit
<1>4. \A d, e \in 0..9 : Digit[d + 1] = Digit[e + 1] => d = e
  BY <1>2 DEF Digit
<1>5. \A c \in Digits : \E d \in 0..9 : Digit[d + 1] = c
  BY <1>1, <1>2 DEF Digit
<1>6. \A d \in 0..9 : DigitValue(Digit[d + 1]) = d
  BY <1>4 DEF DigitValue
<1>7. \A c \in Digits : DigitValue(c) \in 0..9
  BY <1>5 DEF DigitValue
<1>8. DigitValue("0") = 0
  <2>1. Digit[0 + 1] = "0" /\ 0 \in 0..9
    BY DEF Digit
  <2>2. QED
    BY <2>1, <1>6
<1>9. QED
  BY <1>1, <1>3, <1>6, <1>7, <1>8

\* NumberOf by its partial sums
LEMMA NumberSums ==
  ASSUME NEW t \in Seq(Digits)
  PROVE  \E f \in [0..Len(t) -> Nat] :
           /\ f[0] = 0 /\ f[Len(t)] = NumberOf(t)
           /\ \A k \in 0..Len(t) - 1 : f[k + 1] = 10 * f[k] + DigitValue(t[k + 1])
<1> DEFINE D == 0..Len(t)
           base == [n \in D |-> 0]
           prev == [n \in 1..Len(t) |-> n - 1]
           step == [n \in D |-> [x \in Nat |-> IF n = 0 THEN 0 ELSE 10 * x + DigitValue(t[n])]]
<1>1. Len(t) \in Nat /\ \A k \in 1..Len(t) : DigitValue(t[k]) \in Nat
  BY DigitFacts
<1> DEFINE R == 1..Len(t)
<1>2. Recursive(Nat, D, base, R, prev, step)
  BY <1>1 DEF Recursive
<1> HIDE DEF D, R, base, prev, step
<1>3. PICK f : Solves(f, Nat, D, base, R, prev, step)
  BY <1>2, Recursion
<1> USE DEF D, R
<1>4. /\ f \in [D -> Nat]
      /\ \A k \in D : f[k] = IF k \in R THEN step[k][f[prev[k]]] ELSE base[k]
  BY <1>3 DEF Solves
<1>5. ASSUME NEW k \in D
      PROVE  f[k] = IF k = 0 THEN 0 ELSE 10 * f[k - 1] + DigitValue(t[k])
  <2>1. CASE k = 0
    BY <1>4, <2>1 DEF base
  <2>2. CASE k # 0
    <3>1. k \in 1..Len(t) /\ prev[k] = k - 1 /\ k - 1 \in D
      BY <1>1, <2>2 DEF prev
    <3>2. f[k] = step[k][f[k - 1]]
      BY <1>4, <3>1
    <3>3. f[k - 1] \in Nat
      BY <1>4, <3>1
    <3>4. QED
      BY <2>2, <3>2, <3>3 DEF step
  <2>3. QED
    BY <2>1, <2>2
<1>6. f = [k \in D |-> IF k = 0 THEN 0 ELSE 10 * f[k - 1] + DigitValue(t[k])]
  BY <1>4, <1>5
<1> DEFINE number ==
             CHOOSE g : g = [k \in D |-> IF k = 0 THEN 0 ELSE 10 * g[k - 1] + DigitValue(t[k])]
<1>7. number = [k \in D |-> IF k = 0 THEN 0 ELSE 10 * number[k - 1] + DigitValue(t[k])]
  BY <1>6
<1>8. NumberOf(t) = number[Len(t)]
  BY DEF NumberOf
<1> HIDE DEF number
<1> DEFINE T == {k \in Nat : k <= Len(t) => number[k] \in Nat}
<1>9. /\ number[0] = 0
      /\ \A k \in 0..Len(t) - 1 : number[k + 1] = 10 * number[k] + DigitValue(t[k + 1])
  <2>1. 0 \in D
    BY <1>1
  <2>2. number[0] = 0
    BY <1>7, <2>1
  <2>3. ASSUME NEW k \in 0..Len(t) - 1
        PROVE number[k + 1] = 10 * number[k] + DigitValue(t[k + 1])
    <3>1. k + 1 \in D /\ k + 1 # 0 /\ (k + 1) - 1 = k
      BY <1>1
    <3>2. number[k + 1] = IF k + 1 = 0 THEN 0 ELSE 10 * number[(k + 1) - 1] + DigitValue(t[k + 1])
      BY <1>7, <3>1
    <3>3. QED
      BY <3>1, <3>2
  <2>4. QED
    BY <2>2, <2>3
<1>10. 0 \in T
  BY <1>9
<1>11. ASSUME NEW k \in Nat, k \in T PROVE k + 1 \in T
  <2>1. SUFFICES ASSUME k + 1 <= Len(t) PROVE number[k + 1] \in Nat
    OBVIOUS
  <2>2. k \in 0..Len(t) - 1 /\ k + 1 \in 1..Len(t) /\ k <= Len(t)
    BY <1>1, <2>1
  <2>3. number[k] \in Nat /\ DigitValue(t[k + 1]) \in Nat
    BY <1>1, <1>11, <2>2
  <2>4. number[k + 1] = 10 * number[k] + DigitValue(t[k + 1])
    BY <1>9, <2>2
  <2>5. QED
    BY <2>3, <2>4
<1> HIDE DEF T
<1>12. Nat \subseteq T
  BY <1>10, <1>11, NatSets
<1>13. \A k \in D : number[k] \in Nat
  BY <1>1, <1>12 DEF T
<1>14. number \in [0..Len(t) -> Nat]
  BY <1>7, <1>13
<1>15. QED
  BY <1>8, <1>9, <1>14

\* An empty text counts nothing.
LEMMA NumberEmpty == NumberOf(<<>>) = 0
<1>1. <<>> \in Seq(Digits) /\ Len(<<>>) = 0
  OBVIOUS
<1>2. QED
  BY <1>1, NumberSums

\* A digit appended is the last of the number.
LEMMA NumberAppend ==
  ASSUME NEW t \in Seq(Digits), NEW c \in Digits
  PROVE  /\ NumberOf(t) \in Nat
         /\ NumberOf(Append(t, c)) = 10 * NumberOf(t) + DigitValue(c)
<1> DEFINE u == Append(t, c)
<1>1. /\ u \in Seq(Digits) /\ Len(u) = Len(t) + 1 /\ Len(t) \in Nat /\ u[Len(t) + 1] = c
      /\ \A k \in 1..Len(t) : u[k] = t[k]
  OBVIOUS
<1> HIDE DEF u
<1>2. PICK f \in [0..Len(t) -> Nat] :
        /\ f[0] = 0 /\ f[Len(t)] = NumberOf(t)
        /\ \A k \in 0..Len(t) - 1 : f[k + 1] = 10 * f[k] + DigitValue(t[k + 1])
  BY NumberSums
<1>3. PICK g \in [0..Len(u) -> Nat] :
        /\ g[0] = 0 /\ g[Len(u)] = NumberOf(u)
        /\ \A k \in 0..Len(u) - 1 : g[k + 1] = 10 * g[k] + DigitValue(u[k + 1])
  BY <1>1, NumberSums
<1> DEFINE T == {k \in Nat : k <= Len(t) => f[k] = g[k]}
<1>4. 0 \in T
  BY <1>2, <1>3
<1>5. ASSUME NEW k \in Nat, k \in T PROVE k + 1 \in T
  <2>1. SUFFICES ASSUME k + 1 <= Len(t) PROVE f[k + 1] = g[k + 1]
    OBVIOUS
  <2>2. /\ k \in 0..Len(t) - 1 /\ k \in 0..Len(u) - 1 /\ k + 1 \in 1..Len(t) /\ k <= Len(t)
    BY <1>1, <2>1
  <2>3. f[k] = g[k] /\ u[k + 1] = t[k + 1]
    BY <1>1, <1>5, <2>2
  <2>4. QED
    BY <1>2, <1>3, <2>2, <2>3
<1> HIDE DEF T
<1>6. Nat \subseteq T
  BY <1>4, <1>5, NatSets
<1>7. f[Len(t)] = g[Len(t)]
  BY <1>1, <1>6 DEF T
<1>8. Len(t) \in 0..Len(u) - 1 /\ Len(t) \in 0..Len(t)
  BY <1>1
<1>9. g[Len(t) + 1] = 10 * g[Len(t)] + DigitValue(c)
  BY <1>1, <1>3, <1>8
<1>10. f[Len(t)] \in Nat
  BY <1>8
<1>11. QED
  BY <1>1, <1>2, <1>3, <1>7, <1>9, <1>10 DEF u

\* A text that is not empty is one with a character appended.
LEMMA LastDigit ==
  ASSUME NEW t \in Seq(Digits), NEW n \in Nat, Len(t) = n + 1
  PROVE  \E u \in Seq(Digits), c \in Digits : Len(u) = n /\ t = Append(u, c)
<1> DEFINE u == [i \in 1..n |-> t[i]]
<1>1. u \in Seq(Digits) /\ Len(u) = n
  OBVIOUS
<1>2. t[n + 1] \in Digits
  OBVIOUS
<1>3. t = Append(u, t[n + 1])
  <2>1. Append(u, t[n + 1]) \in Seq(Digits) /\ Len(Append(u, t[n + 1])) = Len(t)
    BY <1>1, <1>2
  <2>2. ASSUME NEW i \in 1..n + 1 PROVE t[i] = Append(u, t[n + 1])[i]
    <3>1. CASE i = n + 1
      BY <1>1, <3>1
    <3>2. CASE i \in 1..n
      BY <1>1, <3>2
    <3>3. QED
      BY <3>1, <3>2
  <2> HIDE DEF u
  <2>3. QED
    BY <2>1, <2>2
<1>4. QED
  BY <1>1, <1>2, <1>3

\* A text continued by another is its number shifted by as many digits, plus the number of
\* the other, which is less than that power.
LEMMA NumberConcat ==
  ASSUME NEW s \in Seq(Digits), NEW t \in Seq(Digits)
  PROVE  /\ NumberOf(s) \in Nat
         /\ NumberOf(s \o t) = NumberOf(s) * Power[Len(t)] + NumberOf(t)
         /\ NumberOf(t) < Power[Len(t)]
<1> DEFINE Good(u) == /\ NumberOf(s \o u) = NumberOf(s) * Power[Len(u)] + NumberOf(u)
                      /\ NumberOf(u) < Power[Len(u)]
           T == {n \in Nat : \A u \in Seq(Digits) : Len(u) = n => Good(u)}
<1>1. NumberOf(s) \in Nat
  BY DigitFacts, NumberAppend
<1>2. 0 \in T
  <2>1. ASSUME NEW u \in Seq(Digits), Len(u) = 0 PROVE Good(u)
    <3>1. u = <<>> /\ s \o u = s
      BY <2>1
    <3>2. Power[Len(u)] = 1 /\ NumberOf(u) = 0
      BY <2>1, <3>1, NumberEmpty, PowerFacts
    <3>3. NumberOf(s) * 1 + 0 = NumberOf(s)
      BY <1>1
    <3>4. QED
      BY <3>1, <3>2, <3>3
  <2>2. QED
    BY <2>1
<1>3. ASSUME NEW n \in Nat, n \in T PROVE n + 1 \in T
  <2>1. ASSUME NEW u \in Seq(Digits), Len(u) = n + 1 PROVE Good(u)
    <3>1. PICK v \in Seq(Digits), c \in Digits : Len(v) = n /\ u = Append(v, c)
      BY <2>1, LastDigit
    <3>2. s \o v \in Seq(Digits) /\ s \o u = Append(s \o v, c)
      BY <3>1
    <3>3. Good(v)
      BY <1>3, <3>1
    <3>4. /\ NumberOf(v) \in Nat /\ NumberOf(u) = 10 * NumberOf(v) + DigitValue(c)
          /\ NumberOf(s \o u) = 10 * NumberOf(s \o v) + DigitValue(c)
      BY <3>1, <3>2, NumberAppend
    <3>5. DigitValue(c) \in 0..9
      BY DigitFacts
    <3>6. Power[n] \in Nat /\ Power[n + 1] = 10 * Power[n]
      BY PowerFacts
    <3>7. NumberOf(u) < Power[Len(u)]
      BY <2>1, <3>1, <3>3, <3>4, <3>5, <3>6
    <3>8. ASSUME NEW a \in Nat, NEW p \in Nat PROVE 10 * (a * p) = a * (10 * p)
      OBVIOUS
    <3>9. NumberOf(s \o v) = NumberOf(s) * Power[n] + NumberOf(v)
      BY <3>1, <3>3
    <3>10. NumberOf(s) * Power[n + 1] = 10 * (NumberOf(s) * Power[n])
      BY <1>1, <3>6, <3>8
    <3>11. NumberOf(s) * Power[n] \in Nat
      BY <1>1, <3>6
    <3>12. NumberOf(s \o u) = NumberOf(s) * Power[n + 1] + NumberOf(u)
      <4>1. ASSUME NEW x \in Nat, NEW y \in Nat, NEW d \in Nat
            PROVE  10 * (x + y) + d = 10 * x + (10 * y + d)
        OBVIOUS
      <4>2. DigitValue(c) \in Nat
        BY <3>5
      <4>3. NumberOf(s \o u) = 10 * (NumberOf(s) * Power[n] + NumberOf(v)) + DigitValue(c)
        BY <3>4, <3>9
      <4>4. NumberOf(s \o u) = 10 * (NumberOf(s) * Power[n]) + (10 * NumberOf(v) + DigitValue(c))
        BY <3>4, <3>11, <4>1, <4>2, <4>3
      <4>5. QED
        BY <3>4, <3>10, <4>4
    <3>13. QED
      BY <2>1, <3>7, <3>12
  <2> HIDE DEF Good
  <2>2. QED
    BY <2>1
<1> HIDE DEF T
<1>4. Nat \subseteq T
  BY <1>2, <1>3, NatSets
<1>5. Len(t) \in Nat
  OBVIOUS
<1>6. QED
  BY <1>1, <1>4, <1>5 DEF T

\* Zeros, as many as asked for, which count nothing
LEMMA ZerosFacts ==
  ASSUME NEW n \in Int
  PROVE  /\ Zeros(n) \in Seq(Digits) /\ Len(Zeros(n)) = (IF n < 0 THEN 0 ELSE n)
         /\ NumberOf(Zeros(n)) = 0
         /\ \A i \in 1..n : Zeros(n)[i] = "0"
<1> DEFINE T == {k \in Nat : NumberOf(Zeros(k)) = 0}
<1>1. ASSUME NEW k \in Nat PROVE Zeros(k) \in Seq(Digits) /\ Len(Zeros(k)) = k
  BY DigitFacts DEF Zeros
<1>2. 0 \in T
  <2>1. Zeros(0) = <<>>
    BY <1>1
  <2>2. QED
    BY <2>1, NumberEmpty
<1>3. ASSUME NEW k \in Nat, k \in T PROVE k + 1 \in T
  <2>1. "0" \in Digits
    BY DigitFacts
  <2>2. Zeros(k + 1) = Append(Zeros(k), "0")
    <3>1. Append(Zeros(k), "0") \in Seq(Digits) /\ Len(Append(Zeros(k), "0")) = k + 1
      BY <1>1, <2>1
    <3>2. \A i \in 1..k + 1 : Append(Zeros(k), "0")[i] = "0"
      BY <1>1 DEF Zeros
    <3>3. \A i \in 1..k + 1 : Zeros(k + 1)[i] = "0"
      BY DEF Zeros
    <3>4. Zeros(k + 1) \in Seq(Digits) /\ Len(Zeros(k + 1)) = k + 1
      BY <1>1
    <3>5. QED
      BY <3>1, <3>2, <3>3, <3>4
  <2>3. QED
    <3>1. NumberOf(Zeros(k + 1)) = 10 * NumberOf(Zeros(k)) + DigitValue("0")
      BY <1>1, <2>1, <2>2, NumberAppend
    <3>2. NumberOf(Zeros(k)) = 0 /\ DigitValue("0") = 0
      BY <1>3, DigitFacts
    <3>3. QED
      BY <3>1, <3>2
<1> HIDE DEF T
<1>4. Nat \subseteq T
  BY <1>2, <1>3, NatSets
<1>5. CASE n \in Nat
  BY <1>1, <1>4, <1>5 DEF T, Zeros
<1>6. CASE n < 0
  <2>1. 1..n = {}
    BY <1>6
  <2>2. Zeros(n) = <<>>
    BY <2>1 DEF Zeros
  <2>3. QED
    BY <1>6, <2>1, <2>2, NumberEmpty
<1>7. QED
  BY <1>5, <1>6

\* The digits of a number, which are at least one
LEMMA DigitsOfFacts ==
  ASSUME NEW n \in Nat
  PROVE  DigitsOf[n] \in Seq(Digits) /\ Len(DigitsOf[n]) >= 1 /\ NumberOf(DigitsOf[n]) = n
<1> DEFINE V == Seq(Digits)
           R == Nat \ 0..9
           base == [k \in Nat |-> IF k < 10 THEN <<Digit[k + 1]>> ELSE <<>>]
           prev == [k \in R |-> k \div 10]
           step == [k \in Nat |-> [x \in V |-> Append(x, Digit[(k % 10) + 1])]]
<1>1. \A k \in Nat : k % 10 \in 0..9 /\ k \div 10 \in Nat /\ k = 10 * (k \div 10) + (k % 10)
  OBVIOUS
<1>2. \A d \in 0..9 : Digit[d + 1] \in Digits /\ DigitValue(Digit[d + 1]) = d
  BY DigitFacts
<1>3. Recursive(V, Nat, base, R, prev, step)
  <2>1. base \in [Nat -> V]
    <3>1. ASSUME NEW k \in Nat PROVE base[k] \in V
      <4>1. CASE k < 10
        <5>1. k \in 0..9
          BY <4>1
        <5>2. Digit[k + 1] \in Digits
          BY <1>2, <5>1
        <5>3. QED
          BY <4>1, <5>2
      <4>2. CASE ~(k < 10)
        BY <4>2
      <4>3. QED
        BY <4>1, <4>2
    <3>2. QED
      BY <3>1
  <2>2. step \in [Nat -> [V -> V]]
    <3>1. ASSUME NEW k \in Nat, NEW x \in V PROVE Append(x, Digit[(k % 10) + 1]) \in V
      <4>1. Digit[(k % 10) + 1] \in Digits
        BY <1>1, <1>2
      <4>2. QED
        BY <4>1
    <3>2. QED
      BY <3>1
  <2>3. prev \in [R -> Nat] /\ \A k \in R : prev[k] < k
    BY <1>1
  <2>4. QED
    BY <2>1, <2>2, <2>3 DEF Recursive
<1> HIDE DEF V, R, base, prev, step
<1>4. PICK f : Solves(f, V, Nat, base, R, prev, step)
  BY <1>3, Recursion
<1>5. /\ f \in [Nat -> V]
      /\ \A k \in Nat : f[k] = IF k \in R THEN step[k][f[prev[k]]] ELSE base[k]
  BY <1>4 DEF Solves
<1>6. ASSUME NEW k \in Nat
      PROVE  f[k] = IF k < 10 THEN <<Digit[k + 1]>>
                    ELSE Append(f[k \div 10], Digit[(k % 10) + 1])
  <2>1. CASE k < 10
    <3>1. k \notin R /\ base[k] = <<Digit[k + 1]>>
      BY <2>1 DEF R, base
    <3>2. QED
      BY <1>5, <2>1, <3>1
  <2>2. CASE ~(k < 10)
    <3>1. k \in R /\ prev[k] = k \div 10
      BY <2>2 DEF R, prev
    <3>2. f[k \div 10] \in V
      BY <1>1, <1>5
    <3>3. QED
      BY <1>5, <2>2, <3>1, <3>2 DEF step
  <2>3. QED
    BY <2>1, <2>2
<1>7. f = [k \in Nat |-> IF k < 10 THEN <<Digit[k + 1]>>
                         ELSE Append(f[k \div 10], Digit[(k % 10) + 1])]
  BY <1>5, <1>6
<1>8. DigitsOf = [k \in Nat |-> IF k < 10 THEN <<Digit[k + 1]>>
                                ELSE Append(DigitsOf[k \div 10], Digit[(k % 10) + 1])]
  BY <1>7 DEF DigitsOf
<1> DEFINE T == {k \in Nat : /\ DigitsOf[k] \in Seq(Digits) /\ Len(DigitsOf[k]) >= 1
                             /\ NumberOf(DigitsOf[k]) = k}
<1>9. ASSUME NEW k \in Nat, \A j \in Nat : j < k => j \in T
      PROVE  k \in T
  <2>1. CASE k < 10
    <3>1. k \in 0..9
      BY <2>1
    <3>2. DigitsOf[k] = <<Digit[k + 1]>> /\ Digit[k + 1] \in Digits
      BY <1>2, <1>8, <2>1, <3>1
    <3>3. DigitsOf[k] = Append(<<>>, Digit[k + 1]) /\ <<>> \in Seq(Digits)
      BY <3>2
    <3>4. NumberOf(DigitsOf[k]) = 10 * 0 + DigitValue(Digit[k + 1])
      BY <3>2, <3>3, NumberAppend, NumberEmpty
    <3>5. NumberOf(DigitsOf[k]) = k
      BY <1>2, <3>1, <3>4
    <3>6. DigitsOf[k] \in Seq(Digits) /\ Len(DigitsOf[k]) >= 1
      BY <3>2
    <3>7. QED
      BY <3>5, <3>6
  <2>2. CASE ~(k < 10)
    <3>1. k \div 10 \in Nat /\ k \div 10 < k /\ k % 10 \in 0..9
      BY <2>2
    <3>2. DigitsOf[k] = Append(DigitsOf[k \div 10], Digit[(k % 10) + 1])
      BY <1>8, <2>2
    <3>3. /\ DigitsOf[k \div 10] \in Seq(Digits) /\ Len(DigitsOf[k \div 10]) >= 1
          /\ NumberOf(DigitsOf[k \div 10]) = k \div 10
      BY <1>9, <3>1
    <3>4. Digit[(k % 10) + 1] \in Digits /\ DigitValue(Digit[(k % 10) + 1]) = k % 10
      BY <1>2, <3>1
    <3>5. NumberOf(DigitsOf[k]) = 10 * (k \div 10) + (k % 10)
      BY <3>2, <3>3, <3>4, NumberAppend
    <3>6. DigitsOf[k] \in Seq(Digits) /\ Len(DigitsOf[k]) >= 1
      BY <3>2, <3>3, <3>4
    <3>7. QED
      BY <1>1, <3>5, <3>6
  <2>3. QED
    BY <2>1, <2>2
<1> HIDE DEF T
<1>10. Nat \subseteq T
  BY <1>9, NatSetsBelow
<1>11. QED
  BY <1>10 DEF T

-----------------------------------------------------------------------------
(* Reading a text *)

\* All of a text of digits is kept.
LEMMA OnlyDigitsFacts ==
  ASSUME NEW t \in Seq(Digits)
  PROVE  OnlyDigits(t) = t
<1> DEFINE D == 0..Len(t)
           Body(g, k) == IF k = 0 THEN <<>>
                         ELSE IF IsDigit(t[k]) THEN Append(g[k - 1], t[k]) ELSE g[k - 1]
           f == [k \in D |-> [i \in 1..k |-> t[i]]]
           kept == CHOOSE g : g = [k \in D |-> Body(g, k)]
<1>1. Len(t) \in Nat /\ \A k \in 1..Len(t) : t[k] \in Digits
  OBVIOUS
<1>2. ASSUME NEW k \in D PROVE f[k] = Body(f, k)
  <2>1. CASE k = 0
    BY <2>1
  <2>2. CASE k # 0
    <3>1. k \in 1..Len(t) /\ k - 1 \in D /\ k \in Nat /\ k - 1 \in Nat
      BY <1>1, <2>2
    <3>2. IsDigit(t[k])
      BY <1>1, <3>1 DEF IsDigit, Digits
    <3> DEFINE a == [i \in 1..(k - 1) |-> t[i]]
               b == [i \in 1..k |-> t[i]]
    <3>3. a \in Seq(Digits) /\ Len(a) = k - 1 /\ b \in Seq(Digits) /\ Len(b) = k
      BY <3>1
    <3>4. Append(a, t[k]) \in Seq(Digits) /\ Len(Append(a, t[k])) = k
      BY <3>1, <3>3
    <3>5. ASSUME NEW i \in 1..k PROVE Append(a, t[k])[i] = b[i]
      <4>1. CASE i = k
        BY <3>1, <3>3, <4>1
      <4>2. CASE i # k
        <5>1. i \in 1..(k - 1)
          BY <3>1, <4>2
        <5>2. QED
          BY <3>3, <5>1
      <4>3. QED
        BY <4>1, <4>2
    <3>6. f[k] = b /\ f[k - 1] = a
      BY <3>1
    <3> HIDE DEF a, b, f
    <3>7. Append(a, t[k]) = b
      BY <3>3, <3>4, <3>5
    <3>8. QED
      BY <2>2, <3>2, <3>6, <3>7
  <2>3. QED
    BY <2>1, <2>2
<1>3. DOMAIN f = D /\ f = [k \in D |-> f[k]]
  OBVIOUS
<1>4. OnlyDigits(t) = kept[Len(t)]
  BY DEF OnlyDigits
<1> HIDE DEF f
<1>5. f = [k \in D |-> Body(f, k)]
  BY <1>2, <1>3
<1>6. kept = [k \in D |-> Body(kept, k)]
  BY <1>5
<1> HIDE DEF kept
<1> DEFINE T == {k \in Nat : k <= Len(t) => kept[k] = f[k]}
<1>7. 0 \in T
  BY <1>1, <1>5, <1>6
<1>8. ASSUME NEW k \in Nat, k \in T PROVE k + 1 \in T
  <2>1. SUFFICES ASSUME k + 1 <= Len(t) PROVE kept[k + 1] = f[k + 1]
    OBVIOUS
  <2>2. k + 1 \in D /\ (k + 1) - 1 = k /\ k <= Len(t)
    BY <1>1, <2>1
  <2>3. kept[k] = f[k]
    BY <1>8, <2>2
  <2>4. Body(kept, k + 1) = Body(f, k + 1)
    BY <2>2, <2>3
  <2> HIDE DEF Body
  <2>5. QED
    BY <1>5, <1>6, <2>2, <2>4
<1> HIDE DEF T
<1>9. Nat \subseteq T
  BY <1>7, <1>8, NatSets
<1>10. kept[Len(t)] = f[Len(t)]
  BY <1>1, <1>9 DEF T
<1>11. f[Len(t)] = t
  <2>1. Len(t) \in D
    BY <1>1
  <2>2. QED
    BY <2>1 DEF f
<1>12. QED
  BY <1>4, <1>10, <1>11

\* A quotient is the one that leaves a remainder less than the divisor.
LEMMA QuotientUnique ==
  ASSUME NEW p \in Nat, p > 0, NEW q \in Nat, NEW r \in Nat, r < p
  PROVE  (q * p + r) \div p = q
<1> DEFINE a == q * p + r
           d == a \div p
           m == a % p
<1>1. q * p \in Nat /\ a \in Nat
  OBVIOUS
<1> HIDE DEF a
<1>2. d \in Nat /\ m \in Nat /\ m < p /\ a = d * p + m
  BY <1>1
<1> HIDE DEF d, m
<1>3. ASSUME d < q PROVE FALSE
  <2>1. d + 1 <= q
    BY <1>2, <1>3
  <2>2. (d + 1) * p <= q * p
    BY <1>2, <2>1
  <2>3. (d + 1) * p = d * p + p
    BY <1>2
  <2>4. d * p \in Nat
    BY <1>2
  <2>5. QED
    BY <1>1, <1>2, <2>2, <2>3, <2>4 DEF a
<1>4. ASSUME q < d PROVE FALSE
  <2>1. q + 1 <= d
    BY <1>2, <1>4
  <2>2. (q + 1) * p <= d * p
    BY <1>2, <2>1
  <2>3. (q + 1) * p = q * p + p
    OBVIOUS
  <2>4. d * p \in Nat
    BY <1>2
  <2>5. QED
    BY <1>1, <1>2, <2>2, <2>3, <2>4 DEF a
<1>5. d = q
  BY <1>2, <1>3, <1>4
<1>6. QED
  BY <1>5 DEF a, d

Chars == Digits \cup {".", "-", "e"}

\* A text of digits has no sign and no fraction.
LEMMA DigitsPlain ==
  ASSUME NEW t \in Seq(Digits)
  PROVE  Points(t) = {} /\ ~Negative(t) /\ Unsigned(t) = t /\ Whole(t) = t /\ Fraction(t) = <<>>
<1>1. \A k \in 1..Len(t) : t[k] # "." /\ t[k] # "-"
  BY DigitFacts
<1>2. Points(t) = {}
  BY <1>1 DEF Points
<1>3. ~Negative(t)
  BY <1>1 DEF Negative
<1>4. QED
  BY <1>2, <1>3 DEF Unsigned, Whole, Fraction

\* A text of digits reads as its number, scaled.
LEMMA ParseWhole ==
  ASSUME NEW t \in Seq(Digits), NEW scale \in Nat
  PROVE  Parse(t, scale) = NumberOf(t) * Power[scale]
<1>1. <<>> \in Seq(Digits) /\ OnlyDigits(<<>>) = <<>>
  <2>1. <<>> \in Seq(Digits)
    OBVIOUS
  <2>2. QED
    BY <2>1, OnlyDigitsFacts
<1>2. Zeros(scale) \in Seq(Digits) /\ Len(Zeros(scale)) = scale /\ NumberOf(Zeros(scale)) = 0
  BY ZerosFacts
<1>3. <<>> \o Zeros(scale) = Zeros(scale) /\ SubSeq(Zeros(scale), 1, scale) = Zeros(scale)
  BY <1>2
<1>4. Parse(t, scale) = NumberOf(t \o Zeros(scale))
  BY <1>1, <1>3, DigitsPlain DEF Parse
<1>5. /\ NumberOf(t \o Zeros(scale)) = NumberOf(t) * Power[scale] + 0
      /\ NumberOf(t) \in Nat /\ Power[scale] \in Nat
  BY <1>2, NumberConcat, PowerFacts
<1>6. NumberOf(t) * Power[scale] \in Nat
  BY <1>5
<1>7. QED
  BY <1>4, <1>5, <1>6

\* A text with one point falls into its whole part and its fraction.
LEMMA PointFacts ==
  ASSUME NEW w \in Seq(Digits), Len(w) >= 1, NEW f \in Seq(Digits),
         NEW text, text = w \o <<".">> \o f
  PROVE  /\ text \in Seq(Chars) /\ Len(text) = Len(w) + 1 + Len(f)
         /\ \A k \in 1..Len(w) : text[k] = w[k]
         /\ text[Len(w) + 1] = "."
         /\ \A k \in 1..Len(f) : text[Len(w) + 1 + k] = f[k]
         /\ ~Negative(text) /\ Unsigned(text) = text /\ Points(text) = {Len(w) + 1}
         /\ Whole(text) = w /\ Fraction(text) = f
<1>1. w \in Seq(Chars) /\ f \in Seq(Chars) /\ <<".">> \in Seq(Chars) /\ Len(<<".">>) = 1
  BY DEF Chars
<1>2. /\ text \in Seq(Chars) /\ Len(text) = Len(w) + 1 + Len(f)
      /\ \A k \in 1..Len(w) : text[k] = w[k]
      /\ text[Len(w) + 1] = "."
      /\ \A k \in 1..Len(f) : text[Len(w) + 1 + k] = f[k]
  <2> DEFINE s == w \o <<".">>
  <2>1. s \in Seq(Chars) /\ Len(s) = Len(w) + 1 /\ s[Len(w) + 1] = "."
        /\ \A k \in 1..Len(w) : s[k] = w[k]
    BY <1>1
  <2> HIDE DEF s
  <2>2. text = s \o f
    BY DEF s
  <2>3. /\ text \in Seq(Chars) /\ Len(text) = Len(s) + Len(f)
        /\ \A k \in 1..Len(s) : text[k] = s[k]
        /\ \A k \in 1..Len(f) : text[Len(s) + k] = f[k]
    BY <1>1, <2>1, <2>2
  <2>4. QED
    BY <2>1, <2>3
<1>3. Len(w) \in Nat /\ Len(f) \in Nat
  OBVIOUS
<1>4. \A k \in 1..Len(w) : w[k] # "." /\ w[k] # "-"
  <2>1. \A k \in 1..Len(w) : w[k] \in Digits
    OBVIOUS
  <2>2. QED
    BY <2>1, DigitFacts
<1>5. \A k \in 1..Len(f) : f[k] # "."
  <2>1. \A k \in 1..Len(f) : f[k] \in Digits
    OBVIOUS
  <2>2. QED
    BY <2>1, DigitFacts
<1>6. ~Negative(text)
  BY <1>2, <1>3, <1>4 DEF Negative
<1>7. Points(text) = {Len(w) + 1}
  <2>1. ASSUME NEW k \in 1..Len(text) PROVE text[k] = "." <=> k = Len(w) + 1
    <3>1. CASE k <= Len(w)
      BY <1>2, <1>3, <1>4, <3>1
    <3>2. CASE k > Len(w) + 1
      <4>1. k - (Len(w) + 1) \in 1..Len(f) /\ Len(w) + 1 + (k - (Len(w) + 1)) = k
        BY <1>2, <1>3, <3>2
      <4>2. text[k] = f[k - (Len(w) + 1)]
        BY <1>2, <4>1
      <4>3. QED
        BY <1>5, <3>2, <4>1, <4>2
    <3>3. QED
      BY <1>2, <1>3, <3>1, <3>2
  <2>2. Len(w) + 1 \in 1..Len(text)
    BY <1>2, <1>3
  <2>3. QED
    BY <2>1, <2>2 DEF Points
<1>8. Min(Points(text)) = Len(w) + 1
  BY <1>3, <1>7 DEF Min
<1>9. Whole(text) = w
  <2>1. Whole(text) = SubSeq(text, 1, Len(w))
    <3>1. (Len(w) + 1) - 1 = Len(w)
      BY <1>3
    <3>2. QED
      BY <1>7, <1>8, <3>1 DEF Whole
  <2>2. SubSeq(text, 1, Len(w)) \in Seq(Chars) /\ Len(SubSeq(text, 1, Len(w))) = Len(w)
        /\ \A k \in 1..Len(w) : SubSeq(text, 1, Len(w))[k] = w[k]
    BY <1>2, <1>3
  <2>3. SubSeq(text, 1, Len(w)) = w
    BY <1>1, <2>2
  <2>4. QED
    BY <2>1, <2>3
<1>10. Fraction(text) = f
  <2> DEFINE rest == SubSeq(text, Len(w) + 1 + 1, Len(text))
  <2>1. rest \in Seq(Chars) /\ Len(rest) = Len(f) /\ \A k \in 1..Len(f) : rest[k] = f[k]
    <3>1. rest \in Seq(Chars) /\ Len(rest) = Len(f)
      BY <1>2, <1>3
    <3>2. ASSUME NEW k \in 1..Len(f) PROVE rest[k] = f[k]
      <4>1. rest[k] = text[(Len(w) + 1 + 1) + k - 1]
        BY <1>2, <1>3, <3>1
      <4>2. (Len(w) + 1 + 1) + k - 1 = Len(w) + 1 + k
        BY <1>3
      <4>3. QED
        BY <1>2, <4>1, <4>2
    <3>3. QED
      BY <3>1, <3>2
  <2>2. rest = f
    <3> HIDE DEF rest
    <3>1. QED
      BY <1>1, <2>1
  <2>3. Fraction(text) = Whole(rest)
    BY <1>7, <1>8 DEF Fraction
  <2>4. QED
    BY <2>2, <2>3, DigitsPlain
<1>11. QED
  BY <1>2, <1>6, <1>7, <1>9, <1>10 DEF Unsigned

\* A text with a point reads as the number of its digits, scaled by what the fraction leaves
\* of the scale, or cut off where it is longer.
LEMMA ParsePoint ==
  ASSUME NEW w \in Seq(Digits), Len(w) >= 1, NEW f \in Seq(Digits), NEW scale \in Nat
  PROVE  Parse(w \o <<".">> \o f, scale) =
           IF Len(f) <= scale THEN NumberOf(w \o f) * Power[scale - Len(f)]
           ELSE NumberOf(w \o f) \div Power[Len(f) - scale]
<1> DEFINE text == w \o <<".">> \o f
           cut == SubSeq(f \o Zeros(scale), 1, scale)
<1>1. Parse(text, scale) = NumberOf(w \o cut)
  <2>1. ~Negative(text) /\ Unsigned(text) = text /\ Whole(text) = w /\ Fraction(text) = f
    BY PointFacts
  <2> HIDE DEF text
  <2>2. OnlyDigits(f) = f
    BY OnlyDigitsFacts
  <2>3. QED
    BY <2>1, <2>2 DEF Parse
<1>2. /\ Zeros(scale) \in Seq(Digits) /\ Len(Zeros(scale)) = scale
      /\ \A i \in 1..scale : Zeros(scale)[i] = "0"
  BY ZerosFacts
<1>3. Len(f) \in Nat
  OBVIOUS
<1> DEFINE z == f \o Zeros(scale)
<1>4. /\ z \in Seq(Digits) /\ Len(z) = Len(f) + scale
      /\ \A i \in 1..Len(f) : z[i] = f[i]
      /\ \A i \in 1..scale : z[Len(f) + i] = "0"
  BY <1>2
<1>5. /\ cut \in Seq(Digits) /\ Len(cut) = scale /\ \A i \in 1..scale : cut[i] = z[i]
  <2> HIDE DEF z
  <2>1. SubSeq(z, 1, scale) \in Seq(Digits) /\ Len(SubSeq(z, 1, scale)) = scale
        /\ \A i \in 1..scale : SubSeq(z, 1, scale)[i] = z[i]
    BY <1>3, <1>4
  <2>2. QED
    BY <2>1 DEF z
<1> HIDE DEF z, cut
<1>6. CASE Len(f) <= scale
  <2> DEFINE y == Zeros(scale - Len(f))
  <2>1. /\ scale - Len(f) \in Nat
        /\ y \in Seq(Digits) /\ Len(y) = scale - Len(f) /\ NumberOf(y) = 0
        /\ \A i \in 1..scale - Len(f) : y[i] = "0"
    <3>1. scale - Len(f) \in Nat
      BY <1>3, <1>6
    <3>2. ASSUME NEW n \in Nat
          PROVE  /\ Zeros(n) \in Seq(Digits) /\ Len(Zeros(n)) = n /\ NumberOf(Zeros(n)) = 0
                 /\ \A i \in 1..n : Zeros(n)[i] = "0"
      BY ZerosFacts
    <3>3. QED
      BY <3>1, <3>2
  <2> HIDE DEF y
  <2> DEFINE x == f \o y
  <2>2. /\ x \in Seq(Digits) /\ Len(x) = scale
        /\ \A i \in 1..Len(f) : x[i] = f[i]
        /\ \A i \in 1..scale - Len(f) : x[Len(f) + i] = "0"
    BY <1>3, <2>1
  <2> HIDE DEF x
  <2>3. ASSUME NEW i \in 1..scale PROVE x[i] = z[i]
    <3>1. CASE i <= Len(f)
      BY <1>3, <1>4, <2>2, <3>1
    <3>2. CASE i > Len(f)
      <4>1. i - Len(f) \in 1..scale - Len(f) /\ i - Len(f) \in 1..scale
            /\ Len(f) + (i - Len(f)) = i
        BY <1>3, <3>2
      <4>2. QED
        BY <1>4, <2>2, <4>1
    <3>3. QED
      BY <1>3, <3>1, <3>2
  <2>4. cut = x
    BY <1>5, <2>2, <2>3
  <2>5. w \o cut = (w \o f) \o y /\ w \o f \in Seq(Digits)
    BY <2>1, <2>4 DEF x
  <2>6. NumberOf(w \o cut) = NumberOf(w \o f) * Power[scale - Len(f)] + 0
    BY <2>1, <2>5, NumberConcat
  <2>7. NumberOf(w \o f) \in Nat /\ Power[scale - Len(f)] \in Nat
    BY <2>1, <2>5, NumberConcat, PowerFacts
  <2>8. NumberOf(w \o f) * Power[scale - Len(f)] \in Nat
    BY <2>7
  <2>9. QED
    BY <1>1, <1>6, <2>6, <2>8
<1>7. CASE Len(f) > scale
  <2> DEFINE b == SubSeq(f, scale + 1, Len(f))
  <2>1. /\ b \in Seq(Digits) /\ Len(b) = Len(f) - scale
        /\ \A i \in 1..Len(f) - scale : b[i] = f[scale + i]
    BY <1>3, <1>7
  <2> HIDE DEF b
  <2> DEFINE x == cut \o b
  <2>2. /\ x \in Seq(Digits) /\ Len(x) = Len(f)
        /\ \A i \in 1..scale : x[i] = cut[i]
        /\ \A i \in 1..Len(f) - scale : x[scale + i] = b[i]
    BY <1>3, <1>5, <2>1
  <2> HIDE DEF x
  <2>3. ASSUME NEW i \in 1..Len(f) PROVE x[i] = f[i]
    <3>1. CASE i <= scale
      BY <1>3, <1>4, <1>5, <2>2, <3>1
    <3>2. CASE i > scale
      <4>1. i - scale \in 1..Len(f) - scale /\ scale + (i - scale) = i
        BY <1>3, <3>2
      <4>2. QED
        BY <2>1, <2>2, <4>1
    <3>3. QED
      BY <1>3, <3>1, <3>2
  <2>4. f = x
    BY <2>2, <2>3
  <2>5. w \o f = (w \o cut) \o b /\ w \o cut \in Seq(Digits)
    BY <1>5, <2>1, <2>4 DEF x
  <2>6. /\ NumberOf(w \o cut) \in Nat
        /\ NumberOf(w \o f) = NumberOf(w \o cut) * Power[Len(f) - scale] + NumberOf(b)
        /\ NumberOf(b) < Power[Len(f) - scale]
    BY <2>1, <2>5, NumberConcat
  <2>7. NumberOf(b) \in Nat
    BY <2>1, NumberConcat
  <2>8. Power[Len(f) - scale] \in Nat /\ Power[Len(f) - scale] > 0
    <3>1. Len(f) - scale \in Nat
      BY <1>3, <1>7
    <3>2. QED
      BY <3>1, PowerFacts
  <2>9. NumberOf(w \o f) \div Power[Len(f) - scale] = NumberOf(w \o cut)
    BY <2>6, <2>7, <2>8, QuotientUnique
  <2>10. ~(Len(f) <= scale)
    BY <1>3, <1>7
  <2>11. QED
    BY <1>1, <2>9, <2>10
<1>8. QED
  BY <1>3, <1>6, <1>7

-----------------------------------------------------------------------------
(* Raw prices and their texts *)

Raws == [m : Nat, e : Nat]

\* What a raw price is worth is a natural number.
LEMMA WorthNat ==
  ASSUME NEW raw \in Raws, NEW scale \in Nat
  PROVE  Worth(raw, scale) \in Nat
<1>1. raw.m \in Nat /\ raw.e \in Nat
  BY DEF Raws
<1>2. CASE raw.e <= scale
  <2>1. scale - raw.e \in Nat
    BY <1>1, <1>2
  <2>2. Power[scale - raw.e] \in Nat
    BY <2>1, PowerFacts
  <2>3. raw.m * Power[scale - raw.e] \in Nat
    BY <1>1, <2>2
  <2>4. QED
    BY <1>2, <2>3 DEF Worth
<1>3. CASE ~(raw.e <= scale)
  <2>1. raw.e - scale \in Nat
    BY <1>1, <1>3
  <2>2. Power[raw.e - scale] \in Nat /\ Power[raw.e - scale] > 0
    BY <2>1, PowerFacts
  <2>3. raw.m \div Power[raw.e - scale] \in Nat
    BY <1>1, <2>2
  <2>4. QED
    BY <1>3, <2>3 DEF Worth
<1>4. QED
  BY <1>2, <1>3

\* A text that has the digits of a raw price's number, as many after the point as its
\* exponent, reads as what the price is worth.
LEMMA ReadAsWorth ==
  ASSUME NEW raw \in Raws, NEW scale \in Nat, NEW w \in Seq(Digits), Len(w) >= 1,
         NEW f \in Seq(Digits), Len(f) = raw.e, NumberOf(w \o f) = raw.m
  PROVE  Parse(w \o <<".">> \o f, scale) = Worth(raw, scale)
<1>1. Parse(w \o <<".">> \o f, scale) =
        IF Len(f) <= scale THEN NumberOf(w \o f) * Power[scale - Len(f)]
        ELSE NumberOf(w \o f) \div Power[Len(f) - scale]
  BY ParsePoint
<1>2. QED
  BY <1>1 DEF Worth

\* What formatScaledValue makes of a raw price reads as what it is worth.
LEMMA ParseScaled ==
  ASSUME NEW raw \in Raws, NEW scale \in Nat
  PROVE  Parse(FormatScaledValue(raw), scale) = Worth(raw, scale)
<1> DEFINE d == DigitsOf[raw.m]
           split == Len(d) - raw.e
<1>1. raw.m \in Nat /\ raw.e \in Nat
  BY DEF Raws
<1>2. d \in Seq(Digits) /\ Len(d) \in Nat /\ Len(d) >= 1 /\ NumberOf(d) = raw.m
  BY <1>1, DigitsOfFacts
<1>3. FormatScaledValue(raw) =
        IF raw.e <= 0 THEN d \o Zeros(-raw.e)
        ELSE IF split > 0 THEN SubSeq(d, 1, split) \o <<".">> \o SubSeq(d, split + 1, Len(d))
        ELSE <<"0", ".">> \o Zeros(-split) \o d
  BY DEF FormatScaledValue
<1> HIDE DEF d
<1>4. CASE raw.e = 0
  <2>1. Zeros(0) = <<>> /\ -raw.e = 0
    <3>1. Zeros(0) \in Seq(Digits) /\ Len(Zeros(0)) = 0
      BY ZerosFacts
    <3>2. Zeros(0) = <<>>
      BY <3>1
    <3>3. -raw.e = 0
      <4>1. \A x \in Int : 0 <= x /\ x <= 0 => 0 <= -x /\ -x <= 0 /\ -x \in Int
        OBVIOUS
      <4>2. raw.e \in Int /\ 0 <= raw.e /\ raw.e <= 0
        BY <1>4
      <4>3. 0 <= -raw.e /\ -raw.e <= 0 /\ -raw.e \in Int
        BY <4>1, <4>2
      <4>4. QED
        BY <4>3
    <3>4. QED
      BY <3>2, <3>3
  <2>2. FormatScaledValue(raw) = d
    BY <1>2, <1>3, <1>4, <2>1
  <2>3. Parse(d, scale) = raw.m * Power[scale]
    BY <1>2, ParseWhole
  <2>4. Worth(raw, scale) = raw.m * Power[scale]
    BY <1>4 DEF Worth
  <2>5. QED
    BY <2>2, <2>3, <2>4
<1>5. CASE raw.e > 0 /\ split > 0
  <2> DEFINE w == SubSeq(d, 1, split)
             f == SubSeq(d, split + 1, Len(d))
  <2>1. split \in 1..Len(d) /\ split \in Nat /\ Len(d) - split = raw.e
    BY <1>1, <1>2, <1>5
  <2>4. FormatScaledValue(raw) = w \o <<".">> \o f
    <3>1. ~(raw.e <= 0) /\ split > 0
      BY <1>1, <1>5
    <3>2. QED
      BY <1>3, <3>1
  <2> HIDE DEF split
  <2>2. /\ w \in Seq(Digits) /\ Len(w) = split /\ \A i \in 1..split : w[i] = d[i]
    BY <1>2, <2>1
  <2>3. /\ f \in Seq(Digits) /\ Len(f) = raw.e /\ \A i \in 1..raw.e : f[i] = d[split + i]
    BY <1>1, <1>2, <2>1
  <2> HIDE DEF w, f
  <2> DEFINE x == w \o f
  <2>5. /\ x \in Seq(Digits) /\ Len(x) = Len(d)
        /\ \A i \in 1..split : x[i] = w[i]
        /\ \A i \in 1..raw.e : x[split + i] = f[i]
    BY <1>1, <1>2, <2>1, <2>2, <2>3
  <2> HIDE DEF x
  <2>6. ASSUME NEW i \in 1..Len(d) PROVE x[i] = d[i]
    <3>1. CASE i <= split
      BY <2>1, <2>2, <2>5, <3>1
    <3>2. CASE i > split
      <4>1. i - split \in 1..raw.e /\ split + (i - split) = i
        BY <1>1, <1>2, <2>1, <3>2
      <4>2. QED
        BY <2>3, <2>5, <4>1
    <3>3. QED
      BY <2>1, <3>1, <3>2
  <2>7. x = d
    BY <1>2, <2>5, <2>6
  <2>8. NumberOf(w \o f) = raw.m
    BY <1>2, <2>7 DEF x
  <2>9. QED
    BY <2>1, <2>2, <2>3, <2>4, <2>8, ReadAsWorth
<1>6. CASE raw.e > 0 /\ ~(split > 0)
  <2> DEFINE z == Zeros(-split)
             f == z \o d
             w == <<"0">>
  <2>1. -split \in Nat /\ -split + Len(d) = raw.e
    BY <1>1, <1>2, <1>6
  <2>2. ASSUME NEW n \in Nat
        PROVE  Zeros(n) \in Seq(Digits) /\ Len(Zeros(n)) = n /\ NumberOf(Zeros(n)) = 0
    BY ZerosFacts
  <2>3. z \in Seq(Digits) /\ Len(z) = -split /\ NumberOf(z) = 0
    BY <2>1, <2>2
  <2>4. w \in Seq(Digits) /\ Len(w) = 1 /\ NumberOf(w) = 0
    <3>1. "0" \in Digits /\ DigitValue("0") = 0
      BY DigitFacts
    <3>2. <<>> \in Seq(Digits) /\ w = Append(<<>>, "0")
      OBVIOUS
    <3>3. NumberOf(w) = 10 * 0 + 0
      BY <3>1, <3>2, NumberAppend, NumberEmpty
    <3>4. QED
      BY <3>1, <3>3
  <2>5. f \in Seq(Digits) /\ Len(f) = raw.e
    <3> HIDE DEF z, split
    <3>1. QED
      BY <1>1, <1>2, <2>1, <2>3
  <2>6. Power[Len(d)] \in Nat /\ Power[Len(f)] \in Nat
    BY <1>1, <1>2, <2>5, PowerFacts
  <2>7. NumberOf(f) = raw.m
    <3>1. NumberOf(f) = NumberOf(z) * Power[Len(d)] + NumberOf(d)
      BY <1>2, <2>3, NumberConcat
    <3>2. 0 * Power[Len(d)] + raw.m = raw.m
      BY <1>1, <2>6
    <3>3. QED
      BY <1>2, <2>3, <3>1, <3>2
  <2>8. NumberOf(w \o f) = raw.m
    <3>1. NumberOf(w \o f) = NumberOf(w) * Power[Len(f)] + NumberOf(f)
      BY <2>4, <2>5, NumberConcat
    <3>2. 0 * Power[Len(f)] + raw.m = raw.m
      BY <1>1, <2>6
    <3>3. QED
      BY <2>4, <2>7, <3>1, <3>2
  <2>9. FormatScaledValue(raw) = w \o <<".">> \o f
    <3>1. FormatScaledValue(raw) = <<"0", ".">> \o z \o d
      BY <1>1, <1>3, <1>6
    <3>2. <<"0", ".">> = w \o <<".">>
      OBVIOUS
    <3>3. <<"0", ".">> \in Seq(Chars) /\ z \in Seq(Chars) /\ d \in Seq(Chars)
      BY <1>2, <2>3, DigitFacts DEF Chars
    <3> HIDE DEF z
    <3>4. (<<"0", ".">> \o z) \o d = <<"0", ".">> \o (z \o d)
      BY <3>3
    <3>5. QED
      BY <3>1, <3>2, <3>4
  <2> HIDE DEF w, f
  <2>10. Len(w) >= 1
    BY <2>4
  <2>11. Parse(w \o <<".">> \o f, scale) = Worth(raw, scale)
    BY <2>4, <2>5, <2>8, <2>10, ReadAsWorth
  <2>12. QED
    BY <2>9, <2>11
<1>7. QED
  BY <1>1, <1>4, <1>5, <1>6

\* A greater power is one of a greater number.
LEMMA PowerGrows ==
  ASSUME NEW a \in Nat, NEW b \in Nat, Power[a] < Power[b]
  PROVE  a < b
<1>1. ASSUME b <= a PROVE FALSE
  <2>1. a - b \in Nat /\ b + (a - b) = a
    BY <1>1
  <2>2. Power[a] = Power[b] * Power[a - b]
    BY <2>1, PowerSum
  <2>3. Power[b] \in Nat /\ Power[a - b] \in Nat /\ Power[a - b] >= 1
    BY <2>1, PowerFacts
  <2>4. \A x, y \in Nat : y >= 1 => x <= x * y
    OBVIOUS
  <2>5. Power[b] <= Power[a]
    BY <2>2, <2>3, <2>4
  <2>6. Power[a] \in Nat
    BY PowerFacts
  <2>7. QED
    BY <2>3, <2>5, <2>6
<1>2. QED
  BY <1>1

\* So does what JavaScript makes of it, if that has no exponent.
LEMMA ParseNumber ==
  ASSUME NEW raw \in Raws, NEW scale \in Nat,
         raw.m = 0 \/ raw.e <= 6 \/ Power[raw.e - 6] <= raw.m
  PROVE  Parse(NumberText(raw), scale) = Worth(raw, scale)
<1> DEFINE d == DigitsOf[raw.m]
<1>1. raw.m \in Nat /\ raw.e \in Nat
  BY DEF Raws
<1>2. d \in Seq(Digits) /\ Len(d) \in Nat /\ Len(d) >= 1 /\ NumberOf(d) = raw.m
  BY <1>1, DigitsOfFacts
<1>3. CASE raw.m = 0
  <2>1. NumberText(raw) = <<"0">>
    BY <1>3 DEF NumberText
  <2>2. <<"0">> \in Seq(Digits) /\ NumberOf(<<"0">>) = 0
    <3>1. "0" \in Digits /\ DigitValue("0") = 0
      BY DigitFacts
    <3>2. <<>> \in Seq(Digits) /\ <<"0">> = Append(<<>>, "0")
      OBVIOUS
    <3>3. NumberOf(<<"0">>) = 10 * 0 + 0
      BY <3>1, <3>2, NumberAppend, NumberEmpty
    <3>4. QED
      BY <3>1, <3>3
  <2>3. Power[scale] \in Nat
    BY PowerFacts
  <2>4. Parse(<<"0">>, scale) = 0 * Power[scale]
    BY <2>2, ParseWhole
  <2>5. Worth(raw, scale) = 0
    <3>1. CASE raw.e <= scale
      <4>1. scale - raw.e \in Nat
        BY <1>1, <3>1
      <4>2. Power[scale - raw.e] \in Nat
        BY <4>1, PowerFacts
      <4>3. 0 * Power[scale - raw.e] = 0
        BY <4>2
      <4>4. QED
        BY <1>3, <3>1, <4>3 DEF Worth
    <3>2. CASE ~(raw.e <= scale)
      <4>1. raw.e - scale \in Nat
        BY <1>1, <3>2
      <4>2. Power[raw.e - scale] \in Nat /\ Power[raw.e - scale] > 0
        BY <4>1, PowerFacts
      <4>3. 0 \div Power[raw.e - scale] = 0
        BY <4>2
      <4>4. QED
        BY <1>3, <3>2, <4>3 DEF Worth
    <3>3. QED
      BY <3>1, <3>2
  <2>6. QED
    BY <2>1, <2>3, <2>4, <2>5
<1>4. CASE raw.m # 0
  <2>1. Len(d) - 1 - raw.e > -7
    <3>1. CASE raw.e <= 6
      BY <1>1, <1>2, <3>1
    <3>2. CASE raw.e > 6
      <4>1. Power[raw.e - 6] <= raw.m /\ raw.e - 6 \in Nat
        BY <1>1, <1>4, <3>2
      <4>2. NumberOf(d) < Power[Len(d)]
        BY <1>2, NumberConcat
      <4>3. Power[raw.e - 6] \in Nat /\ Power[Len(d)] \in Nat
        BY <1>2, <4>1, PowerFacts
      <4>4. Power[raw.e - 6] < Power[Len(d)]
        BY <1>1, <1>2, <4>1, <4>2, <4>3
      <4>5. raw.e - 6 < Len(d)
        BY <1>2, <4>1, <4>4, PowerGrows
      <4>6. QED
        BY <1>1, <1>2, <4>5
    <3>3. QED
      BY <1>1, <3>1, <3>2
  <2>2. NumberText(raw) = FormatScaledValue(raw)
    BY <1>4, <2>1 DEF NumberText
  <2>3. QED
    BY <2>2, ParseScaled
<1>5. QED
  BY <1>3, <1>4

-----------------------------------------------------------------------------
(* Writing a number *)

\* What is written of a number that is not negative, without the zeros at its end, reads
\* as the number.
LEMMA ParseFormatted ==
  ASSUME NEW v \in Nat, NEW scale \in Nat
  PROVE  Parse(TrimTrailingZeros(Format(v, scale)), scale) = v
<1> DEFINE raw == DigitsOf[v]
           pad == Zeros(scale + 1 - Len(raw))
           padded == pad \o raw
           point == Len(padded) - scale
           w == SubSeq(padded, 1, point)
           f == SubSeq(padded, point + 1, Len(padded))
           text == w \o <<".">> \o f
<1>1. raw \in Seq(Digits) /\ Len(raw) \in Nat /\ Len(raw) >= 1 /\ NumberOf(raw) = v
  BY DigitsOfFacts
<1>2. Format(v, scale) = <<>> \o (IF scale = 0 THEN raw ELSE text)
  <2>1. ~(v < 0)
    OBVIOUS
  <2>2. QED
    BY <2>1 DEF Format
<1> HIDE DEF raw
<1>3. CASE scale = 0
  <2>1. TrimTrailingZeros(raw) = raw
    BY <1>1, DigitsPlain DEF TrimTrailingZeros
  <2>2. Parse(raw, scale) = v * Power[0]
    BY <1>1, <1>3, ParseWhole
  <2>3. v * Power[0] = v
    BY PowerFacts
  <2>4. QED
    <3>1. <<>> \o raw = raw
      BY <1>1
    <3>2. QED
      BY <1>2, <1>3, <2>1, <2>2, <2>3, <3>1
<1>4. CASE scale # 0
  <2>1. /\ pad \in Seq(Digits) /\ NumberOf(pad) = 0
        /\ Len(pad) = IF scale + 1 - Len(raw) < 0 THEN 0 ELSE scale + 1 - Len(raw)
    <3>1. scale + 1 - Len(raw) \in Int
      BY <1>1
    <3>2. QED
      BY <3>1, ZerosFacts
  <2>2. Len(pad) \in Nat /\ Len(pad) + Len(raw) >= scale + 1
    BY <1>1, <2>1
  <2> HIDE DEF pad
  <2>3. padded \in Seq(Digits) /\ Len(padded) = Len(pad) + Len(raw)
    BY <1>1, <2>1
  <2>4. NumberOf(padded) = v
    <3>1. NumberOf(padded) = NumberOf(pad) * Power[Len(raw)] + NumberOf(raw)
      BY <1>1, <2>1, NumberConcat
    <3>2. Power[Len(raw)] \in Nat
      BY <1>1, PowerFacts
    <3>3. 0 * Power[Len(raw)] + v = v
      BY <3>2
    <3>4. QED
      BY <1>1, <2>1, <3>1, <3>3
  <2> HIDE DEF padded
  <2>5. point \in Nat /\ point >= 1 /\ Len(padded) = point + scale /\ Len(padded) \in Nat
    BY <1>1, <2>2, <2>3
  <2> HIDE DEF point
  <2>6. w \in Seq(Digits) /\ Len(w) = point /\ \A i \in 1..point : w[i] = padded[i]
    BY <2>3, <2>5
  <2>7. f \in Seq(Digits) /\ Len(f) = scale /\ \A i \in 1..scale : f[i] = padded[point + i]
    BY <2>3, <2>5
  <2> HIDE DEF w, f
  <2>8. w \o f = padded
    <3> DEFINE x == w \o f
    <3>1. /\ x \in Seq(Digits) /\ Len(x) = point + scale
          /\ \A i \in 1..point : x[i] = w[i]
          /\ \A i \in 1..scale : x[point + i] = f[i]
      <4>1. x \in Seq(Digits) /\ Len(x) = Len(w) + Len(f)
        BY <2>6, <2>7
      <4>2. \A i \in 1..Len(w) : x[i] = w[i]
        BY <2>6, <2>7
      <4>3. \A i \in 1..Len(f) : x[Len(w) + i] = f[i]
        BY <2>6, <2>7
      <4> HIDE DEF x
      <4>4. QED
        BY <2>6, <2>7, <4>1, <4>2, <4>3
    <3> HIDE DEF x
    <3>2. ASSUME NEW i \in 1..point + scale PROVE x[i] = padded[i]
      <4>1. CASE i <= point
        BY <2>5, <2>6, <3>1, <4>1
      <4>2. CASE i > point
        <5>1. i - point \in 1..scale /\ point + (i - point) = i
          BY <2>5, <4>2
        <5>2. QED
          BY <2>7, <3>1, <5>1
      <4>3. QED
        BY <2>5, <4>1, <4>2
    <3>3. x = padded
      BY <2>3, <2>5, <3>1, <3>2
    <3>4. QED
      BY <3>3 DEF x
  <2>9. /\ text \in Seq(Chars) /\ Len(text) = point + 1 + scale
        /\ \A k \in 1..point : text[k] = w[k]
        /\ text[point + 1] = "."
        /\ \A k \in 1..scale : text[point + 1 + k] = f[k]
        /\ Points(text) = {point + 1} /\ Format(v, scale) = text
    <3>1. text = w \o <<".">> \o f
      OBVIOUS
    <3> HIDE DEF text
    <3>2. Len(w) >= 1
      BY <2>5, <2>6
    <3>3. /\ text \in Seq(Chars) /\ Len(text) = Len(w) + 1 + Len(f)
          /\ \A k \in 1..Len(w) : text[k] = w[k]
          /\ text[Len(w) + 1] = "."
          /\ \A k \in 1..Len(f) : text[Len(w) + 1 + k] = f[k]
          /\ Points(text) = {Len(w) + 1}
      <4>1. text \in Seq(Chars) /\ Len(text) = Len(w) + 1 + Len(f)
        BY <2>6, <2>7, <3>1, <3>2, PointFacts
      <4>2. \A k \in 1..Len(w) : text[k] = w[k]
        BY <2>6, <2>7, <3>1, <3>2, PointFacts
      <4>3. text[Len(w) + 1] = "."
        BY <2>6, <2>7, <3>1, <3>2, PointFacts
      <4>4. \A k \in 1..Len(f) : text[Len(w) + 1 + k] = f[k]
        BY <2>6, <2>7, <3>1, <3>2, PointFacts
      <4>5. Points(text) = {Len(w) + 1}
        BY <2>6, <2>7, <3>1, <3>2, PointFacts
      <4>6. QED
        BY <4>1, <4>2, <4>3, <4>4, <4>5
    <3>4. <<>> \o text = text
      BY <3>3
    <3>5. Format(v, scale) = text
      BY <1>2, <1>4, <3>4
    <3>6. QED
      BY <2>6, <2>7, <3>3, <3>5
  <2> HIDE DEF text
  \* The characters kept reach to the point at least.
  <2> DEFINE K == {0} \cup {k \in 1..Len(text) : text[k] # "0"}
             kept == Max(K)
             cut == IF text[kept] = "." THEN kept - 1 ELSE kept
  <2>10. kept \in K /\ \A k \in K : k <= kept
    <3>1. K \subseteq 0..Len(text) /\ 0 \in K
      OBVIOUS
    <3>2. \E x \in K : \A y \in K : y <= x
      <4> DEFINE B == {Len(text) - k : k \in K}
      <4>1. B \in SUBSET Nat /\ B # {}
        BY <2>5, <2>9, <3>1
      <4> HIDE DEF B
      <4>2. PICK b \in B : \A y \in B : ~ (<<y, b>> \in OpToRel(<, Nat))
        BY <4>1, NatLessThanWellFounded, WFMin
      <4>3. \A y \in B : b <= y
        <5>1. \A x, y \in B : ~ (<<y, x>> \in OpToRel(<, Nat)) => x <= y
          BY <4>1 DEF OpToRel
        <5>2. QED
          BY <4>2, <5>1
      <4>4. PICK x \in K : b = Len(text) - x
        BY DEF B
      <4>5. ASSUME NEW y \in K PROVE y <= x
        <5>1. Len(text) - x <= Len(text) - y
          BY <4>3, <4>4 DEF B
        <5>2. QED
          BY <2>5, <2>9, <3>1, <5>1
      <4>6. QED
        BY <4>5
    <3> HIDE DEF K
    <3>3. QED
      BY <3>2 DEF Max
  <2>11. point + 1 \in K
    BY <2>5, <2>9
  <2>12. kept \in point + 1..point + 1 + scale /\ text[kept] # "0"
    BY <2>5, <2>9, <2>10, <2>11
  <2>13. \A k \in 1..Len(text) : k > kept => text[k] = "0"
    BY <2>5, <2>9, <2>10, <2>12
  <2> HIDE DEF K, kept
  <2>14. \A k \in 1..scale : f[k] \in Digits /\ f[k] # "."
    <3>1. \A k \in 1..scale : f[k] \in Digits
      BY <2>7
    <3>2. QED
      BY <3>1, DigitFacts
  <2>15. text[kept] = "." <=> kept = point + 1
    <3>1. CASE kept = point + 1
      BY <2>9, <3>1
    <3>2. CASE kept # point + 1
      <4>1. kept - (point + 1) \in 1..scale /\ point + 1 + (kept - (point + 1)) = kept
        BY <2>5, <2>12, <3>2
      <4>2. QED
        BY <2>9, <2>14, <3>2, <4>1
    <3>3. QED
      BY <3>1, <3>2
  <2>16. cut # 0 /\ TrimTrailingZeros(text) = SubSeq(text, 1, cut)
    <3>1. cut # 0
      BY <2>5, <2>12
    <3>2. Points(text) # {}
      BY <2>9
    <3>3. TrimTrailingZeros(text) = IF Points(text) = {} THEN text
                                    ELSE IF cut = 0 THEN <<"0">> ELSE SubSeq(text, 1, cut)
      BY DEF TrimTrailingZeros, cut, kept, K
    <3> HIDE DEF cut
    <3>4. QED
      BY <3>1, <3>2, <3>3
  \* What is left of the fraction, and the zeros cut off
  <2> DEFINE n == kept - (point + 1)
             g == SubSeq(f, 1, n)
             z == Zeros(scale - n)
  <2>17. n \in 0..scale /\ n \in Nat /\ scale - n \in Nat /\ kept = point + 1 + n
    BY <2>5, <2>12
  <2>18. ASSUME NEW m \in Nat
         PROVE  /\ Zeros(m) \in Seq(Digits) /\ Len(Zeros(m)) = m /\ NumberOf(Zeros(m)) = 0
                /\ \A i \in 1..m : Zeros(m)[i] = "0"
    BY ZerosFacts
  <2> HIDE DEF n
  <2>19. /\ g \in Seq(Digits) /\ Len(g) = n /\ \A i \in 1..n : g[i] = f[i]
    BY <2>7, <2>17
  <2>20. /\ z \in Seq(Digits) /\ Len(z) = scale - n /\ NumberOf(z) = 0
         /\ \A i \in 1..scale - n : z[i] = "0"
    BY <2>17, <2>18
  <2> HIDE DEF g, z
  <2>21. f = g \o z
    <3> DEFINE x == g \o z
    <3>1. /\ x \in Seq(Digits) /\ Len(x) = scale
          /\ \A i \in 1..n : x[i] = g[i]
          /\ \A i \in 1..scale - n : x[n + i] = z[i]
      BY <2>17, <2>19, <2>20
    <3> HIDE DEF x
    <3>2. ASSUME NEW i \in 1..scale PROVE x[i] = f[i]
      <4>1. CASE i <= n
        BY <2>17, <2>19, <3>1, <4>1
      <4>2. CASE i > n
        <5>1. i - n \in 1..scale - n /\ n + (i - n) = i
          BY <2>17, <4>2
        <5>2. x[i] = "0"
          BY <2>20, <3>1, <5>1
        <5>3. point + 1 + i \in 1..Len(text) /\ point + 1 + i > kept
          BY <2>5, <2>9, <2>17, <4>2
        <5>4. text[point + 1 + i] = "0"
          BY <2>13, <5>3
        <5>5. QED
          BY <2>9, <5>2, <5>4
      <4>3. QED
        BY <2>17, <4>1, <4>2
    <3>3. x = f
      BY <2>7, <3>1, <3>2
    <3>4. QED
      BY <3>3 DEF x
  <2>22. Power[scale - n] \in Nat
    BY <2>17, PowerFacts
  <2>23. NumberOf(w \o g) * Power[scale - n] = v
    <3>1. w \o g \in Seq(Digits) /\ (w \o g) \o z = w \o f
      BY <2>6, <2>19, <2>20, <2>21
    <3>2. /\ NumberOf(w \o g) \in Nat
          /\ NumberOf(w \o f) = NumberOf(w \o g) * Power[scale - n] + 0
      BY <2>20, <3>1, NumberConcat
    <3>3. NumberOf(w \o g) * Power[scale - n] \in Nat
      BY <2>22, <3>2
    <3>4. QED
      BY <2>4, <2>8, <3>2, <3>3
  <2>24. CASE n = 0
    <3>1. cut = point
      BY <2>5, <2>15, <2>17, <2>24
    <3>2. SubSeq(text, 1, point) = w
      <4>1. /\ SubSeq(text, 1, point) \in Seq(Chars) /\ Len(SubSeq(text, 1, point)) = point
            /\ \A i \in 1..point : SubSeq(text, 1, point)[i] = w[i]
        BY <2>5, <2>9
      <4>2. w \in Seq(Chars)
        BY <2>6 DEF Chars
      <4>3. QED
        BY <2>6, <4>1, <4>2
    <3>3. w \o g = w
      BY <2>6, <2>19, <2>24
    <3>4. Parse(w, scale) = NumberOf(w) * Power[scale]
      BY <2>6, ParseWhole
    <3>5. scale - n = scale
      BY <2>24
    <3> HIDE DEF cut
    <3>6. QED
      BY <2>9, <2>16, <2>23, <3>1, <3>2, <3>3, <3>4, <3>5
  <2>25. CASE n # 0
    <3>1. cut = kept
      BY <2>5, <2>15, <2>17, <2>25
    <3> DEFINE short == w \o <<".">> \o g
               left == SubSeq(text, 1, kept)
    <3>2. /\ short \in Seq(Chars) /\ Len(short) = point + 1 + n
          /\ \A k \in 1..point : short[k] = w[k]
          /\ short[point + 1] = "."
          /\ \A k \in 1..n : short[point + 1 + k] = g[k]
      <4>1. short = w \o <<".">> \o g
        OBVIOUS
      <4> HIDE DEF short
      <4>2. Len(w) >= 1
        BY <2>5, <2>6
      <4>3. /\ short \in Seq(Chars) /\ Len(short) = Len(w) + 1 + Len(g)
            /\ \A k \in 1..Len(w) : short[k] = w[k]
            /\ short[Len(w) + 1] = "."
            /\ \A k \in 1..Len(g) : short[Len(w) + 1 + k] = g[k]
        <5>1. short \in Seq(Chars) /\ Len(short) = Len(w) + 1 + Len(g)
          BY <2>6, <2>19, <4>1, <4>2, PointFacts
        <5>2. \A k \in 1..Len(w) : short[k] = w[k]
          BY <2>6, <2>19, <4>1, <4>2, PointFacts
        <5>3. short[Len(w) + 1] = "."
          BY <2>6, <2>19, <4>1, <4>2, PointFacts
        <5>4. \A k \in 1..Len(g) : short[Len(w) + 1 + k] = g[k]
          BY <2>6, <2>19, <4>1, <4>2, PointFacts
        <5>5. QED
          BY <5>1, <5>2, <5>3, <5>4
      <4>4. QED
        BY <2>6, <2>19, <4>3
    <3>3. left \in Seq(Chars) /\ Len(left) = point + 1 + n /\ \A i \in 1..kept : left[i] = text[i]
      BY <2>5, <2>9, <2>17
    <3> HIDE DEF short, left
    <3>4. ASSUME NEW i \in 1..point + 1 + n PROVE left[i] = short[i]
      <4>1. CASE i <= point
        BY <2>5, <2>9, <2>17, <3>2, <3>3, <4>1
      <4>2. CASE i = point + 1
        BY <2>5, <2>9, <2>17, <3>2, <3>3, <4>2
      <4>3. CASE i > point + 1
        <5>1. /\ i - (point + 1) \in 1..n /\ i - (point + 1) \in 1..scale
              /\ point + 1 + (i - (point + 1)) = i /\ i \in 1..kept
          BY <2>5, <2>17, <4>3
        <5>2. QED
          BY <2>9, <2>19, <3>2, <3>3, <5>1
      <4>4. QED
        BY <2>5, <4>1, <4>2, <4>3
    <3>5. left = short
      BY <2>5, <2>17, <3>2, <3>3, <3>4
    <3>6. Parse(short, scale) = NumberOf(w \o g) * Power[scale - n]
      <4>1. Len(g) <= scale
        BY <2>17, <2>19
      <4>2. QED
        BY <2>5, <2>6, <2>19, <4>1, ParsePoint DEF short
    <3> HIDE DEF cut
    <3>7. QED
      BY <2>9, <2>16, <2>23, <3>1, <3>5, <3>6 DEF left
  <2>26. QED
    BY <2>24, <2>25
<1>5. QED
  BY <1>3, <1>4

-----------------------------------------------------------------------------
(* Feeds and plugins *)

\* The elements of a sequence over a set are of that set.
LEMMA ElementsIn ==
  ASSUME NEW T, NEW s \in Seq(T)
  PROVE  DOMAIN s \subseteq Nat /\ \A i \in DOMAIN s : s[i] \in T
  OBVIOUS

\* A feed of an asset names one of the plugins and an id.
LEMMA FeedType ==
  ASSUME NEW a \in AssetSet
  PROVE  /\ DOMAIN Feeds[a] \subseteq Nat
         /\ \A i \in DOMAIN Feeds[a] :
              /\ Feeds[a][i] \in [plugin : PluginSet, id : Ids]
              /\ Feeds[a][i] \in ToSet(Feeds[a])
         /\ \A f \in ToSet(Feeds[a]) :
              f \in [plugin : PluginSet, id : Ids] /\ \E i \in DOMAIN Feeds[a] : f = Feeds[a][i]
<1>1. Feeds[a] \in Seq([plugin : PluginSet, id : Ids])
  BY AssetAssumption
<1>2. /\ DOMAIN Feeds[a] \subseteq Nat
      /\ \A i \in DOMAIN Feeds[a] : Feeds[a][i] \in [plugin : PluginSet, id : Ids]
  BY <1>1, ElementsIn, Zenon
<1>3. QED
  BY <1>2 DEF ToSet

\* Feeds of the same plugin and id are the same feed.
LEMMA SameFeed ==
  ASSUME NEW f \in [plugin : PluginSet, id : Ids], NEW g \in [plugin : PluginSet, id : Ids],
         f.plugin = g.plugin, f.id = g.id
  PROVE  f = g
  OBVIOUS

\* A plugin has one place in the order.
LEMMA PluginPlace ==
  /\ DOMAIN Plugins = 1..Len(Plugins) /\ Len(Plugins) \in Nat
  /\ \A p \in PluginSet : \E k \in DOMAIN Plugins : p = Plugins[k]
  /\ \A k \in DOMAIN Plugins : Plugins[k] \in PluginSet
  /\ \A j, k \in DOMAIN Plugins : Plugins[j] = Plugins[k] => j = k
  BY PluginAssumption DEF PluginSet, ToSet, IsInjective

\* There are finitely many ids.
LEMMA FiniteIds == IsFiniteSet(Ids)
<1> DEFINE All == {ToSet(Feeds[a]) : a \in AssetSet}
           feeds == [a \in AssetSet |-> ToSet(Feeds[a])]
           ids == [f \in UNION All |-> f.id]
<1>1. IsFiniteSet(AssetSet)
  BY FiniteRange, AssetAssumption DEF AssetSet
<1>2. feeds \in Surjection(AssetSet, All)
  BY DEF Surjection
<1>3. IsFiniteSet(All)
  BY <1>1, <1>2, FS_Surjection
<1>4. \A T \in All : IsFiniteSet(T)
  BY FiniteRange, AssetAssumption
<1>5. IsFiniteSet(UNION All)
  BY <1>3, <1>4, FS_UNION
<1>6. ids \in Surjection(UNION All, Ids)
  BY DEF Surjection, Ids
<1>7. QED
  BY <1>5, <1>6, FS_Surjection

\* Only Pyth's answers age, and an answer without a time is always valid.
LEMMA OnlyPythAges ==
  ASSUME CachesInv, NEW p \in PluginSet, NEW x \in ToSet(caches[p]), ~IsValid(x)
  PROVE  x.publishTime # 0 /\ MaxAge # 0 /\ now - x.publishTime > MaxAge
  BY ScaleAssumption DEF CachesInv, IsValid

-----------------------------------------------------------------------------
(* Asking a plugin *)

\* What Ask does to the caches and to the resolved assets.
LEMMA AskEffect ==
  ASSUME CachesInv, Ask
  PROVE  \E p, answers :
           /\ p = Plugins[asked + 1] /\ asked + 1 \in DOMAIN Plugins /\ p \in PluginSet
           /\ ToSet(caches[p]) = {} /\ ToSet(caches'[p]) = answers
           /\ caches' = [q \in PluginSet |-> caches'[q]]
           /\ \A q \in PluginSet \ {p} : caches'[q] = caches[q]
           /\ \A x \in answers :
                /\ x.plugin = p /\ x.id \in Wanted(p) /\ x.raw \in RawPrices[p][x.id]
                /\ x.publishTime \in Nat
           /\ \A x, y \in answers : x.id = y.id => x = y
           /\ resolved' = resolved \cup Resolved(p, answers)
           /\ caches'[p] \in Seq(answers)
<1> DEFINE p == Plugins[asked + 1]
<1>1. asked \in Nat /\ asked < Len(Plugins) /\ now \in Nat
  BY DEF CachesInv, Ask
<1>2. asked + 1 \in DOMAIN Plugins /\ p \in PluginSet
  BY <1>1, PluginPlace
<1>3. PICK answers \in SUBSET UNION {AnswersOf(p, id) : id \in Wanted(p)} :
        /\ \A x, y \in answers : x.id = y.id => x = y
        /\ \E order \in Orders(p, answers) : caches' = [caches EXCEPT ![p] = order]
        /\ resolved' = resolved \cup Resolved(p, answers)
  BY DEF Ask
<1>4. PICK order \in Orders(p, answers) : caches' = [caches EXCEPT ![p] = order]
  BY <1>3
<1>5. ASSUME NEW x \in answers
      PROVE  /\ x.plugin = p /\ x.id \in Wanted(p) /\ x.raw \in RawPrices[p][x.id]
             /\ x.publishTime \in Nat
  <2>1. PICK id \in Wanted(p) : x \in AnswersOf(p, id)
    BY <1>3
  <2>2. PICK r \in RawPrices[p][id], t \in IF p = "coingecko" THEN {0} ELSE 0..now :
          x = [plugin |-> p, id |-> id, raw |-> r, publishTime |-> t]
    BY <2>1 DEF AnswersOf
  <2>3. t \in Nat
    BY <2>2, <1>1
  <2>4. QED
    BY <2>2, <2>3
<1>6. IsFiniteSet(answers)
  <2>1. [x \in answers |-> x.id] \in Injection(answers, Ids)
    BY <1>3, <1>5 DEF Injection, IsInjective, Wanted
  <2>2. QED
    BY <2>1, FiniteIds, FS_Injection
<1>7. ToSet(order) = answers /\ order \in Seq(answers)
  BY <1>6, <1>4, SeqsOf DEF Orders
<1>8. ToSet(caches[p]) = {}
  BY <1>1, <1>2, PluginPlace DEF CachesInv
<1>9. /\ caches' = [q \in PluginSet |-> caches'[q]] /\ caches'[p] = order
      /\ \A q \in PluginSet \ {p} : caches'[q] = caches[q]
  <2>1. caches = [q \in PluginSet |-> caches[q]]
    BY DEF CachesInv
  <2>2. QED
    BY <2>1, <1>2, <1>4
<1>10. QED
  BY <1>2, <1>3, <1>5, <1>7, <1>8, <1>9

LEMMA AskKeepsCaches ==
  ASSUME CachesInv, Ask
  PROVE  CachesInv'
<1>1. PICK p, answers :
        /\ p = Plugins[asked + 1] /\ asked + 1 \in DOMAIN Plugins /\ p \in PluginSet
        /\ ToSet(caches[p]) = {} /\ ToSet(caches'[p]) = answers
        /\ caches' = [q \in PluginSet |-> caches'[q]]
        /\ \A q \in PluginSet \ {p} : caches'[q] = caches[q]
        /\ \A x \in answers :
             /\ x.plugin = p /\ x.id \in Wanted(p)
             /\ x.publishTime \in Nat
        /\ \A x, y \in answers : x.id = y.id => x = y
        /\ resolved' = resolved \cup Resolved(p, answers)
  BY AskEffect
<1>2. now' \in Nat /\ asked' = asked + 1 /\ asked \in Nat /\ asked' \in 0..Len(Plugins)
  BY <1>1, PluginPlace DEF CachesInv, Ask
<1>3. DOMAIN caches' = PluginSet
  BY <1>1
<1>4. ASSUME NEW q \in PluginSet, NEW x \in ToSet(caches'[q])
      PROVE  /\ x.plugin = q /\ x.publishTime \in Nat
             /\ \E k \in 1..asked' : Plugins[k] = q
  <2>1. CASE q = p
    <3>1. x.plugin = q /\ x.publishTime \in Nat
      BY <1>1, <2>1, <1>4
    <3>2. QED
      BY <1>1, <1>2, <2>1, <3>1
  <2>2. CASE q # p
    <3>1. x \in ToSet(caches[q])
      BY <1>1, <1>4, <2>2
    <3>2. QED
      BY <3>1, <1>2 DEF CachesInv
  <2>3. QED
    BY <2>1, <2>2
<1>5. ASSUME NEW q \in PluginSet, NEW x \in ToSet(caches'[q]), NEW y \in ToSet(caches'[q]),
             x.id = y.id
      PROVE  x = y
  <2>1. CASE q = p
    BY <1>1, <2>1, <1>5
  <2>2. CASE q # p
    <3>1. x \in ToSet(caches[q]) /\ y \in ToSet(caches[q])
      BY <1>1, <1>5, <2>2
    <3>2. QED
      BY <3>1, <1>5 DEF CachesInv
  <2>3. QED
    BY <2>1, <2>2
<1>6. QED
  BY <1>1, <1>2, <1>3, <1>4, <1>5 DEF CachesInv

\* Resolved assets are still those with a feed that was answered, and an asset whose feed has
\* a valid answer is one: of all the assets that share the id.
LEMMA AskKeepsResolved ==
  ASSUME CachesInv, ResolvedInv, Ask
  PROVE  ResolvedInv'
<1>1. PICK p, answers :
        /\ p = Plugins[asked + 1] /\ asked + 1 \in DOMAIN Plugins /\ p \in PluginSet
        /\ ToSet(caches[p]) = {} /\ ToSet(caches'[p]) = answers
        /\ caches' = [q \in PluginSet |-> caches'[q]]
        /\ \A q \in PluginSet \ {p} : caches'[q] = caches[q]
        /\ \A x \in answers :
             /\ x.plugin = p /\ x.id \in Wanted(p)
             /\ x.publishTime \in Nat
        /\ \A x, y \in answers : x.id = y.id => x = y
        /\ resolved' = resolved \cup Resolved(p, answers)
  BY AskEffect
<1>2. \A x : IsValid(x)' <=> IsValid(x)
  BY DEF Ask, IsValid
<1>3. \A q \in PluginSet : \A x \in ToSet(caches[q]) : x \in ToSet(caches'[q])
  BY <1>1
<1>4. \A q \in PluginSet : \A x \in ToSet(caches'[q]) :
        q # p => x \in ToSet(caches[q])
  BY <1>1
<1>5. ASSUME NEW id \in Ids, NEW a \in Wanting(p, id)
      PROVE  a \in AssetSet /\ \E f \in ToSet(Feeds[a]) : f.plugin = p /\ f.id = id
  BY FeedType DEF Wanting, FeedsOf
<1>6. ASSUME NEW a \in AssetSet, NEW f \in ToSet(Feeds[a]),
             NEW x \in ToSet(caches'[f.plugin]), x.id = f.id, IsValid(x)'
      PROVE  a \in resolved'
  <2>1. f \in [plugin : PluginSet, id : Ids] /\ \E i \in DOMAIN Feeds[a] : f = Feeds[a][i]
    BY FeedType
  <2>2. CASE f.plugin # p
    <3>1. x \in ToSet(caches[f.plugin]) /\ IsValid(x)
      BY <1>2, <1>4, <1>6, <2>1, <2>2
    <3>2. a \in resolved
      BY <3>1, <1>6 DEF ResolvedInv
    <3>3. QED
      BY <3>2, <1>1
  <2>3. CASE f.plugin = p /\ a \notin resolved
    <3>1. f \in FeedsOf(a, p)
      BY <2>1, <2>3 DEF FeedsOf
    <3>2. a \in Wanting(p, x.id)
      BY <3>1, <1>6, <2>3 DEF Wanting
    <3>3. x \in answers /\ IsValid(x)
      BY <1>1, <1>2, <1>6, <2>3
    <3>4. a \in Resolved(p, answers)
      BY <3>2, <3>3 DEF Resolved
    <3>5. QED
      BY <3>4, <1>1
  <2>4. CASE a \in resolved
    BY <2>4, <1>1
  <2>5. QED
    BY <2>2, <2>3, <2>4
<1>7. ASSUME NEW a \in resolved'
      PROVE  a \in AssetSet /\ \E f \in ToSet(Feeds[a]) : Answered(f)'
  <2>1. CASE a \in resolved
    <3>1. a \in AssetSet
      BY <2>1 DEF ResolvedInv
    <3>2. PICK f \in ToSet(Feeds[a]) : Answered(f)
      BY <2>1 DEF ResolvedInv
    <3>3. f.plugin \in PluginSet
      BY <3>1, FeedType
    <3>4. QED
      BY <1>3, <3>1, <3>2, <3>3 DEF Answered
  <2>2. CASE a \in Resolved(p, answers)
    <3>1. PICK x \in answers : a \in Wanting(p, x.id)
      BY <2>2 DEF Resolved
    <3>2. x.id \in Ids
      BY <1>1, <3>1 DEF Wanted
    <3>3. a \in AssetSet /\ \E f \in ToSet(Feeds[a]) : f.plugin = p /\ f.id = x.id
      BY <1>5, <3>1, <3>2
    <3>4. QED
      BY <1>1, <3>1, <3>3 DEF Answered
  <2>3. QED
    BY <1>1, <1>7, <2>1, <2>2
<1>8. ASSUME NEW a \in AssetSet, NEW i \in DOMAIN Feeds[a], i \in Usable(a)',
             NEW j \in DOMAIN Feeds[a], i < j, Answered(Feeds[a][j])'
      PROVE  FALSE
  <2> DEFINE f == Feeds[a][i]
             g == Feeds[a][j]
  <2>1. /\ f \in [plugin : PluginSet, id : Ids] /\ f \in ToSet(Feeds[a])
        /\ g \in [plugin : PluginSet, id : Ids] /\ i \in Nat /\ j \in Nat
    BY FeedType
  <2>2. PICK x \in ToSet(caches'[f.plugin]) : x.id = f.id /\ IsValid(x)'
    BY <1>8 DEF Usable
  <2>3. PICK y \in ToSet(caches'[g.plugin]) : y.id = g.id
    BY <1>8 DEF Answered
  <2>4. PICK m \in DOMAIN Plugins, n \in DOMAIN Plugins :
          f.plugin = Plugins[m] /\ g.plugin = Plugins[n]
    BY <2>1, PluginPlace
  <2>5. m < n
    BY <1>8, <2>4, FeedsAssumption
  <2>6. m \in Nat /\ n \in Nat /\ asked \in Nat
    BY PluginPlace DEF CachesInv
  <2>7. CASE f.plugin = p
    <3>1. m = asked + 1
      BY <1>1, <2>4, <2>7, PluginPlace
    <3>2. g.plugin # p
      BY <1>1, <2>4, <2>5, <2>6, <3>1, PluginPlace
    <3>3. y \in ToSet(caches[g.plugin])
      BY <1>4, <2>1, <2>3, <3>2
    <3>4. PICK k \in 1..asked : Plugins[k] = g.plugin
      BY <2>1, <3>3 DEF CachesInv
    <3>5. k = n
      BY <2>4, <2>6, <3>4, PluginPlace DEF CachesInv
    <3>6. QED
      BY <2>5, <2>6, <3>1, <3>4, <3>5
  <2>8. CASE f.plugin # p
    <3>1. x \in ToSet(caches[f.plugin]) /\ IsValid(x)
      BY <1>2, <1>4, <2>1, <2>2, <2>8
    <3>2. i \in Usable(a)
      BY <2>2, <3>1 DEF Usable
    <3>3. ~Answered(g)
      BY <1>8, <3>2 DEF ResolvedInv
    <3>4. g.plugin = p
      BY <1>4, <2>1, <2>3, <3>3 DEF Answered
    <3>5. y.id \in Wanted(p)
      BY <1>1, <2>3, <3>4
    <3>6. PICK b \in AssetSet \ resolved : \E h \in FeedsOf(b, p) : h.id = y.id
      BY <3>5 DEF Wanted, Wanting
    <3>7. PICK k \in DOMAIN Feeds[b] : Feeds[b][k].plugin = p /\ Feeds[b][k].id = y.id
      BY <3>6 DEF FeedsOf
    <3>8. Feeds[b][k] \in [plugin : PluginSet, id : Ids]
      BY <3>6, FeedType
    <3>9. Feeds[a][j] = Feeds[b][k]
      BY <2>1, <2>3, <3>4, <3>7, <3>8, SameFeed
    <3>10. j = k /\ \A l \in 1..j : Feeds[a][l] = Feeds[b][l]
      BY <3>6, <3>9, FeedsAssumption
    <3>11. i \in 1..j
      <4>1. DOMAIN Feeds[a] = 1..Len(Feeds[a])
        BY AssetAssumption
      <4>2. QED
        BY <4>1, <2>1, <1>8
    <3>12. f = Feeds[b][i] /\ i \in DOMAIN Feeds[b]
      <4>1. DOMAIN Feeds[b] = 1..Len(Feeds[b]) /\ Len(Feeds[b]) \in Nat
        BY <3>6, AssetAssumption
      <4>2. QED
        BY <4>1, <3>7, <3>10, <3>11, <2>1
    <3>13. f \in ToSet(Feeds[b])
      BY <3>6, <3>12, FeedType
    <3>14. b \in resolved
      BY <2>2, <3>1, <3>6, <3>13 DEF ResolvedInv
    <3>15. QED
      BY <3>6, <3>14
  <2>9. QED
    BY <2>7, <2>8
<1>9. \A a \in AssetSet : \A i \in Usable(a)' : i \in DOMAIN Feeds[a]
  BY DEF Usable
<1>10. QED
  BY <1>6, <1>7, <1>8, <1>9 DEF ResolvedInv

-----------------------------------------------------------------------------
(* Time and the other steps *)

\* As time passes answers only become stale.
LEMMA TickKeeps ==
  ASSUME IInv, Tick
  PROVE  IInv'
<1>1. now \in Nat /\ now' = now + 1 /\ phase \in {"fetching", "resolving"}
  BY DEF IInv, CachesInv, Tick
<1>2. UNCHANGED <<phase, asked, caches, resolved, reference, done, prices>>
  BY DEF Tick
<1>3. CachesInv'
  BY <1>1, <1>2 DEF IInv, CachesInv
<1>4. ASSUME NEW p \in PluginSet, NEW x \in ToSet(caches[p]), IsValid(x)'
      PROVE  IsValid(x)
  <2>1. x.publishTime \in Nat
    BY DEF IInv, CachesInv
  <2>2. QED
    BY <1>1, <1>4, <2>1, ScaleAssumption DEF IsValid
<1>5. ASSUME NEW a \in AssetSet
      PROVE  Usable(a)' \subseteq Usable(a)
  <2>1. \A i \in DOMAIN Feeds[a] : Feeds[a][i].plugin \in PluginSet
    BY FeedType
  <2>2. QED
    BY <1>2, <1>4, <2>1 DEF Usable
<1>6. ResolvedInv'
  <2>1. ASSUME NEW a \in AssetSet, NEW f \in ToSet(Feeds[a]),
               NEW x \in ToSet(caches[f.plugin]), x.id = f.id, IsValid(x)'
        PROVE  a \in resolved
    <3>1. f.plugin \in PluginSet
      BY FeedType
    <3>2. QED
      BY <1>4, <2>1, <3>1 DEF IInv, ResolvedInv
  <2>2. \A a \in resolved : a \in AssetSet /\ \E f \in ToSet(Feeds[a]) : Answered(f)
    BY DEF IInv, ResolvedInv
  <2>3. \A a \in AssetSet : \A i \in Usable(a)' : \A j \in DOMAIN Feeds[a] :
          i < j => ~Answered(Feeds[a][j])
    BY <1>5 DEF IInv, ResolvedInv
  <2>4. \A f : Answered(f)' <=> Answered(f)
    BY <1>2 DEF Answered
  <2>5. QED
    BY <1>2, <2>1, <2>2, <2>3, <2>4 DEF ResolvedInv
<1>7. PricesInv'
  BY <1>2 DEF IInv, PricesInv, AnswerTo, Answered
<1>8. DoneInv'
  <2>1. done \in 0..Len(Assets) /\ DOMAIN Assets = 1..Len(Assets) /\ Len(Assets) \in Nat
    BY AssetAssumption DEF IInv, DoneInv
  <2>2. \A k \in 1..done : Assets[k] \in AssetSet
    BY <2>1 DEF AssetSet, ToSet
  <2>3. \A k \in 1..done : Usable(Assets[k]) = {} => Usable(Assets[k])' = {}
    <3>1. ASSUME NEW k \in 1..done, Usable(Assets[k]) = {}
          PROVE  Usable(Assets[k])' = {}
      <4>1. Usable(Assets[k])' \subseteq Usable(Assets[k])
        BY <1>5, <2>2
      <4>2. QED
        BY <3>1, <4>1
    <3>2. QED
      BY <3>1
  <2>4. Priced' = Priced
    BY <1>2 DEF Priced
  <2>5. ASSUME NEW k \in 1..done', phase' \in {"resolving", "returned"}
        PROVE  (Assets[k] \in Priced \/ Usable(Assets[k]) = {})'
    BY <1>2, <2>3, <2>4, <2>5 DEF IInv, DoneInv
  <2>6. QED
    BY <1>2, <2>1, <2>5 DEF IInv, DoneInv
<1>9. FreshWhenPriced'
  BY <1>2 DEF IInv, FreshWhenPriced
<1>10. QED
  BY <1>3, <1>6, <1>7, <1>8, <1>9 DEF IInv

\* Where no answer comes, time stands still and no price is added, the facts about them hold on.
LEMMA Frozen ==
  ASSUME IInv, UNCHANGED <<now, asked, caches, resolved, prices>>, phase' # "fetching"
  PROVE  CachesInv' /\ ResolvedInv' /\ PricesInv' /\ FreshWhenPriced'
<1>1. CachesInv'
  BY DEF IInv, CachesInv
<1>2. ResolvedInv'
  BY DEF IInv, ResolvedInv, Usable, Answered, IsValid
<1>3. PricesInv'
  BY DEF IInv, PricesInv, AnswerTo, Answered
<1>4. FreshWhenPriced'
  BY DEF IInv, FreshWhenPriced
<1>5. QED
  BY <1>1, <1>2, <1>3, <1>4

\* An asset with a usable answer is quoted from the first feed that has one, and none of
\* the feeds after it has an answer.
LEMMA QuoteFacts ==
  ASSUME CachesInv, NEW a \in AssetSet, Usable(a) # {}
  PROVE  \E i \in Usable(a) :
           /\ i \in DOMAIN Feeds[a] /\ Feeds[a][i] \in [plugin : PluginSet, id : Ids]
           /\ AnswerTo(Quote(a), Feeds[a][i]) /\ IsValid(Quote(a))
<1>1. Usable(a) \subseteq DOMAIN Feeds[a] /\ Usable(a) \in SUBSET Nat
  BY FeedType DEF Usable
<1>2. Min(Usable(a)) \in Usable(a)
  BY <1>1, MinOfSet
<1> DEFINE f == Feeds[a][Min(Usable(a))]
<1>3. f \in [plugin : PluginSet, id : Ids]
  BY <1>1, <1>2, FeedType
<1>4. PICK x \in ToSet(caches[f.plugin]) : x.id = f.id /\ IsValid(x)
  BY <1>2 DEF Usable
<1>5. Quote(a) \in ToSet(caches[f.plugin]) /\ Quote(a).id = f.id
  BY <1>4 DEF Quote
<1>6. Quote(a) = x
  BY <1>3, <1>4, <1>5 DEF CachesInv
<1>7. QED
  BY <1>1, <1>2, <1>3, <1>4, <1>5, <1>6 DEF AnswerTo

\* A price pushed for an asset is without a source or of a usable answer to one of its feeds.
LEMMA PushKeeps ==
  ASSUME IInv, NEW a \in AssetSet, NEW source, NEW price, Push(a, source, price),
         UNCHANGED <<now, asked, caches, resolved>>, phase' # "fetching",
         \/ source = NoAnswer
         \/ \E i \in Usable(a) :
              /\ i \in DOMAIN Feeds[a] /\ Feeds[a][i] \in [plugin : PluginSet, id : Ids]
              /\ AnswerTo(source, Feeds[a][i]) /\ IsValid(source)
  PROVE  PricesInv' /\ FreshWhenPriced' /\ Priced' = Priced \cup {a}
<1> DEFINE r == [asset |-> a, source |-> source, price |-> price, at |-> now]
<1>1. prices' = Append(prices, r)
  BY DEF Push
<1>2. ToSet(prices') = ToSet(prices) \cup {r} /\ prices' \in Seq(ToSet(prices'))
  BY <1>1, AppendSet DEF IInv, PricesInv
<1>3. r.asset = a /\ r.source = source /\ r.at = now
  OBVIOUS
<1> HIDE DEF r
<1>4. Priced' = Priced \cup {a}
  BY <1>2, <1>3 DEF Priced
<1>5. ASSUME source # NoAnswer
      PROVE  \E i \in DOMAIN Feeds[a] :
               /\ AnswerTo(source, Feeds[a][i])
               /\ \A b \in AssetSet : \A m, n \in DOMAIN Feeds[b] :
                    Feeds[b][m] = Feeds[a][i] /\ m < n => ~Answered(Feeds[b][n])
  <2>1. PICK i \in Usable(a) :
          /\ i \in DOMAIN Feeds[a] /\ Feeds[a][i] \in [plugin : PluginSet, id : Ids]
          /\ AnswerTo(source, Feeds[a][i]) /\ IsValid(source)
    BY <1>5
  <2>2. ASSUME NEW b \in AssetSet, NEW m \in DOMAIN Feeds[b], NEW n \in DOMAIN Feeds[b],
               Feeds[b][m] = Feeds[a][i], m < n
        PROVE  ~Answered(Feeds[b][n])
    <3>1. m \in Usable(b)
      BY <2>1, <2>2 DEF Usable, AnswerTo
    <3>2. QED
      BY <2>2, <3>1 DEF IInv, ResolvedInv
  <2>3. QED
    BY <2>1, <2>2
<1>6. PricesInv'
  <2>1. \A p \in ToSet(prices') : p.asset \in AssetSet
    BY <1>2, <1>3 DEF IInv, PricesInv
  <2>2. ASSUME NEW p \in ToSet(prices'), p.source # NoAnswer
        PROVE  \E i \in DOMAIN Feeds[p.asset] :
                 /\ AnswerTo(p.source, Feeds[p.asset][i])
                 /\ \A b \in AssetSet : \A m, n \in DOMAIN Feeds[b] :
                      Feeds[b][m] = Feeds[p.asset][i] /\ m < n => ~Answered(Feeds[b][n])
    <3>1. CASE p \in ToSet(prices)
      BY <2>2, <3>1 DEF IInv, PricesInv
    <3>2. CASE p = r
      BY <1>3, <1>5, <2>2, <3>2
    <3>3. QED
      BY <1>2, <2>2, <3>1, <3>2
  <2>3. \A x, f : AnswerTo(x, f)' <=> AnswerTo(x, f)
    BY DEF AnswerTo
  <2>4. \A f : Answered(f)' <=> Answered(f)
    BY DEF Answered
  <2>5. QED
    BY <1>2, <2>1, <2>2, <2>3, <2>4 DEF PricesInv
<1>7. FreshWhenPriced'
  <2>1. ASSUME source.plugin = "pyth", MaxAge # 0, source.publishTime # 0
        PROVE  now - source.publishTime <= MaxAge
    <3>1. CASE source = NoAnswer
      BY <2>1, <3>1 DEF NoAnswer
    <3>2. CASE source # NoAnswer
      <4>1. IsValid(source)
        BY <3>2
      <4>2. QED
        BY <2>1, <4>1 DEF IsValid
    <3>3. QED
      BY <3>1, <3>2
  <2>2. QED
    BY <1>2, <1>3, <2>1 DEF IInv, FreshWhenPriced
<1>8. QED
  BY <1>4, <1>6, <1>7

LEMMA PriceAssetKeeps ==
  ASSUME IInv, PriceAsset
  PROVE  IInv'
<1> DEFINE a == Assets[done + 1]
<1>1. /\ phase = "resolving" /\ done < Len(Assets) /\ done' = done + 1
      /\ UNCHANGED <<now, asked, caches, resolved>>
  BY DEF PriceAsset
<1>2. /\ done \in Nat /\ Len(Assets) \in Nat /\ done + 1 \in 1..Len(Assets)
      /\ DOMAIN Assets = 1..Len(Assets)
  BY <1>1, AssetAssumption DEF IInv, DoneInv
<1>3. a \in AssetSet
  BY <1>2 DEF AssetSet, ToSet
<1>4. phase' \in {"resolving", "thrown"}
  BY <1>1 DEF PriceAsset
<1>5. CachesInv' /\ ResolvedInv' /\ (\A b : Usable(b)' = Usable(b))
  <2>1. \A x : IsValid(x)' <=> IsValid(x)
    BY <1>1 DEF IsValid
  <2>2. \A f : Answered(f)' <=> Answered(f)
    BY <1>1 DEF Answered
  <2>3. \A b : Usable(b)' = Usable(b)
    BY <1>1, <2>1 DEF Usable
  <2>4. CachesInv'
    BY <1>1 DEF IInv, CachesInv
  <2>5. ResolvedInv'
    BY <1>1, <2>1, <2>2, <2>3 DEF IInv, ResolvedInv
  <2>6. QED
    BY <2>3, <2>4, <2>5
<1>6. /\ PricesInv' /\ FreshWhenPriced'
      /\ phase' = "resolving" => (Priced' = Priced /\ Usable(a) = {}) \/ Priced' = Priced \cup {a}
  <2>1. CASE Push(a, NoAnswer, <<"1">>)
    BY <1>1, <1>3, <1>4, <2>1, PushKeeps
  <2>2. CASE UNCHANGED prices /\ (Usable(a) = {} \/ phase' = "thrown")
    <3>1. PricesInv' /\ FreshWhenPriced'
      BY <1>1, <1>4, <2>2, Frozen
    <3>2. Priced' = Priced
      BY <2>2 DEF Priced
    <3>3. QED
      BY <2>2, <3>1, <3>2
  <2>3. CASE Usable(a) # {} /\ Push(a, Quote(a), PriceOf(Quote(a)))
    <3>1. \E i \in Usable(a) :
            /\ i \in DOMAIN Feeds[a] /\ Feeds[a][i] \in [plugin : PluginSet, id : Ids]
            /\ AnswerTo(Quote(a), Feeds[a][i]) /\ IsValid(Quote(a))
      BY <1>3, <2>3, QuoteFacts DEF IInv
    <3>2. QED
      BY <1>1, <1>3, <1>4, <2>3, <3>1, PushKeeps
  <2>4. QED
    BY <2>1, <2>2, <2>3 DEF PriceAsset
<1>7. DoneInv'
  <2>1. ASSUME phase' = "resolving", NEW k \in 1..done + 1
        PROVE  Assets[k] \in Priced' \/ Usable(Assets[k])' = {}
    <3>1. CASE k = done + 1
      BY <1>5, <1>6, <2>1, <3>1
    <3>2. CASE k \in 1..done
      BY <1>1, <1>5, <1>6, <2>1, <3>2 DEF IInv, DoneInv
    <3>3. QED
      BY <1>2, <3>1, <3>2
  <2>2. done' \in 0..Len(Assets) /\ 1..done' = 1..done + 1
    BY <1>1, <1>2
  <2>3. phase' = "resolving" =>
          \A k \in 1..done' : Assets[k] \in Priced' \/ Usable(Assets[k])' = {}
    BY <2>1, <2>2
  <2>4. QED
    BY <1>4, <2>2, <2>3 DEF DoneInv
<1>8. QED
  BY <1>5, <1>6, <1>7 DEF IInv

-----------------------------------------------------------------------------
(* The invariant *)

LEMMA InitIInv ==
  ASSUME Init
  PROVE  IInv
<1>1. \A p \in PluginSet : caches[p] = <<>> /\ ToSet(caches[p]) = {}
  BY DEF Init, ToSet
<1>2. ToSet(prices) = {} /\ prices \in Seq(ToSet(prices))
  BY DEF Init, ToSet
<1>3. CachesInv
  <2>1. now \in Nat /\ asked \in 0..Len(Plugins)
    BY PluginPlace, ScaleAssumption DEF Init
  <2>2. DOMAIN caches = PluginSet /\ caches = [p \in PluginSet |-> caches[p]]
    BY DEF Init
  <2>3. QED
    BY <1>1, <2>1, <2>2 DEF CachesInv
<1>4. ResolvedInv
  <2>1. \A a \in AssetSet : \A f \in ToSet(Feeds[a]) : ToSet(caches[f.plugin]) = {}
    BY <1>1, FeedType
  <2>2. \A a \in AssetSet : Usable(a) = {}
    BY <2>1, FeedType DEF Usable
  <2>3. QED
    BY <2>1, <2>2 DEF ResolvedInv, Init
<1>5. PricesInv /\ FreshWhenPriced
  BY <1>2 DEF Init, PricesInv, FreshWhenPriced
<1>6. DoneInv
  BY AssetAssumption DEF Init, DoneInv
<1>7. QED
  BY <1>3, <1>4, <1>5, <1>6 DEF IInv

LEMMA StepIInv ==
  ASSUME IInv, [Next]_vars
  PROVE  IInv'
<1>1. ASSUME Ask
      PROVE  IInv'
  <2>1. phase = "fetching" /\ UNCHANGED <<phase, now, reference, done, prices>>
    BY <1>1 DEF Ask
  <2>2. CachesInv' /\ ResolvedInv'
    BY <1>1, AskKeepsCaches, AskKeepsResolved DEF IInv
  <2>3. ToSet(prices) = {}
    BY <2>1 DEF IInv, PricesInv, ToSet
  <2>4. PricesInv'
    BY <2>1, <2>3 DEF IInv, PricesInv
  <2>5. FreshWhenPriced'
    BY <2>1, <2>3 DEF FreshWhenPriced
  <2>6. DoneInv'
    BY <2>1 DEF IInv, DoneInv
  <2>7. QED
    BY <2>2, <2>4, <2>5, <2>6 DEF IInv
<1>2. ASSUME Tick
      PROVE  IInv'
  BY <1>2, TickKeeps
<1>3. ASSUME FindXrdUsdPrice
      PROVE  IInv'
  <2>1. /\ phase = "fetching" /\ phase' \in {"thrown", "resolving"}
        /\ UNCHANGED <<now, asked, caches, resolved, done, prices>>
    BY <1>3 DEF FindXrdUsdPrice
  <2>2. CachesInv' /\ ResolvedInv' /\ PricesInv' /\ FreshWhenPriced'
    BY <2>1, Frozen
  <2>3. DoneInv'
    BY <2>1 DEF IInv, DoneInv
  <2>4. QED
    BY <2>2, <2>3 DEF IInv
<1>4. ASSUME PriceAsset
      PROVE  IInv'
  BY <1>4, PriceAssetKeeps
<1>5. ASSUME Return
      PROVE  IInv'
  <2>1. /\ phase = "resolving" /\ done = Len(Assets) /\ phase' \in {"thrown", "returned"}
        /\ UNCHANGED <<now, asked, caches, resolved, reference, done, prices>>
    BY <1>5 DEF Return
  <2>2. CachesInv' /\ ResolvedInv' /\ PricesInv' /\ FreshWhenPriced'
    BY <2>1, Frozen
  <2>3. Priced' = Priced /\ (\A a : Usable(a)' = Usable(a))
    BY <2>1 DEF Priced, Usable, IsValid
  <2>4. DoneInv'
    BY <2>1, <2>3 DEF IInv, DoneInv
  <2>5. QED
    BY <2>2, <2>4 DEF IInv
<1>6. ASSUME UNCHANGED vars
      PROVE  IInv'
  <2>1. UNCHANGED <<phase, now, asked, caches, resolved, reference, done, prices>>
    BY <1>6 DEF vars
  <2>2. CachesInv' /\ FreshWhenPriced'
    BY <2>1 DEF IInv, CachesInv, FreshWhenPriced
  <2>3. ResolvedInv'
    BY <2>1 DEF IInv, ResolvedInv, Usable, Answered, IsValid
  <2>4. PricesInv'
    BY <2>1 DEF IInv, PricesInv, AnswerTo, Answered
  <2>5. Priced' = Priced /\ (\A a : Usable(a)' = Usable(a))
    BY <2>1 DEF Priced, Usable, IsValid
  <2>6. DoneInv'
    BY <2>1, <2>5 DEF IInv, DoneInv
  <2>7. QED
    BY <2>2, <2>3, <2>4, <2>6 DEF IInv
<1>7. QED
  BY <1>1, <1>2, <1>3, <1>4, <1>5, <1>6 DEF Next

\* The prices are of the answers at hand, as stated by IInv, in every state.
THEOREM PricesHold == Spec => []IInv
<1>1. Init => IInv
  BY InitIInv
<1>2. IInv /\ [Next]_vars => IInv'
  BY StepIInv
<1>3. QED
  BY <1>1, <1>2, PTL DEF Spec

\* No price is put in the update past the age its answer may have (isResultValid at the time
\* of resolveAssetPrice, not of the fetch).
THEOREM PricedFresh == Spec => []FreshWhenPriced
<1>1. IInv => FreshWhenPriced
  BY DEF IInv
<1>2. QED
  BY <1>1, PricesHold, PTL

\* Two prices of answers to feeds that share one are of the same answer.
LEMMA SharedFeed ==
  ASSUME IInv, NEW p \in ToSet(prices), NEW q \in ToSet(prices),
         NEW f \in ToSet(Feeds[p.asset]) \cap ToSet(Feeds[q.asset]),
         f.plugin = p.source.plugin, f.id = p.source.id, q.source # NoAnswer
  PROVE  q.source = p.source
<1>1. p.asset \in AssetSet /\ q.asset \in AssetSet
  BY DEF IInv, PricesInv
<1>2. /\ f \in [plugin : PluginSet, id : Ids]
      /\ \E k \in DOMAIN Feeds[q.asset] : f = Feeds[q.asset][k]
  BY <1>1, FeedType
<1>3. p.source # NoAnswer
  BY <1>2, PluginAssumption DEF NoAnswer
<1>4. PICK i \in DOMAIN Feeds[p.asset] :
        /\ AnswerTo(p.source, Feeds[p.asset][i])
        /\ \A b \in AssetSet : \A m, n \in DOMAIN Feeds[b] :
             Feeds[b][m] = Feeds[p.asset][i] /\ m < n => ~Answered(Feeds[b][n])
  BY <1>3 DEF IInv, PricesInv
<1>5. PICK j \in DOMAIN Feeds[q.asset] :
        /\ AnswerTo(q.source, Feeds[q.asset][j])
        /\ \A b \in AssetSet : \A m, n \in DOMAIN Feeds[b] :
             Feeds[b][m] = Feeds[q.asset][j] /\ m < n => ~Answered(Feeds[b][n])
  BY DEF IInv, PricesInv
<1>6. /\ Feeds[p.asset][i] \in [plugin : PluginSet, id : Ids] /\ i \in Nat
      /\ Feeds[q.asset][j] \in [plugin : PluginSet, id : Ids] /\ j \in Nat
  BY <1>1, FeedType
<1>7. f = Feeds[p.asset][i]
  <2>1. p.source.plugin = Feeds[p.asset][i].plugin /\ p.source.id = Feeds[p.asset][i].id
    BY <1>4, <1>6 DEF AnswerTo, IInv, CachesInv
  <2>2. QED
    BY <1>2, <1>6, <2>1, SameFeed
<1>8. /\ i \in DOMAIN Feeds[q.asset] /\ Feeds[q.asset][i] = Feeds[p.asset][i]
      /\ \A k \in 1..i : Feeds[p.asset][k] = Feeds[q.asset][k]
  <2>1. PICK k \in DOMAIN Feeds[q.asset] : f = Feeds[q.asset][k]
    BY <1>2
  <2>2. i = k /\ \A l \in 1..i : Feeds[p.asset][l] = Feeds[q.asset][l]
    <3>1. \A a, b \in AssetSet : \A m \in DOMAIN Feeds[a], n \in DOMAIN Feeds[b] :
            Feeds[a][m] = Feeds[b][n] => m = n /\ \A l \in 1..m : Feeds[a][l] = Feeds[b][l]
      BY FeedsAssumption
    <3>2. Feeds[p.asset][i] = Feeds[q.asset][k]
      BY <1>7, <2>1
    <3>3. QED
      BY <1>1, <2>1, <3>1, <3>2
  <2>3. QED
    BY <1>7, <2>1, <2>2
<1>9. CASE i < j
  BY <1>1, <1>4, <1>5, <1>8, <1>9 DEF AnswerTo, Answered
<1>10. CASE j < i
  <2>1. /\ DOMAIN Feeds[p.asset] = 1..Len(Feeds[p.asset]) /\ Len(Feeds[p.asset]) \in Nat
        /\ DOMAIN Feeds[q.asset] = 1..Len(Feeds[q.asset])
    BY <1>1, AssetAssumption
  <2>2. j \in DOMAIN Feeds[p.asset] /\ Feeds[p.asset][j] = Feeds[q.asset][j]
    BY <1>5, <1>6, <1>8, <1>10, <2>1
  <2>3. ~Answered(Feeds[p.asset][i])
    BY <1>1, <1>5, <1>10, <2>2
  <2>4. QED
    BY <1>4, <2>3 DEF AnswerTo, Answered
<1>11. CASE i = j
  BY <1>4, <1>5, <1>6, <1>8, <1>11 DEF AnswerTo, IInv, CachesInv
<1>12. QED
  BY <1>6, <1>9, <1>10, <1>11

\* Assets that share the feed one is priced from get the same price or none, for the assets
\* of a feed are resolved together and a plugin is only asked for those not resolved.
THEOREM PegsHold == Spec => []PegsAgree
<1>1. IInv => PegsAgree
  BY SharedFeed DEF PegsAgree
<1>2. QED
  BY <1>1, PricesHold, PTL

\* An asset left out of an update had no answer, or one that became too old since it came
\* (resolvedAssetAddresses keeps the asset from the later plugins).
THEOREM DroppedStale == Spec => []DroppedOnlyIfStale
<1>1. ASSUME IInv, phase = "returned", NEW a \in AssetSet \ Priced
      PROVE  /\ Usable(a) = {}
             /\ a \in resolved =>
                  \E f \in ToSet(Feeds[a]) : \E x \in ToSet(caches[f.plugin]) :
                    x.id = f.id /\ x.publishTime # 0 /\ now - x.publishTime > MaxAge
  <2>1. \E k \in DOMAIN Assets : a = Assets[k]
    BY <1>1 DEF AssetSet, ToSet
  <2>2. DOMAIN Assets = 1..done
    BY <1>1, AssetAssumption DEF IInv, DoneInv
  <2>3. Usable(a) = {}
    BY <1>1, <2>1, <2>2 DEF IInv, DoneInv
  <2>4. ASSUME a \in resolved
        PROVE  \E f \in ToSet(Feeds[a]) : \E x \in ToSet(caches[f.plugin]) :
                 x.id = f.id /\ x.publishTime # 0 /\ now - x.publishTime > MaxAge
    <3>1. PICK f \in ToSet(Feeds[a]) : Answered(f)
      BY <1>1, <2>4 DEF IInv, ResolvedInv
    <3>2. PICK x \in ToSet(caches[f.plugin]) : x.id = f.id
      BY <3>1 DEF Answered
    <3>3. f.plugin \in PluginSet /\ \E i \in DOMAIN Feeds[a] : f = Feeds[a][i]
      BY FeedType
    <3>4. ~IsValid(x)
      BY <2>3, <3>2, <3>3 DEF Usable
    <3>5. QED
      BY <1>1, <3>2, <3>3, <3>4, OnlyPythAges DEF IInv
  <2>5. QED
    BY <2>3, <2>4
<1>2. IInv => DroppedOnlyIfStale
  BY <1>1 DEF DroppedOnlyIfStale
<1>3. QED
  BY <1>2, PricesHold, PTL

-----------------------------------------------------------------------------
(* Conversion from USD *)

\* A price converted is the quotient of what its texts read, cut off.
LEMMA Normalized ==
  ASSUME NEW usd, NEW xrd, NEW scale \in Nat, NEW a \in Nat, NEW b \in Nat, b # 0,
         Parse(usd, scale) = a, Parse(xrd, scale) = b,
         NEW price, price = Parse(NormalizeUsdToXrd(usd, xrd, scale), scale)
  PROVE  price * b <= a * Power[scale] /\ a * Power[scale] < (price + 1) * b
<1> DEFINE n == a * Power[scale]
           q == n \div b
<1>1. n \in Nat
  BY PowerFacts
<1> HIDE DEF n
<1>2. ~(n < 0) /\ ~(b < 0) /\ (n < 0) = (b < 0)
  BY <1>1
<1>3. Quotient(n, b) = q
  BY <1>2 DEF Quotient
<1>4. q \in Nat /\ n % b \in 0..b - 1 /\ n = q * b + (n % b)
  <2>1. b > 0
    OBVIOUS
  <2>2. QED
    BY <1>1, <2>1
<1>5. NormalizeUsdToXrd(usd, xrd, scale) = TrimTrailingZeros(Format(q, scale))
  BY <1>3 DEF NormalizeUsdToXrd, n
<1> HIDE DEF q
<1>6. price = q
  BY <1>4, <1>5, ParseFormatted
<1>7. (q + 1) * b = q * b + b /\ q * b \in Nat
  BY <1>4
<1>8. q * b <= n /\ n < (q + 1) * b
  <2>1. \A x, y \in Nat : n = x + y /\ y \in 0..b - 1 => x <= n /\ n < x + b
    BY <1>1
  <2>2. n % b \in Nat
    BY <1>4
  <2>3. q * b <= n /\ n < q * b + b
    BY <1>4, <1>7, <2>1, <2>2
  <2>4. QED
    BY <1>7, <2>3
<1>9. QED
  BY <1>6, <1>8 DEF n

\* The answers cached have raw prices of their plugin, and once there is a rate, it is such
\* an answer, in USD.
RawsInv ==
  /\ \A p \in PluginSet : caches[p] \in Seq(ToSet(caches[p]))
  /\ \A p \in PluginSet : \A x \in ToSet(caches[p]) :
       x.id \in Ids /\ x.raw \in RawPrices[p][x.id]
  /\ phase = "resolving" =>
       \E p \in PluginSet : Currency[p] = "USD" /\ reference \in ToSet(caches[p])

ConversionInv == IInv /\ RawsInv /\ UsdConverted

\* The text of a USD price reads as what its raw price is worth.
LEMMA TextWorth ==
  ASSUME NoneTiny, CachesInv, RawsInv, NEW p \in PluginSet, Currency[p] = "USD",
         NEW x \in ToSet(caches[p])
  PROVE  /\ x.plugin = p /\ x.raw \in Raws
         /\ Parse(Text(x), Scale) = Worth(x.raw, Scale)
<1>1. x.plugin = p /\ x.id \in Ids /\ x.raw \in RawPrices[p][x.id]
  BY DEF CachesInv, RawsInv
<1>2. x.raw \in Raws
  BY <1>1, RawAssumption DEF Raws
<1>3. CASE p = "pyth"
  BY <1>1, <1>2, <1>3, ScaleAssumption, ParseScaled DEF Text
<1>4. CASE p # "pyth"
  <2>1. x.raw.m = 0 \/ x.raw.e <= 6 \/ Power[x.raw.e - 6] <= x.raw.m
    BY <1>1, <1>4 DEF NoneTiny
  <2>2. Parse(NumberText(x.raw), Scale) = Worth(x.raw, Scale)
    BY <1>2, <2>1, ScaleAssumption, ParseNumber
  <2>3. QED
    BY <1>1, <1>2, <1>4, <2>2 DEF Text
<1>5. QED
  BY <1>3, <1>4

\* Asking a plugin adds answers with raw prices of it; there are no prices yet.
LEMMA AskConverts ==
  ASSUME ConversionInv, Ask
  PROVE  RawsInv' /\ UsdConverted'
<1>1. PICK p, answers :
        /\ p = Plugins[asked + 1] /\ asked + 1 \in DOMAIN Plugins /\ p \in PluginSet
        /\ ToSet(caches[p]) = {} /\ ToSet(caches'[p]) = answers
        /\ caches' = [q \in PluginSet |-> caches'[q]]
        /\ \A q \in PluginSet \ {p} : caches'[q] = caches[q]
        /\ \A x \in answers :
             /\ x.plugin = p /\ x.id \in Wanted(p) /\ x.raw \in RawPrices[p][x.id]
             /\ x.publishTime \in Nat
        /\ \A x, y \in answers : x.id = y.id => x = y
        /\ resolved' = resolved \cup Resolved(p, answers)
        /\ caches'[p] \in Seq(answers)
  BY AskEffect DEF ConversionInv, IInv
<1>2. phase = "fetching" /\ phase' = phase /\ prices' = prices
  BY DEF Ask
<1>3. ASSUME NEW q \in PluginSet
      PROVE  /\ caches'[q] \in Seq(ToSet(caches'[q]))
             /\ \A x \in ToSet(caches'[q]) : x.id \in Ids /\ x.raw \in RawPrices[q][x.id]
  <2>1. CASE q = p
    BY <1>1, <2>1 DEF Wanted
  <2>2. CASE q # p
    BY <1>1, <2>2 DEF ConversionInv, RawsInv
  <2>3. QED
    BY <2>1, <2>2
<1>4. RawsInv'
  BY <1>2, <1>3 DEF RawsInv
<1>5. prices = <<>>
  BY <1>2 DEF ConversionInv, IInv, PricesInv
<1>6. UsdConverted'
  BY <1>2, <1>5 DEF UsdConverted, ToSet
<1>7. QED
  BY <1>4, <1>6

\* The rate is the first answer of the first plugin with one in USD.
LEMMA FindConverts ==
  ASSUME ConversionInv, FindXrdUsdPrice
  PROVE  RawsInv' /\ UsdConverted'
<1>1. phase = "fetching" /\ caches' = caches /\ prices' = prices
  BY DEF FindXrdUsdPrice
<1>2. ASSUME phase' = "resolving"
      PROVE  \E p \in PluginSet : Currency[p] = "USD" /\ reference' \in ToSet(caches[p])
  <2>1. UsdCaches # {} /\ reference' = Head(caches[Plugins[Min(UsdCaches)]])
    BY <1>2 DEF FindXrdUsdPrice
  <2>2. UsdCaches \in SUBSET Nat /\ DOMAIN Plugins \subseteq Nat
    BY PluginAssumption DEF UsdCaches
  <2>3. Min(UsdCaches) \in UsdCaches
    BY <2>1, <2>2, MinOfSet
  <2> DEFINE p == Plugins[Min(UsdCaches)]
  <2>4. p \in PluginSet /\ Currency[p] = "USD" /\ caches[p] # <<>>
    BY <2>3, PluginAssumption DEF UsdCaches
  <2>5. caches[p] \in Seq(ToSet(caches[p]))
    BY <2>4 DEF ConversionInv, RawsInv
  <2> HIDE DEF p
  <2>6. Head(caches[p]) \in ToSet(caches[p])
    BY <2>4, <2>5
  <2>7. QED
    BY <2>1, <2>4, <2>6 DEF p
<1>3. RawsInv'
  BY <1>1, <1>2 DEF ConversionInv, RawsInv
<1>4. prices = <<>>
  BY <1>1 DEF ConversionInv, IInv, PricesInv
<1>5. UsdConverted'
  BY <1>1, <1>4 DEF UsdConverted, ToSet
<1>6. QED
  BY <1>3, <1>5

\* A price made of a USD price is what its source is worth, divided by a rate.
Exact(source, price, answer) ==
  source # NoAnswer /\ Currency[source.plugin] = "USD" =>
    /\ Parse(price, Scale) * Worth(answer.raw, Scale) <= Worth(source.raw, Scale) * Power[Scale]
    /\ Worth(source.raw, Scale) * Power[Scale]
         < (Parse(price, Scale) + 1) * Worth(answer.raw, Scale)

AllExact(records, answer) == \A p \in ToSet(records) : Exact(p.source, p.price, answer)

\* UsdConverted by Exact
LEMMA UsdConvertedExact == UsdConverted <=> AllExact(prices, reference)
BY DEF UsdConverted, Exact, AllExact

\* An exact price pushed leaves all of them exact.
LEMMA PushConverts ==
  ASSUME UsdConverted, prices \in Seq(ToSet(prices)), reference' = reference,
         NEW r, prices' = Append(prices, r), Exact(r.source, r.price, reference)
  PROVE  UsdConverted'
<1>1. ToSet(prices') = ToSet(prices) \cup {r}
  BY AppendSet
<1>2. AllExact(prices, reference)
  BY UsdConvertedExact
<1>3. ASSUME NEW p \in ToSet(prices')
      PROVE  Exact(p.source, p.price, reference)
  BY <1>1, <1>2 DEF AllExact
<1>4. AllExact(prices', reference')
  BY <1>3 DEF AllExact
<1>5. QED
  BY <1>4 DEF UsdConverted, Exact, AllExact

\* A price made of a USD price is converted by the rate.
LEMMA PriceAssetConverts ==
  ASSUME NoneTiny, ConversionInv, PriceAsset
  PROVE  RawsInv' /\ UsdConverted'
<1> DEFINE a == Assets[done + 1]
           Record(source, price) == [asset |-> a, source |-> source, price |-> price, at |-> now]
<1>1. phase = "resolving" /\ caches' = caches /\ reference' = reference
  BY DEF PriceAsset
<1>2. RawsInv'
  BY <1>1 DEF ConversionInv, RawsInv
<1>3. a \in AssetSet
  <2>1. done < Len(Assets) /\ done \in Nat
    BY DEF PriceAsset, ConversionInv, IInv, DoneInv
  <2>2. done + 1 \in DOMAIN Assets
    BY <2>1, AssetAssumption
  <2>3. QED
    BY <2>2 DEF AssetSet, ToSet
<1>4. UsdConverted /\ prices \in Seq(ToSet(prices))
  BY DEF ConversionInv, IInv, PricesInv
<1>5. CASE Push(a, NoAnswer, <<"1">>)
  <2>1. Exact(NoAnswer, <<"1">>, reference)
    BY DEF Exact
  <2>2. prices' = Append(prices, Record(NoAnswer, <<"1">>))
    BY <1>5 DEF Push
  <2>3. QED
    BY <1>1, <1>2, <1>4, <2>1, <2>2, PushConverts
<1>6. CASE UNCHANGED prices
  BY <1>1, <1>2, <1>4, <1>6 DEF UsdConverted
<1>7. CASE /\ Usable(a) # {} /\ Push(a, Quote(a), PriceOf(Quote(a)))
           /\ Currency[Quote(a).plugin] = "XRD" \/ Convertible(Quote(a))
  <2>1. ASSUME Currency[Quote(a).plugin] = "USD"
        PROVE  Exact(Quote(a), PriceOf(Quote(a)), reference)
    <3>1. PICK i \in Usable(a) :
            /\ i \in DOMAIN Feeds[a] /\ Feeds[a][i] \in [plugin : PluginSet, id : Ids]
            /\ AnswerTo(Quote(a), Feeds[a][i]) /\ IsValid(Quote(a))
      BY <1>3, <1>7, QuoteFacts DEF ConversionInv, IInv
    <3> DEFINE x == Quote(a)
               q == Feeds[a][i].plugin
    <3>2. q \in PluginSet /\ x \in ToSet(caches[q])
      BY <3>1 DEF AnswerTo
    <3> HIDE DEF x, q
    <3>3. x.plugin = q
      BY <3>2 DEF ConversionInv, IInv, CachesInv
    <3>4. Currency[q] = "USD"
      BY <2>1, <3>3 DEF x
    <3>5. x.raw \in Raws /\ Parse(Text(x), Scale) = Worth(x.raw, Scale)
      BY <3>2, <3>4, TextWorth DEF ConversionInv, IInv
    <3>6. PICK u \in PluginSet : Currency[u] = "USD" /\ reference \in ToSet(caches[u])
      BY <1>1 DEF ConversionInv, RawsInv
    <3>7. /\ reference.raw \in Raws
          /\ Parse(Text(reference), Scale) = Worth(reference.raw, Scale)
      BY <3>6, TextWorth DEF ConversionInv, IInv
    <3>8. Worth(x.raw, Scale) \in Nat /\ Worth(reference.raw, Scale) \in Nat
      BY <3>5, <3>7, ScaleAssumption, WorthNat
    <3>9. Worth(reference.raw, Scale) # 0
      BY <1>7, <2>1, <3>7 DEF Convertible
    <3>10. PriceOf(x) = NormalizeUsdToXrd(Text(x), Text(reference), Scale)
      BY <2>1 DEF PriceOf, x
    <3> DEFINE p == Parse(PriceOf(x), Scale)
    <3>11. p = Parse(NormalizeUsdToXrd(Text(x), Text(reference), Scale), Scale)
      BY <3>10
    <3> HIDE DEF p
    <3>12. /\ p * Worth(reference.raw, Scale) <= Worth(x.raw, Scale) * Power[Scale]
           /\ Worth(x.raw, Scale) * Power[Scale] < (p + 1) * Worth(reference.raw, Scale)
      BY <3>5, <3>7, <3>8, <3>9, <3>11, ScaleAssumption, Normalized
    <3>13. QED
      BY <3>12 DEF p, x, Exact
  <2>2. Exact(Quote(a), PriceOf(Quote(a)), reference)
    BY <2>1 DEF Exact
  <2>3. prices' = Append(prices, Record(Quote(a), PriceOf(Quote(a))))
    BY <1>7 DEF Push
  <2>4. QED
    BY <1>1, <1>2, <1>4, <2>2, <2>3, PushConverts
<1>8. QED
  BY <1>5, <1>6, <1>7 DEF PriceAsset

\* Prices converted from USD are exact to the last digit: what parseDecimalToBigInt reads of
\* them is the quotient of the two raw prices, for texts of any length and any scale, when
\* no price is so small that JavaScript writes it with an exponent.
THEOREM ConvertedExactly ==
  ASSUME NoneTiny
  PROVE  Spec => []UsdConverted
<1>1. ASSUME Init PROVE ConversionInv
  <2>1. IInv
    BY <1>1, InitIInv
  <2>2. \A p \in PluginSet : caches[p] = <<>> /\ ToSet(caches[p]) = {}
    BY <1>1 DEF Init, ToSet
  <2>3. RawsInv
    BY <1>1, <2>2 DEF Init, RawsInv
  <2>4. UsdConverted
    BY <1>1 DEF Init, UsdConverted, ToSet
  <2>5. QED
    BY <2>1, <2>3, <2>4 DEF ConversionInv
<1>2. ASSUME ConversionInv, [Next]_vars PROVE ConversionInv'
  <2>1. IInv'
    BY <1>2, StepIInv DEF ConversionInv
  <2>2. CASE Ask
    BY <1>2, <2>1, <2>2, AskConverts DEF ConversionInv
  <2>3. CASE FindXrdUsdPrice
    BY <1>2, <2>1, <2>3, FindConverts DEF ConversionInv
  <2>4. CASE PriceAsset
    BY <1>2, <2>1, <2>4, PriceAssetConverts DEF ConversionInv
  <2>5. CASE Tick \/ Return \/ UNCHANGED vars
    <3>1. UNCHANGED <<caches, reference, prices>> /\ (phase' = "resolving" => phase = "resolving")
      BY <2>5 DEF Tick, Return, vars
    <3>2. RawsInv' /\ UsdConverted'
      BY <1>2, <3>1 DEF ConversionInv, RawsInv, UsdConverted
    <3>3. QED
      BY <2>1, <3>2 DEF ConversionInv
  <2>6. QED
    BY <1>2, <2>2, <2>3, <2>4, <2>5 DEF Next
<1>3. ConversionInv => UsdConverted
  BY DEF ConversionInv
<1>4. QED
  BY <1>1, <1>2, <1>3, PTL DEF Spec
=============================================================================

-------------------------- MODULE ResourceInfosProofs --------------------------
(***************************************************************************)
(* Theorems about ResourceInfos, with the EntityState it is built on, for  *)
(* any entities, holdings, pages, validators, batch size, versions of the  *)
(* ledger and number of failed requests.                                   *)
(***************************************************************************)
EXTENDS ResourceInfos, FiniteSetTheorems, SequenceTheorems, WellFoundedInduction, TLAPS

Entry == [level : {"Vault", "Global"}, reads : Seq(Nat)]

Values == UNION {[S -> Entry] : S \in SUBSET Resources}

Collection ==
  [values : Values, cursor : Nat, at : 0..MaxVersion, loading : Nat, awaited : BOOLEAN,
   lost : BOOLEAN]

\* Page p of a holding is behind the cursor.
Read(c, p) == c.cursor = 0 \/ p < c.cursor

\* A collection that has been read has what the pages behind its cursor hold, each
\* resource read once and at its version; those of the first page are at vault level.
Sound(e, k, c) ==
  /\ c \in Collection
  /\ c.cursor \in {0} \cup 2..Len(Pages[e][k])
  /\ c.loading \in {0, c.cursor}
  /\ c.awaited => c.loading = 2
  /\ c.at = 0 => c = Untouched
  /\ selector # Live => c.at \in {0, selector}
  /\ \A r \in DOMAIN c.values : c.values[r].reads = <<c.at>>
  /\ c.at # 0 =>
       /\ \A p \in DOMAIN Pages[e][k] : Read(c, p) =>
            \A r \in Pages[e][k][p] : Amount(r, c.at) # 0 => r \in DOMAIN c.values
       /\ 1 \in DOMAIN Pages[e][k] =>
            \A r \in Pages[e][k][1] :
              Amount(r, c.at) # 0 => c.values[r].level = "Vault"

HoldingsInv ==
  /\ holdings = [e \in Entities |-> [k \in Kinds |-> holdings[e][k]]]
  /\ \A e \in Entities :
       /\ \A k \in Kinds : Sound(e, k, holdings[e][k])
       /\ holdings[e]["fungible"].at = holdings[e]["nonFungible"].at

\* The states are those of the entities read. Unless the call throws, a second page to
\* come is awaited; only stage "pages" awaits any.
StatesInv ==
  /\ states \in Seq(Existing)
  /\ \A e \in ToSet(states), k \in Kinds : holdings[e][k].at # 0
  /\ stage \in {"entities", "pages"} =>
       \A e \in Entities, k \in Kinds : holdings[e][k].at # 0 => e \in ToSet(states)
  /\ stage # "thrown" =>
       \A e \in Entities, k \in Kinds : holdings[e][k].cursor = 2 => holdings[e][k].awaited
  /\ stage \notin {"pages", "thrown"} =>
       \A e \in Entities, k \in Kinds : ~holdings[e][k].awaited

\* The first n addresses have been asked for: those of them that exist are in the states,
\* and each batch had one.
AskedFor(n) ==
  /\ \A i \in DOMAIN Addresses :
       i <= n /\ Addresses[i] \in Existing => Addresses[i] \in ToSet(states)
  /\ \A i \in 0 .. Len(Addresses) - 1 :
       i < n /\ i % BatchSize = 0 => ToSet(Chunk(Addresses, i)) \cap Existing # {}

BatchInv ==
  /\ from % BatchSize = 0
  /\ from = 0 \/ from < Len(Addresses)
  /\ stage = "entities" => AskedFor(from)
  /\ stage = "pages" => AskedFor(from + BatchSize)
  /\ stage = "details" => AskedFor(Len(Addresses))
  /\ stage = "described" =>
       IF EmptyBatch THEN states = <<>> ELSE ToSet(states) = Existing

\* What the answer tells of e: the pages somebody waits for, and the NFTs of the first
\* one, for which alone the vaults are known.
Needed(e) == HeldOn(e, "fungible", 1..2) \cup HeldOn(e, "nonFungible", {1})

DetailsInv ==
  /\ stage \in {"entities", "pages", "described"} => wanted = {}
  /\ stage \in {"details", "described"} =>
       \A e \in ToSet(states) : Needed(e) \subseteq wanted \cup known

Info ==
  [fungible : SUBSET Resources, lsu : SUBSET Resources, nft : SUBSET Resources,
   claim : SUBSET Resources, enriched : SUBSET Resources]

\* The classes of a component are whole, and its task asks for its own validators.
InfosInv ==
  stage = "described" =>
    /\ infos \in [ToSet(states) -> Info]
    /\ \A e \in ToSet(states) :
         /\ \A r \in HeldOn(e, "fungible", 1..2) :
              IF r \in DOMAIN ValidatorOf THEN r \in infos[e].lsu
              ELSE r \in infos[e].fungible
         /\ \A r \in HeldOn(e, "nonFungible", {1}) :
              IF r \in DOMAIN ValidatorOf THEN r \in infos[e].claim
              ELSE r \in infos[e].nft
         /\ Validators(infos[e]) \subseteq asked[e]
         /\ e \notin pending => infos[e].lsu \cup infos[e].claim \subseteq infos[e].enriched

IInv ==
  /\ TypeOK /\ HoldingsInv /\ StatesInv /\ BatchInv /\ DetailsInv /\ InfosInv

-----------------------------------------------------------------------------
(* Sequences *)

\* Induction over the natural numbers, for sets of them.
LEMMA NatSets ==
  ASSUME NEW T, 0 \in T, \A n \in Nat : n \in T => n + 1 \in T
  PROVE  Nat \subseteq T
<1> DEFINE B == Nat \ T
<1>1. SUFFICES ASSUME B # {} PROVE FALSE
  OBVIOUS
<1>2. PICK m \in B : \A y \in B : ~ (<<y, m>> \in OpToRel(<, Nat))
  BY <1>1, NatLessThanWellFounded, WFMin
<1>3. m \in Nat /\ m # 0
  BY <1>2
<1>4. m - 1 \in Nat /\ m - 1 < m /\ (m - 1) + 1 = m
  BY <1>3
<1>5. m - 1 \notin B
  BY <1>2, <1>4 DEF OpToRel
<1>6. QED
  BY <1>2, <1>4, <1>5

LEMMA AppendSet ==
  ASSUME NEW S, NEW s \in Seq(S), NEW x \in S
  PROVE  Append(s, x) \in Seq(S) /\ ToSet(Append(s, x)) = ToSet(s) \cup {x}
<1> DEFINE t == Append(s, x)
<1>1. t \in Seq(S) /\ Len(s) \in Nat /\ Len(t) = Len(s) + 1 /\ t[Len(s) + 1] = x
      /\ \A i \in 1..Len(s) : t[i] = s[i]
  OBVIOUS
<1>2. DOMAIN t = 1..(Len(s) + 1) /\ DOMAIN s = 1..Len(s)
  OBVIOUS
<1>3. 1..(Len(s) + 1) = 1..Len(s) \cup {Len(s) + 1}
  BY <1>1
<1> HIDE DEF t
<1>4. {t[i] : i \in DOMAIN t} = {s[i] : i \in DOMAIN s} \cup {x}
  BY <1>1, <1>2, <1>3
<1>5. QED
  BY <1>1, <1>4 DEF ToSet, t

KeptBody(s, I, g, n) ==
  IF n = 0 THEN <<>> ELSE IF n \in I THEN Append(g[n - 1], s[n]) ELSE g[n - 1]

KeptFun(s, I, m) == CHOOSE g : g = [n \in 0..m |-> KeptBody(s, I, g, n)]

LEMMA KeptUnfolds ==
  ASSUME NEW s, NEW I
  PROVE  Kept(s, I) = KeptFun(s, I, Len(s))[Len(s)]
BY DEF Kept, KeptFun, KeptBody

LEMMA KeptExists ==
  ASSUME NEW s, NEW I, NEW m \in Nat
  PROVE  \E g : g = [n \in 0..m |-> KeptBody(s, I, g, n)]
<1> DEFINE Good(k) == \E g : g = [n \in 0..k |-> KeptBody(s, I, g, n)]
           T == {k \in Nat : Good(k)}
<1>1. Good(0)
  <2> DEFINE g == [n \in 0..0 |-> <<>>]
  <2>1. g = [n \in 0..0 |-> KeptBody(s, I, g, n)]
    BY DEF KeptBody
  <2>2. QED
    BY <2>1
<1>2. ASSUME NEW k \in Nat, Good(k) PROVE Good(k + 1)
  <2>1. PICK g : g = [n \in 0..k |-> KeptBody(s, I, g, n)]
    BY <1>2
  <2> DEFINE h == [n \in 0..(k + 1) |-> KeptBody(s, I, g, n)]
  <2>2. \A n \in 0..k : h[n] = g[n]
    BY <2>1
  <2>3. ASSUME NEW n \in 0..(k + 1) PROVE KeptBody(s, I, g, n) = KeptBody(s, I, h, n)
    <3>1. n = 0 \/ n - 1 \in 0..k
      OBVIOUS
    <3>2. n = 0 \/ h[n - 1] = g[n - 1]
      BY <2>2, <3>1
    <3> HIDE DEF h
    <3>3. QED
      BY <3>2 DEF KeptBody
  <2>4. h = [n \in 0..(k + 1) |-> KeptBody(s, I, h, n)]
    BY <2>3
  <2>5. QED
    BY <2>4
<1> HIDE DEF Good
<1>3. 0 \in T /\ \A k \in Nat : k \in T => k + 1 \in T
  BY <1>1, <1>2
<1>4. Nat \subseteq T
  BY <1>3, NatSets
<1>5. Good(m)
  BY <1>4
<1>6. QED
  BY <1>5 DEF Good

\* Kept(s, I) has the members of s at the indices I, and no others.
LEMMA KeptFacts ==
  ASSUME NEW S, NEW s \in Seq(S), NEW I
  PROVE  Kept(s, I) \in Seq(S) /\ ToSet(Kept(s, I)) = {s[i] : i \in I \cap DOMAIN s}
<1> DEFINE g == KeptFun(s, I, Len(s))
           Good(n) == g[n] \in Seq(S) /\ ToSet(g[n]) = {s[i] : i \in I \cap 1..n}
           T == {n \in Nat : n <= Len(s) => Good(n)}
<1>1. g = [n \in 0..Len(s) |-> KeptBody(s, I, g, n)]
  BY KeptExists DEF KeptFun
<1> HIDE DEF g
<1>2. Good(0)
  BY <1>1 DEF KeptBody, ToSet
<1>3. ASSUME NEW n \in Nat, n + 1 <= Len(s), Good(n) PROVE Good(n + 1)
  <2>1. n + 1 \in 0..Len(s) /\ n + 1 # 0 /\ (n + 1) - 1 = n /\ s[n + 1] \in S
    BY <1>3
  <2>2. g[n + 1] = IF n + 1 \in I THEN Append(g[n], s[n + 1]) ELSE g[n]
    BY <1>1, <2>1 DEF KeptBody
  <2>3. 1..(n + 1) = 1..n \cup {n + 1}
    OBVIOUS
  <2>4. CASE n + 1 \in I
    <3>1. ToSet(Append(g[n], s[n + 1])) = ToSet(g[n]) \cup {s[n + 1]}
      BY <1>3, <2>1, AppendSet
    <3>2. I \cap 1..(n + 1) = (I \cap 1..n) \cup {n + 1}
      BY <2>3, <2>4
    <3>3. ToSet(g[n + 1]) = {s[i] : i \in I \cap 1..(n + 1)}
      BY <1>3, <2>2, <2>4, <3>1, <3>2
    <3>4. QED
      BY <1>3, <2>1, <2>2, <2>4, <3>3
  <2>5. CASE n + 1 \notin I
    <3>1. I \cap 1..(n + 1) = I \cap 1..n
      BY <2>3, <2>5
    <3>2. QED
      BY <1>3, <2>2, <2>5, <3>1
  <2>6. QED
    BY <2>4, <2>5
<1> HIDE DEF Good
<1>4. 0 \in T /\ \A n \in Nat : n \in T => n + 1 \in T
  BY <1>2, <1>3
<1>5. Nat \subseteq T
  BY <1>4, NatSets
<1>6. Good(Len(s))
  BY <1>5
<1>7. Kept(s, I) = g[Len(s)]
  BY KeptUnfolds DEF g
<1>8. DOMAIN s = 1..Len(s)
  OBVIOUS
<1>9. QED
  BY <1>6, <1>7, <1>8 DEF Good

\* Of each member of s, Unique(s) has the first occurrence.
LEMMA UniqueFacts ==
  ASSUME NEW S, NEW s \in Seq(S)
  PROVE  Unique(s) \in Seq(S) /\ ToSet(Unique(s)) = ToSet(s)
<1> DEFINE I == {i \in DOMAIN s : \A j \in 1 .. i - 1 : s[j] # s[i]}
<1>1. Unique(s) \in Seq(S) /\ ToSet(Unique(s)) = {s[i] : i \in I}
  BY KeptFacts DEF Unique
<1>2. ASSUME NEW i \in DOMAIN s PROVE \E j \in I : s[j] = s[i]
  <2> DEFINE J == {j \in DOMAIN s : s[j] = s[i]}
  <2>1. J \subseteq Nat /\ J # {}
    BY <1>2
  <2> HIDE DEF J
  <2>2. PICK j \in J : \A y \in J : ~ (<<y, j>> \in OpToRel(<, Nat))
    BY <2>1, NatLessThanWellFounded, WFMin
  <2>3. ASSUME NEW y \in 1 .. j - 1 PROVE s[y] # s[j]
    <3>1. j \in J
      BY <2>2
    <3>2. j \in DOMAIN s /\ DOMAIN s = 1..Len(s) /\ Len(s) \in Nat
      BY <3>1 DEF J
    <3>3. y \in DOMAIN s /\ y \in Nat /\ j \in Nat /\ y < j
      BY <2>3, <3>2
    <3>4. y \notin J
      BY <2>2, <3>3 DEF OpToRel
    <3>5. QED
      BY <2>2, <3>3, <3>4 DEF J
  <2>4. QED
    BY <2>2, <2>3 DEF J
<1>3. {s[i] : i \in I} = {s[i] : i \in DOMAIN s}
  BY <1>2
<1>4. QED
  BY <1>1, <1>3 DEF ToSet

LEMMA AddressesFacts ==
  Addresses \in Seq(Entities) /\ ToSet(Addresses) = Entities /\ Len(Addresses) \in Nat
BY UniqueFacts, EntityAssumption DEF Addresses, Entities

LEMMA ChunkFacts ==
  ASSUME NEW S, NEW s \in Seq(S), NEW n \in Nat
  PROVE  /\ Chunk(s, n) \in Seq(S)
         /\ \A i \in DOMAIN s : n < i /\ i <= n + BatchSize => s[i] \in ToSet(Chunk(s, n))
<1> DEFINE last == IF n + BatchSize < Len(s) THEN n + BatchSize ELSE Len(s)
           c == SubSeq(s, n + 1, last)
<1>1. Len(s) \in Nat /\ BatchSize \in Nat /\ DOMAIN s = 1..Len(s)
      /\ \A i \in DOMAIN s : s[i] \in S
  BY EntityAssumption
<1>2. last \in Int /\ last <= Len(s) /\ n + 1 \in Int
  BY <1>1
<1>3. \A i \in (n + 1)..last : s[i] \in S
  BY <1>1, <1>2
<1>4. \A i \in DOMAIN s : i <= n + BatchSize => i <= last
  BY <1>1
<1> HIDE DEF last
<1>5. c \in Seq(S) /\ Len(c) = (IF n + 1 <= last THEN last - (n + 1) + 1 ELSE 0)
      /\ \A i \in 1 .. last - (n + 1) + 1 : c[i] = s[n + 1 + i - 1]
  BY <1>2, <1>3, SubSeqProperties
<1> HIDE DEF c
<1>6. ASSUME NEW i \in DOMAIN s, n < i, i <= n + BatchSize PROVE s[i] \in ToSet(c)
  <2>1. i \in Nat /\ i <= last /\ i - n \in 1 .. last - (n + 1) + 1 /\ n + 1 + (i - n) - 1 = i
    BY <1>1, <1>2, <1>4, <1>6
  <2> DEFINE j == i - n
  <2>2. j \in 1 .. last - (n + 1) + 1 /\ n + 1 + j - 1 = i /\ n + 1 <= last
    BY <1>1, <1>2, <2>1
  <2> HIDE DEF j
  <2>3. c[j] = s[i] /\ j \in 1..Len(c) /\ DOMAIN c = 1..Len(c)
    BY <1>2, <1>5, <2>2
  <2>4. QED
    BY <2>3 DEF ToSet
<1>7. QED
  BY <1>5, <1>6 DEF Chunk, c, last

LEMMA Remainder ==
  ASSUME NEW b \in Nat \ {0}, NEW a \in Nat
  PROVE  a % b = 0 <=> \E q \in Nat : a = q * b
<1>1. a \div b \in Nat /\ a = (a \div b) * b + (a % b)
  OBVIOUS
<1>2. ASSUME NEW q \in Nat, a = q * b PROVE a % b = 0
  BY <1>2
<1>3. ASSUME a % b = 0 PROVE a = (a \div b) * b
  BY <1>1, <1>3
<1>4. QED
  BY <1>1, <1>2, <1>3

LEMMA Multiples ==
  ASSUME NEW b \in Nat \ {0}, NEW a \in Nat, a % b = 0
  PROVE  /\ (a + b) % b = 0
         /\ \A i \in Nat : i % b = 0 /\ i < a + b => i < a \/ i = a
<1>1. PICK q \in Nat : a = q * b
  BY Remainder
<1>2. a + b = (q + 1) * b
  BY <1>1
<1>3. (a + b) % b = 0
  BY <1>2, Remainder, q + 1 \in Nat, a + b \in Nat
<1>4. ASSUME NEW i \in Nat, i % b = 0, i < a + b, ~(i < a), i # a PROVE FALSE
  <2>1. PICK p \in Nat : i = p * b
    BY <1>4, Remainder
  <2>2. p <= q
    BY <1>2, <1>4, <2>1
  <2>3. p * b <= q * b
    BY <2>2
  <2>4. QED
    BY <1>1, <1>4, <2>1, <2>3
<1>5. QED
  BY <1>3, <1>4

\* A finite set has subsets of every size up to its own.
LEMMA SubsetsOfSize ==
  ASSUME NEW S, IsFiniteSet(S), NEW m \in Nat, m <= Cardinality(S)
  PROVE  \E b \in SUBSET S : Cardinality(b) = m
<1> DEFINE Good(n) == \E b \in SUBSET S : Cardinality(b) = n
           T == {n \in Nat : n <= Cardinality(S) => Good(n)}
<1>1. Cardinality(S) \in Nat
  BY FS_CardinalityType
<1>2. Good(0)
  BY FS_EmptySet
<1>3. ASSUME NEW n \in Nat, n + 1 <= Cardinality(S), Good(n) PROVE Good(n + 1)
  <2>1. PICK b \in SUBSET S : Cardinality(b) = n
    BY <1>3
  <2>2. b # S
    BY <1>1, <1>3, <2>1
  <2>3. PICK x \in S : x \notin b
    BY <2>2
  <2>4. IsFiniteSet(b)
    BY FS_Subset
  <2>5. Cardinality(b \cup {x}) = n + 1
    BY <2>1, <2>3, <2>4, FS_AddElement
  <2>6. QED
    BY <2>3, <2>5
<1> HIDE DEF Good
<1>4. 0 \in T /\ \A n \in Nat : n \in T => n + 1 \in T
  BY <1>1, <1>2, <1>3
<1>5. Nat \subseteq T
  BY <1>4, NatSets
<1>6. QED
  BY <1>5 DEF Good

LEMMA PresentFacts ==
  ASSUME NEW s \in Seq(Entities)
  PROVE  LET items == Kept(s, {i \in DOMAIN s : s[i] \in Existing}) IN
         /\ items \in Seq(Existing)
         /\ ToSet(items) = ToSet(s) \cap Existing
         /\ items = <<>> <=> ToSet(s) \cap Existing = {}
<1> DEFINE I == {i \in DOMAIN s : s[i] \in Existing}
           items == Kept(s, I)
<1>1. items \in Seq(Entities) /\ ToSet(items) = {s[i] : i \in I \cap DOMAIN s}
  BY KeptFacts
<1>2. {s[i] : i \in I \cap DOMAIN s} = {s[i] : i \in DOMAIN s} \cap Existing
  OBVIOUS
<1>3. ToSet(items) = ToSet(s) \cap Existing
  BY <1>1, <1>2 DEF ToSet
<1> HIDE DEF items
<1>4. \A i \in DOMAIN items : items[i] \in Existing
  BY <1>3 DEF ToSet
<1>5. /\ Len(items) \in Nat /\ DOMAIN items = 1..Len(items)
      /\ items = [i \in 1..Len(items) |-> items[i]]
  BY <1>1
<1>6. items \in Seq(Existing)
  BY <1>4, <1>5
<1>7. items = <<>> <=> ToSet(items) = {}
  <2>1. CASE items = <<>>
    BY <2>1 DEF ToSet
  <2>2. CASE items # <<>>
    <3>1. 1 \in DOMAIN items
      BY <1>1, <2>2
    <3>2. QED
      BY <2>2, <3>1 DEF ToSet
  <2>3. QED
    BY <2>1, <2>2
<1>8. QED
  BY <1>3, <1>6, <1>7 DEF items

-----------------------------------------------------------------------------
(* Collections *)

\* Resources of a page read at version v, added to values of that version.
Added(values, page, v, level, new) ==
  /\ new \in Values
  /\ \A r \in DOMAIN new : new[r].reads = <<v>>
  /\ DOMAIN values \subseteq DOMAIN new
  /\ \A r \in page : Amount(r, v) # 0 => r \in DOMAIN new /\ new[r].level = level
  /\ \A r \in DOMAIN values \ page : new[r] = values[r]

LEMMA ParsedFungibles ==
  ASSUME NEW values \in Values, NEW page \in SUBSET Resources, NEW v \in Nat,
         NEW level \in {"Vault", "Global"},
         level = "Global" \/ DOMAIN values = {},
         \A r \in DOMAIN values : values[r].reads = <<v>>
  PROVE  Added(values, page, v, level, ParseFungibles(values, page, v, level))
<1> DEFINE D == page \cup DOMAIN values
           new == [r \in D |-> IF r \notin page THEN values[r]
                               ELSE [level |-> level, reads |-> <<v>>]]
<1>1. PICK S \in SUBSET Resources : values \in [S -> Entry]
  BY DEF Values
<1>2. ParseFungibles(values, page, v, level) = new
  BY DEF ParseFungibles
<1>3. \A r \in D : new[r] \in Entry
  BY <1>1 DEF Entry
<1>4. D \in SUBSET Resources
  BY <1>1
<1>5. new \in [D -> Entry]
  BY <1>3
<1>6. new \in Values
  BY <1>4, <1>5 DEF Values
<1>7. QED
  BY <1>2, <1>6 DEF Added

LEMMA Parsed ==
  ASSUME NEW k \in Kinds, NEW values \in Values, NEW page \in SUBSET Resources, NEW v \in Nat,
         NEW level \in {"Vault", "Global"},
         level = "Global" \/ DOMAIN values = {},
         \A r \in DOMAIN values : values[r].reads = <<v>>
  PROVE  Added(values, page, v, level, Parse(k, values, page, v, level))
<1>1. CASE k = "fungible"
  <2>1. Parse(k, values, page, v, level) = ParseFungibles(values, page, v, level)
    BY <1>1 DEF Parse
  <2>2. QED
    BY <2>1, ParsedFungibles
<1>2. CASE k # "fungible"
  <2> DEFINE held == {r \in page : Amount(r, v) # 0}
  <2>1. held \in SUBSET Resources
    OBVIOUS
  <2>2. Parse(k, values, page, v, level) = ParseFungibles(values, held, v, level)
    BY <1>2 DEF Parse, ParseNonFungibles
  <2>3. Added(values, held, v, level, ParseFungibles(values, held, v, level))
    BY <2>1, ParsedFungibles
  <2>4. QED
    BY <2>2, <2>3 DEF Added
<1>3. QED
  BY <1>1, <1>2

LEMMA EmptyValues == <<>> \in Values /\ DOMAIN <<>> = {}
<1>1. <<>> \in [{} -> Entry]
  OBVIOUS
<1>2. QED
  BY <1>1 DEF Values

LEMMA UntouchedSound ==
  ASSUME NEW e \in Entities, NEW k \in Kinds
  PROVE  /\ Sound(e, k, Untouched)
         /\ Untouched.at = 0 /\ Untouched.cursor = 0 /\ ~Untouched.awaited
<1>1. Untouched \in Collection
  BY EmptyValues, EntityAssumption DEF Untouched, Collection
<1>2. QED
  BY <1>1, EmptyValues DEF Sound, Untouched

LEMMA PagesFacts ==
  ASSUME NEW e \in Entities, NEW k \in Kinds
  PROVE  /\ Pages[e][k] \in Seq(SUBSET Resources) /\ Len(Pages[e][k]) \in Nat
         /\ DOMAIN Pages[e][k] = 1..Len(Pages[e][k])
         /\ \A p \in DOMAIN Pages[e][k] : Pages[e][k][p] \in SUBSET Resources
         /\ FirstPage(e, k) \in SUBSET Resources
         /\ 1 \in DOMAIN Pages[e][k] => FirstPage(e, k) = Pages[e][k][1]
<1>1. Pages[e][k] \in Seq(SUBSET Resources)
  BY EntityAssumption
<1>2. QED
  BY <1>1 DEF FirstPage

\* A collection starts with its first page, at the version of the entity's details; a
\* second page is awaited.
LEMMA InitialSound ==
  ASSUME NEW e \in Entities, NEW k \in Kinds, NEW v \in 1..MaxVersion,
         selector # Live => v = selector,
         NEW c, c = SetInitialValues(e, k, v)
  PROVE  /\ Sound(e, k, c) /\ c.at = v
         /\ c.cursor = 2 <=> c.awaited
<1> DEFINE new == Parse(k, <<>>, FirstPage(e, k), v, "Vault")
           q == NextCursor(e, k, 1)
           first == [values |-> new, cursor |-> q, at |-> v, loading |-> 0,
                     awaited |-> FALSE, lost |-> FALSE]
<1>1. v \in Nat /\ v # 0 /\ v \in 0..MaxVersion
  BY EntityAssumption
<1>2. FirstPage(e, k) \in SUBSET Resources
  BY PagesFacts
<1>3. Added(<<>>, FirstPage(e, k), v, "Vault", new)
  <2>1. \A r \in DOMAIN <<>> : <<>>[r].reads = <<v>>
    BY EmptyValues
  <2>2. QED
    BY <1>1, <1>2, <2>1, EmptyValues, Parsed
<1>4. q = (IF 1 < Len(Pages[e][k]) THEN 2 ELSE 0) /\ q \in Nat
  BY PagesFacts DEF NextCursor
<1>5. c = [values |-> new, cursor |-> q, at |-> v, loading |-> q, awaited |-> q # 0,
           lost |-> FALSE]
  <2> HIDE DEF new, q
  <2>1. [Untouched EXCEPT !.values = new, !.cursor = q, !.at = v] = first
    <3>1. ASSUME NEW x, x = [Untouched EXCEPT !.values = new, !.cursor = q, !.at = v]
          PROVE  x = first
      BY <3>1 DEF Untouched
    <3> HIDE DEF first
    <3>2. QED
      BY <3>1
  <2>2. c = LoadMore(first)
    BY <2>1 DEF SetInitialValues, new, q
  <2>3. QED
    BY <2>2 DEF LoadMore
<1> HIDE DEF new, q
<1>6. c \in Collection
  BY <1>1, <1>3, <1>4, <1>5 DEF Collection, Added
<1>7. \A p \in DOMAIN Pages[e][k] : Read(c, p) => p = 1
  BY <1>4, <1>5, PagesFacts DEF Read
<1>8. 1 \in DOMAIN Pages[e][k] =>
        \A r \in Pages[e][k][1] : Amount(r, v) # 0 =>
          r \in DOMAIN new /\ new[r].level = "Vault"
  BY <1>3, PagesFacts DEF Added
<1>9. \A r \in DOMAIN new : new[r].reads = <<v>>
  BY <1>3 DEF Added
<1>10. c.cursor \in {0} \cup 2..Len(Pages[e][k])
  BY <1>4, <1>5, PagesFacts
<1>11. /\ c.values = new /\ c.cursor = q /\ c.at = v /\ c.loading = q
  BY <1>5
<1>12. (c.awaited <=> q # 0) /\ (q # 0 => q = 2)
  <2>1. c.awaited = (q # 0)
    BY <1>5
  <2>2. c.awaited <=> q # 0
    BY <2>1, Zenon
  <2>3. QED
    BY <1>4, <2>2
<1>13. Sound(e, k, c)
  BY <1>1, <1>6, <1>7, <1>8, <1>9, <1>10, <1>11, <1>12 DEF Sound
<1>14. QED
  BY <1>11, <1>12, <1>13

\* A page adds to what is there, and changes nothing of what came with the first page.
LEMMA LoadedSound ==
  ASSUME NEW e \in Entities, NEW k \in Kinds, NEW c, Sound(e, k, c), c.loading # 0,
         NEW d, d = LoadValues(e, k, c)
  PROVE  Sound(e, k, d) /\ d.at = c.at /\ c.at # 0 /\ d.cursor # 2 /\ ~d.awaited
<1> DEFINE n == c.loading
           page == Pages[e][k][n]
           new == Parse(k, c.values, page, c.at, "Global")
           q == NextCursor(e, k, n)
<1>1. c \in Collection /\ c.cursor = n /\ n \in 2..Len(Pages[e][k]) /\ n \in DOMAIN Pages[e][k]
      /\ n \in Nat
  BY PagesFacts DEF Sound
<1>2. c.at # 0 /\ c.at \in Nat /\ c.at \in 0..MaxVersion
  BY <1>1, EntityAssumption DEF Sound, Untouched, Collection
<1>3. c.values \in Values /\ page \in SUBSET Resources
      /\ \A r \in DOMAIN c.values : c.values[r].reads = <<c.at>>
  BY <1>1, PagesFacts DEF Collection, Sound
<1>4. Added(c.values, page, c.at, "Global", new)
  BY <1>2, <1>3, Parsed
<1>5. q = (IF n < Len(Pages[e][k]) THEN n + 1 ELSE 0) /\ q \in Nat /\ q # 2
  BY <1>1, PagesFacts DEF NextCursor
<1>6. d = [values |-> new, cursor |-> q, at |-> c.at, loading |-> q, awaited |-> FALSE,
           lost |-> c.lost]
  <2> DEFINE loaded == [values |-> new, cursor |-> q, at |-> c.at, loading |-> n,
                        awaited |-> FALSE, lost |-> c.lost]
  <2>1. [c EXCEPT !.values = new, !.cursor = q, !.at = c.at, !.awaited = FALSE] = loaded
    <3> HIDE DEF new, q
    <3>1. ASSUME NEW x,
                 x = [c EXCEPT !.values = new, !.cursor = q, !.at = c.at, !.awaited = FALSE]
          PROVE  x = loaded
      BY <1>1, <3>1 DEF Collection
    <3> HIDE DEF loaded
    <3>2. QED
      BY <3>1
  <2>2. d = Recurse(loaded)
    BY <2>1 DEF LoadValues, PageVersion
  <2> HIDE DEF new, q
  <2>3. QED
    BY <2>2 DEF Recurse
<1> HIDE DEF new, q
<1>7. d \in Collection
  BY <1>1, <1>2, <1>4, <1>5, <1>6 DEF Collection, Added
<1>8. \A p \in DOMAIN Pages[e][k] : Read(d, p) => p = n \/ Read(c, p)
  BY <1>1, <1>5, <1>6, PagesFacts DEF Read
<1>9. ASSUME NEW p \in DOMAIN Pages[e][k], Read(d, p), NEW r \in Pages[e][k][p],
             Amount(r, c.at) # 0
      PROVE  r \in DOMAIN new
  <2>1. CASE p = n
    BY <1>4, <1>9, <2>1 DEF Added
  <2>2. CASE Read(c, p)
    BY <1>2, <1>4, <1>9, <2>2 DEF Added, Sound
  <2>3. QED
    BY <1>8, <1>9, <2>1, <2>2
<1>10. ASSUME 1 \in DOMAIN Pages[e][k], NEW r \in Pages[e][k][1], Amount(r, c.at) # 0
       PROVE  new[r].level = "Vault"
  <2>1. r \notin page
    BY <1>1, <1>10, EntityAssumption
  <2>2. Read(c, 1)
    BY <1>1 DEF Read
  <2>3. r \in DOMAIN c.values /\ c.values[r].level = "Vault"
    BY <1>2, <1>10, <2>2 DEF Sound
  <2>4. QED
    BY <1>4, <2>1, <2>3 DEF Added
<1>11. \A r \in DOMAIN new : new[r].reads = <<c.at>>
  BY <1>4 DEF Added
<1>12. d.cursor \in {0} \cup 2..Len(Pages[e][k])
  BY <1>1, <1>5, <1>6, PagesFacts
<1>13. selector # Live => d.at \in {0, selector}
  BY <1>6 DEF Sound
<1>14. /\ d.values = new /\ d.cursor = q /\ d.at = c.at /\ d.loading = q /\ ~d.awaited
  BY <1>6
<1>15. Sound(e, k, d)
  BY <1>2, <1>7, <1>9, <1>10, <1>11, <1>12, <1>13, <1>14 DEF Sound
<1>16. QED
  BY <1>2, <1>5, <1>14, <1>15

-----------------------------------------------------------------------------
(* The classes of a component *)

LEMMA ConcatSet ==
  ASSUME NEW S, NEW s \in Seq(S), NEW t \in Seq(S)
  PROVE  s \o t \in Seq(S) /\ ToSet(s \o t) = ToSet(s) \cup ToSet(t)
<1> DEFINE u == s \o t
<1>1. /\ u \in Seq(S) /\ Len(s) \in Nat /\ Len(t) \in Nat /\ Len(u) = Len(s) + Len(t)
      /\ \A i \in 1..Len(s) : u[i] = s[i]
      /\ DOMAIN s = 1..Len(s) /\ DOMAIN t = 1..Len(t) /\ DOMAIN u = 1..Len(u)
  OBVIOUS
<1>2. ASSUME NEW j \in 1..Len(t) PROVE u[Len(s) + j] = t[j] /\ Len(s) + j \in 1..Len(u)
  BY <1>2
<1>3. ASSUME NEW i \in 1..Len(u) PROVE u[i] \in ToSet(s) \cup ToSet(t)
  <2>1. CASE i <= Len(s)
    BY <1>1, <2>1 DEF ToSet
  <2>2. CASE ~(i <= Len(s))
    <3>1. i - Len(s) \in 1..Len(t) /\ Len(s) + (i - Len(s)) = i
      BY <1>1, <2>2
    <3> HIDE DEF u
    <3>2. u[i] = t[i - Len(s)]
      BY <1>2, <3>1
    <3>3. QED
      BY <1>1, <3>1, <3>2 DEF ToSet
  <2>3. QED
    BY <2>1, <2>2
<1> HIDE DEF u
<1>4. ASSUME NEW x \in ToSet(s) PROVE x \in ToSet(u)
  <2>1. PICK i \in 1..Len(s) : x = s[i]
    BY <1>1 DEF ToSet
  <2>2. i \in 1..Len(u) /\ u[i] = x
    BY <1>1, <2>1
  <2>3. QED
    BY <1>1, <2>2 DEF ToSet
<1>5. ASSUME NEW x \in ToSet(t) PROVE x \in ToSet(u)
  <2>1. PICK j \in 1..Len(t) : x = t[j]
    BY <1>1 DEF ToSet
  <2>2. QED
    BY <1>1, <1>2, <2>1 DEF ToSet
<1>6. \A x \in ToSet(u) : x \in ToSet(s) \cup ToSet(t)
  BY <1>1, <1>3 DEF ToSet
<1>7. QED
  BY <1>1, <1>4, <1>5, <1>6 DEF u

\* HeldOn, of a holding h
HeldIn(h, e, k, pages) ==
  {r \in UNION {Pages[e][k][p] : p \in pages \cap DOMAIN Pages[e][k]} : Amount(r, h[k].at) # 0}

Whole(e, h) ==
  \A k \in Kinds : Sound(e, k, h[k]) /\ h[k].at # 0 /\ h[k].cursor # 2

\* What the answer tells of is there when no second page is to come.
LEMMA FirstPagesRead ==
  ASSUME NEW e \in Entities, NEW h, Whole(e, h)
  PROVE  /\ \A r \in HeldIn(h, e, "fungible", 1..2) : r \in DOMAIN h["fungible"].values
         /\ \A r \in HeldIn(h, e, "nonFungible", {1}) :
              /\ r \in DOMAIN h["nonFungible"].values
              /\ h["nonFungible"].values[r].level = "Vault"
         /\ HeldIn(h, e, "fungible", 1..2) \cup HeldIn(h, e, "nonFungible", {1}) \subseteq Resources
         /\ \A k \in Kinds : DOMAIN h[k].values \subseteq Resources
<1>1. ASSUME NEW k \in Kinds, NEW p \in 1..2, p \in DOMAIN Pages[e][k]
      PROVE  /\ Read(h[k], p)
             /\ \A r \in Pages[e][k][p] : Amount(r, h[k].at) # 0 => r \in DOMAIN h[k].values
             /\ p = 1 => \A r \in Pages[e][k][p] :
                           Amount(r, h[k].at) # 0 => h[k].values[r].level = "Vault"
  <2>1. Sound(e, k, h[k]) /\ h[k].at # 0 /\ h[k].cursor # 2
    BY DEF Whole
  <2>2. h[k].cursor \in {0} \cup 2..Len(Pages[e][k])
    BY <2>1 DEF Sound
  <2>3. Read(h[k], p)
    BY <1>1, <2>1, <2>2, PagesFacts DEF Read
  <2>4. QED
    BY <1>1, <2>1, <2>3 DEF Sound
<1>2. "fungible" \in Kinds /\ "nonFungible" \in Kinds /\ 1 \in 1..2
  BY DEF Kinds
<1>3. ASSUME NEW k \in Kinds, NEW pages, NEW r \in HeldIn(h, e, k, pages)
      PROVE  /\ r \in Resources /\ Amount(r, h[k].at) # 0
             /\ \E p \in pages : p \in DOMAIN Pages[e][k] /\ r \in Pages[e][k][p]
  <2>1. PICK p \in pages \cap DOMAIN Pages[e][k] : r \in Pages[e][k][p]
    BY <1>3 DEF HeldIn
  <2>2. QED
    BY <1>3, <2>1, PagesFacts DEF HeldIn
<1>4. \A k \in Kinds : DOMAIN h[k].values \subseteq Resources
  BY DEF Whole, Sound, Collection, Values
<1>5. \A r \in HeldIn(h, e, "fungible", 1..2) : r \in DOMAIN h["fungible"].values
  BY <1>1, <1>2, <1>3
<1>6. \A r \in HeldIn(h, e, "nonFungible", {1}) :
        /\ r \in DOMAIN h["nonFungible"].values
        /\ h["nonFungible"].values[r].level = "Vault"
  BY <1>1, <1>2, <1>3
<1>7. QED
  BY <1>2, <1>3, <1>4, <1>5, <1>6

LEMMA ClassesWhole ==
  ASSUME NEW e \in Entities, NEW h, Whole(e, h), NEW described, NEW i,
         i = Classes(h, described),
         HeldIn(h, e, "fungible", 1..2) \cup HeldIn(h, e, "nonFungible", {1}) \subseteq described
  PROVE  /\ i \in Info
         /\ \A r \in HeldIn(h, e, "fungible", 1..2) :
              IF r \in DOMAIN ValidatorOf THEN r \in i.lsu ELSE r \in i.fungible
         /\ \A r \in HeldIn(h, e, "nonFungible", {1}) :
              IF r \in DOMAIN ValidatorOf THEN r \in i.claim ELSE r \in i.nft
<1> DEFINE F == {r \in DOMAIN h["fungible"].values : Amount(r, h["fungible"].at) # 0}
           G == {r \in DOMAIN h["nonFungible"].values :
                   h["nonFungible"].values[r].level = "Vault"}
           V == {r \in described : r \in DOMAIN ValidatorOf}
<1>1. i = [fungible |-> F \ V, lsu |-> F \cap V, nft |-> G \ V, claim |-> G \cap V, enriched |-> {}]
  <2> DEFINE f == {r \in F : ~OfValidator(r, described)}
             l == {r \in F : OfValidator(r, described)}
             n == {r \in G : ~OfValidator(r, described)}
             c == {r \in G : OfValidator(r, described)}
  <2>1. ASSUME NEW f1, NEW l1, NEW n1, NEW c1
        PROVE  [Nothing EXCEPT !.fungible = f1, !.lsu = l1, !.nft = n1, !.claim = c1] =
               [fungible |-> f1, lsu |-> l1, nft |-> n1, claim |-> c1, enriched |-> {}]
    <3>1. ASSUME NEW x, x = [Nothing EXCEPT !.fungible = f1, !.lsu = l1, !.nft = n1, !.claim = c1]
          PROVE  x = [fungible |-> f1, lsu |-> l1, nft |-> n1, claim |-> c1, enriched |-> {}]
      BY <3>1 DEF Nothing
    <3>2. QED
      BY <3>1
  <2>2. f = F \ V /\ l = F \cap V /\ n = G \ V /\ c = G \cap V
    BY DEF OfValidator
  <2>3. i = [Nothing EXCEPT !.fungible = f, !.lsu = l, !.nft = n, !.claim = c]
    BY DEF Classes
  <2> HIDE DEF f, l, n, c, F, G, V
  <2>4. QED
    BY <2>1, <2>2, <2>3
<1>2. F \subseteq Resources /\ G \subseteq Resources
  BY FirstPagesRead DEF Kinds
<1>3. \A r \in HeldIn(h, e, "fungible", 1..2) : r \in F /\ r \in described
  BY FirstPagesRead DEF HeldIn
<1>4. \A r \in HeldIn(h, e, "nonFungible", {1}) : r \in G /\ r \in described
  BY FirstPagesRead
<1>5. \A r \in described : r \in V <=> r \in DOMAIN ValidatorOf
  OBVIOUS
<1> HIDE DEF F, G, V
<1>6. i \in Info
  BY <1>1, <1>2 DEF Info
<1>7. QED
  BY <1>1, <1>3, <1>4, <1>5, <1>6

-----------------------------------------------------------------------------
(* The steps *)

\* Whether a collection is sound depends on the call's selector only.
LEMMA SoundNext ==
  ASSUME selector' = selector, NEW f, NEW j
  PROVE  Sound(f, j, holdings[f][j])' <=> Sound(f, j, holdings'[f][j])
BY DEF Sound

LEMMA HoldingsTyped ==
  ASSUME HoldingsInv, NEW e \in Entities, NEW k \in Kinds
  PROVE  /\ holdings[e][k].loading \in 0..Len(Pages[e][k])
         /\ holdings[e][k].awaited => holdings[e][k].loading = 2
BY PagesFacts DEF HoldingsInv, Sound

\* One collection is replaced by a sound one of the same version.
LEMMA HoldingReplaced ==
  ASSUME HoldingsInv, NEW e \in Entities, NEW k \in Kinds, NEW d, Sound(e, k, d),
         d.at = holdings[e][k].at, holdings' = [holdings EXCEPT ![e][k] = d],
         selector' = selector
  PROVE  /\ HoldingsInv'
         /\ \A f \in Entities, j \in Kinds :
              /\ holdings'[f][j] = IF f = e /\ j = k THEN d ELSE holdings[f][j]
              /\ holdings'[f][j].at = holdings[f][j].at
<1>1. holdings = [f \in Entities |-> [j \in Kinds |-> holdings[f][j]]]
  BY DEF HoldingsInv
<1>2. DOMAIN holdings = Entities /\ \A f \in Entities : DOMAIN holdings[f] = Kinds
  BY <1>1
<1>3. \A f \in Entities, j \in Kinds :
        holdings'[f][j] = IF f = e /\ j = k THEN d ELSE holdings[f][j]
  BY <1>2
<1>4. \A f \in Entities, j \in Kinds : holdings'[f][j].at = holdings[f][j].at
  BY <1>3
<1>5. holdings' = [f \in Entities |-> [j \in Kinds |-> holdings'[f][j]]]
  <2>1. DOMAIN holdings' = Entities /\ \A f \in Entities : DOMAIN holdings'[f] = Kinds
    BY <1>2
  <2>2. \A f \in Entities : holdings'[f] = [j \in Kinds |-> holdings'[f][j]]
    <3> TAKE f \in Entities
    <3>1. CASE f = e
      <4>1. holdings'[f] = [holdings[f] EXCEPT ![k] = d]
        BY <1>2, <3>1
      <4>2. holdings[f] = [j \in Kinds |-> holdings[f][j]]
        BY <1>1
      <4>3. QED
        BY <4>1, <4>2
    <3>2. CASE f # e
      <4>1. holdings'[f] = holdings[f]
        BY <1>2, <3>2
      <4>2. QED
        BY <1>1, <4>1
    <3>3. QED
      BY <3>1, <3>2
  <2>3. holdings' = [f \in Entities |-> holdings'[f]]
    BY <1>2
  <2>4. QED
    BY <2>2, <2>3
<1>6. ASSUME NEW f \in Entities, NEW j \in Kinds PROVE Sound(f, j, holdings[f][j])'
  <2>1. Sound(f, j, holdings'[f][j])
    BY <1>3 DEF HoldingsInv
  <2>2. QED
    BY <2>1, SoundNext
<1>7. \A f \in Entities : holdings'[f]["fungible"].at = holdings'[f]["nonFungible"].at
  BY <1>4 DEF HoldingsInv, Kinds
<1>8. HoldingsInv'
  BY <1>5, <1>6, <1>7 DEF HoldingsInv
<1>9. QED
  BY <1>3, <1>4, <1>8

\* The classes made when fetchEntityState returns.
LEMMA StartedInv ==
  ASSUME HoldingsInv', StatesInv', DetailsInv', stage' = "described",
         selector' = selector, StartTasks
  PROVE  InfosInv' /\ pending' \subseteq DOMAIN infos'
<1>1. /\ states' \in Seq(Existing') /\ ToSet(states') \subseteq Entities
      /\ \A e \in ToSet(states') : \E j \in DOMAIN states' : states'[j] = e
  BY DEF StatesInv, Existing, ToSet
<1>2. ASSUME NEW e \in ToSet(states')
      PROVE  /\ Whole(e, holdings'[e])
             /\ HeldIn(holdings'[e], e, "fungible", 1..2)
                  \cup HeldIn(holdings'[e], e, "nonFungible", {1}) \subseteq known'
  <2>1. Whole(e, holdings'[e])
    <3> SUFFICES \A k \in Kinds : /\ Sound(e, k, holdings'[e][k]) /\ holdings'[e][k].at # 0
                                  /\ holdings'[e][k].cursor # 2
      BY DEF Whole
    <3> TAKE k \in Kinds
    <3>1. Sound(e, k, holdings[e][k])'
      BY <1>1 DEF HoldingsInv
    <3>2. Sound(e, k, holdings'[e][k])
      BY <3>1, SoundNext
    <3>3. holdings'[e][k].at # 0 /\ holdings'[e][k].cursor # 2
      BY <1>1 DEF StatesInv
    <3>4. QED
      BY <3>2, <3>3
  <2>2. Needed(e)' \subseteq known'
    BY DEF DetailsInv
  <2>3. Needed(e)' = HeldIn(holdings'[e], e, "fungible", 1..2)
                       \cup HeldIn(holdings'[e], e, "nonFungible", {1})
    BY DEF Needed, HeldOn, HeldIn
  <2>4. QED
    BY <2>1, <2>2, <2>3
<1>3. ASSUME NEW e \in ToSet(states')
      PROVE  /\ infos'[e] \in Info
             /\ \A r \in HeldOn(e, "fungible", 1..2)' :
                  IF r \in DOMAIN ValidatorOf THEN r \in infos'[e].lsu
                  ELSE r \in infos'[e].fungible
             /\ \A r \in HeldOn(e, "nonFungible", {1})' :
                  IF r \in DOMAIN ValidatorOf THEN r \in infos'[e].claim
                  ELSE r \in infos'[e].nft
  <2>1. infos'[e] = Classes(holdings'[e], known')
    BY DEF StartTasks
  <2>2. HeldOn(e, "fungible", 1..2)' = HeldIn(holdings'[e], e, "fungible", 1..2)
        /\ HeldOn(e, "nonFungible", {1})' = HeldIn(holdings'[e], e, "nonFungible", {1})
    BY DEF HeldOn, HeldIn
  <2>3. e \in Entities /\ Whole(e, holdings'[e])
        /\ HeldIn(holdings'[e], e, "fungible", 1..2)
             \cup HeldIn(holdings'[e], e, "nonFungible", {1}) \subseteq known'
    BY <1>1, <1>2
  <2>4. QED
    BY <2>1, <2>2, <2>3, ClassesWhole
<1>4. infos' \in [ToSet(states') -> Info]
  BY <1>3 DEF StartTasks
<1>5. ASSUME NEW e \in ToSet(states') PROVE Validators(infos'[e]) \subseteq asked'[e]
  <2> DEFINE i == CHOOSE j \in DOMAIN states' : states'[j] = e
  <2>1. i \in DOMAIN states' /\ states'[i] = e
    BY <1>1
  <2>2. i \in 1..i
    BY <1>1, <2>1
  <2>3. asked'[e] = AskedBy(states', i, infos')
    BY DEF StartTasks
  <2> HIDE DEF i
  <2>4. QED
    BY <2>1, <2>2, <2>3 DEF AskedBy
<1>6. pending' = ToSet(states')
  BY DEF StartTasks
<1>7. QED
  BY <1>3, <1>4, <1>5, <1>6 DEF InfosInv

LEMMA InitInv == Init => IInv
<1> SUFFICES ASSUME Init PROVE IInv
  OBVIOUS
<1>1. \A e \in Entities, k \in Kinds : holdings[e][k] = Untouched
  BY DEF Init, FetchInit
<1>2. HoldingsInv
  <2>1. "fungible" \in Kinds /\ "nonFungible" \in Kinds
    BY DEF Kinds
  <2>2. holdings = [e \in Entities |-> [k \in Kinds |-> holdings[e][k]]]
    BY <1>1 DEF Init, FetchInit
  <2>3. QED
    BY <1>1, <2>1, <2>2, UntouchedSound DEF HoldingsInv
<1>3. states = <<>> /\ stage = "entities" /\ from = 0 /\ wanted = {} /\ known = {}
      /\ pending = {} /\ faults = 0 /\ ToSet(states) = {}
  BY DEF Init, FetchInit, ToSet
<1>4. TypeOK
  <2>1. absent \subseteq Unsure /\ version \in 1..MaxVersion /\ selector \in 0..MaxVersion
    BY EntityAssumption DEF Init, FetchInit, Live
  <2>2. 0 \in 0..MaxFaults /\ 0 \in 0..Len(Addresses)
    BY EntityAssumption, AddressesFacts
  <2>3. QED
    BY <1>2, <1>3, <2>1, <2>2, HoldingsTyped DEF TypeOK
<1>5. StatesInv
  BY <1>1, <1>3, UntouchedSound DEF StatesInv
<1>6. BatchInv
  <2>1. 0 % BatchSize = 0
    BY EntityAssumption
  <2>2. AskedFor(0)
    BY AddressesFacts DEF AskedFor
  <2>3. QED
    BY <1>3, <2>1, <2>2 DEF BatchInv
<1>7. DetailsInv /\ InfosInv
  BY <1>3 DEF DetailsInv, InfosInv
<1>8. QED
  BY <1>2, <1>4, <1>5, <1>6, <1>7 DEF IInv

\* What is held by the states are resources, those the answer tells of among them.
LEMMA HeldFacts ==
  ASSUME NEW h, NEW S \in SUBSET Entities, \A e \in S : Whole(e, h[e])
  PROVE  /\ Held(h, S) \subseteq Resources
         /\ \A e \in S : HeldIn(h[e], e, "fungible", 1..2)
                           \cup HeldIn(h[e], e, "nonFungible", {1}) \subseteq Held(h, S)
<1>1. ASSUME NEW e \in S
      PROVE  \A k \in Kinds : /\ DOMAIN h[e][k].values \subseteq Resources
                              /\ DOMAIN h[e][k].values \subseteq Held(h, S)
  <2>1. \A k \in Kinds : DOMAIN h[e][k].values \subseteq Resources
    BY FirstPagesRead
  <2>2. \A k \in Kinds : DOMAIN h[e][k].values \subseteq Held(h, S)
    BY DEF Held
  <2>3. QED
    BY <2>1, <2>2
<1>2. Held(h, S) \subseteq Resources
  BY <1>1 DEF Held
<1>3. ASSUME NEW e \in S
      PROVE  HeldIn(h[e], e, "fungible", 1..2)
               \cup HeldIn(h[e], e, "nonFungible", {1}) \subseteq Held(h, S)
  <2>1. "fungible" \in Kinds /\ "nonFungible" \in Kinds
    BY DEF Kinds
  <2>2. Whole(e, h[e]) /\ e \in Entities
    OBVIOUS
  <2>3. /\ \A r \in HeldIn(h[e], e, "fungible", 1..2) : r \in DOMAIN h[e]["fungible"].values
        /\ \A r \in HeldIn(h[e], e, "nonFungible", {1}) : r \in DOMAIN h[e]["nonFungible"].values
    BY <2>2, FirstPagesRead
  <2>4. QED
    BY <1>1, <2>1, <2>3
<1>4. QED
  BY <1>2, <1>3

\* When all addresses have been asked for, each batch had one that exists.
LEMMA AllAsked ==
  ASSUME AskedFor(Len(Addresses)), states \in Seq(Existing)
  PROVE  ~EmptyBatch /\ ToSet(states) = Existing
<1>1. ~EmptyBatch
  BY AddressesFacts DEF AskedFor, EmptyBatch
<1>2. ASSUME NEW e \in Existing PROVE e \in ToSet(states)
  <2>1. PICK i \in DOMAIN Addresses : Addresses[i] = e
    BY AddressesFacts DEF Existing, ToSet
  <2>2. i <= Len(Addresses)
    BY AddressesFacts
  <2>3. QED
    BY <2>1, <2>2 DEF AskedFor
<1>3. QED
  BY <1>1, <1>2 DEF ToSet

\* When n addresses have been asked for, and the tasks have settled or await pages.
LEMMA SettledInv ==
  ASSUME TypeOK, BatchInv, DetailsInv, stage \in {"entities", "pages"},
         UNCHANGED <<absent, selector, known>>,
         HoldingsInv',
         states' \in Seq(Existing'),
         \A e \in ToSet(states'), k \in Kinds : holdings'[e][k].at # 0,
         \A e \in Entities, k \in Kinds :
           /\ holdings'[e][k].at # 0 => e \in ToSet(states')
           /\ holdings'[e][k].cursor = 2 => holdings'[e][k].awaited,
         NEW n, n = from + BatchSize, AskedFor(n)',
         AfterTasks(holdings', states')
  PROVE  /\ stage' \in {"entities", "pages", "details", "described"}
         /\ from' \in 0..Len(Addresses) /\ wanted' \subseteq Resources
         /\ StatesInv' /\ BatchInv' /\ DetailsInv'
<1>1. Len(Addresses) \in Nat /\ from \in 0..Len(Addresses) /\ BatchSize \in Nat \ {0}
      /\ from % BatchSize = 0 /\ n \in Nat
  BY AddressesFacts, EntityAssumption DEF TypeOK, BatchInv
<1>2. n % BatchSize = 0
  BY <1>1, Multiples
<1>3. ToSet(states') \subseteq Entities
  BY DEF Existing, ToSet
<1>4. wanted = {}
  BY DEF DetailsInv
<1> DEFINE waits == \E e \in ToSet(states'), k \in Kinds : holdings'[e][k].awaited
<1>5. ASSUME ~waits, NEW e \in Entities, NEW k \in Kinds PROVE ~holdings'[e][k].awaited
  <2>1. CASE e \in ToSet(states')
    BY <1>5, <2>1
  <2>2. CASE e \notin ToSet(states')
    <3>1. Sound(e, k, holdings[e][k])' /\ holdings'[e][k].at = 0
      BY <2>2 DEF HoldingsInv
    <3>2. holdings'[e][k] = Untouched
      BY <3>1 DEF Sound
    <3>3. QED
      BY <3>2 DEF Untouched
  <2>3. QED
    BY <2>1, <2>2
<1>6. CASE waits
  <2>1. stage' = "pages" /\ from' = from /\ wanted' = wanted
    BY <1>6 DEF AfterTasks
  <2>2. StatesInv'
    BY <2>1 DEF StatesInv
  <2>3. BatchInv'
    BY <1>1, <2>1 DEF BatchInv
  <2>4. DetailsInv'
    BY <1>4, <2>1 DEF DetailsInv
  <2>5. QED
    BY <1>1, <1>4, <2>1, <2>2, <2>3, <2>4
<1>7. CASE ~waits /\ n < Len(Addresses)
  <2>1. stage' = "entities" /\ from' = n /\ wanted' = wanted
    BY <1>7 DEF AfterTasks
  <2>2. StatesInv'
    BY <1>5, <1>7, <2>1 DEF StatesInv
  <2>3. BatchInv'
    BY <1>1, <1>2, <1>7, <2>1 DEF BatchInv
  <2>4. DetailsInv'
    BY <1>4, <2>1 DEF DetailsInv
  <2>5. QED
    BY <1>1, <1>4, <1>7, <2>1, <2>2, <2>3, <2>4
<1>8. CASE ~waits /\ ~(n < Len(Addresses))
  <2>1. /\ wanted' = Held(holdings', ToSet(states')) /\ from' = from
        /\ stage' = IF wanted' = {} THEN "described" ELSE "details"
    BY <1>8 DEF AfterTasks
  <2>2. StatesInv'
    BY <1>5, <1>8, <2>1 DEF StatesInv
  <2>3. AskedFor(Len(Addresses))'
    BY <1>1, <1>8, AddressesFacts DEF AskedFor
  <2>4. ~EmptyBatch'
    BY <1>1, <2>3 DEF AskedFor, EmptyBatch
  <2>5. ToSet(states') = Existing'
    <3>1. ASSUME NEW e \in Existing' PROVE e \in ToSet(states')
      <4>1. PICK i \in DOMAIN Addresses : Addresses[i] = e
        BY AddressesFacts DEF Existing, ToSet
      <4>2. i <= Len(Addresses)
        BY AddressesFacts
      <4>3. QED
        BY <2>3, <4>1, <4>2 DEF AskedFor
    <3>2. QED
      BY <3>1 DEF ToSet
  <2>6. BatchInv'
    BY <1>1, <2>1, <2>3, <2>4, <2>5 DEF BatchInv
  <2>7. \A e \in ToSet(states') : Whole(e, holdings'[e])
    <3> TAKE e \in ToSet(states')
    <3> SUFFICES \A k \in Kinds : /\ Sound(e, k, holdings'[e][k]) /\ holdings'[e][k].at # 0
                                  /\ holdings'[e][k].cursor # 2
      BY DEF Whole
    <3> TAKE k \in Kinds
    <3>1. e \in Entities
      BY <1>3
    <3>2. Sound(e, k, holdings[e][k])'
      BY <3>1 DEF HoldingsInv
    <3>3. QED
      BY <1>5, <1>8, <3>1, <3>2, SoundNext
  <2>8. wanted' \subseteq Resources
    BY <1>3, <2>1, <2>7, HeldFacts
  <2>9. DetailsInv'
    <3>1. ASSUME NEW e \in ToSet(states') PROVE Needed(e)' \subseteq wanted'
      <4>1. Needed(e)' = HeldIn(holdings'[e], e, "fungible", 1..2)
                           \cup HeldIn(holdings'[e], e, "nonFungible", {1})
        BY DEF Needed, HeldOn, HeldIn
      <4>2. QED
        BY <1>3, <2>1, <2>7, <4>1, HeldFacts
    <3>2. QED
      BY <2>1, <3>1 DEF DetailsInv
  <2>10. QED
    BY <1>1, <2>1, <2>2, <2>6, <2>8, <2>9
<1>9. QED
  BY <1>6, <1>7, <1>8

\* A step of the call that leaves it in any stage, or makes fetchEntityState return.
LEMMA FetchedInv ==
  ASSUME IInv, FetchStep,
         stage \notin {"described", "thrown"},
         UNCHANGED <<absent, version, selector, faults>>,
         stage' \in {"entities", "pages", "details", "described"},
         from' \in 0..Len(Addresses), wanted' \subseteq Resources, known' \subseteq Resources,
         HoldingsInv', StatesInv', BatchInv', DetailsInv'
  PROVE  IInv'
<1>1. CASE stage' = "described"
  <2>1. StartTasks
    BY <1>1 DEF FetchStep
  <2>2. InfosInv' /\ pending' \subseteq DOMAIN infos'
    BY <1>1, <2>1, StartedInv
  <2>3. TypeOK'
    <3>1. ToSet(states') \subseteq Existing'
      BY DEF StatesInv, ToSet
    <3>2. \A e \in Entities, k \in Kinds :
            /\ holdings'[e][k].loading \in 0..Len(Pages[e][k])
            /\ holdings'[e][k].awaited => holdings'[e][k].loading = 2
      BY PagesFacts DEF HoldingsInv, Sound
    <3>3. QED
      BY <2>2, <3>1, <3>2 DEF IInv, TypeOK
  <2>4. QED
    BY <2>2, <2>3 DEF IInv
<1>2. CASE stage' # "described"
  <2>1. UNCHANGED <<infos, asked, pending>>
    BY <1>2 DEF FetchStep
  <2>2. InfosInv'
    BY <1>2 DEF InfosInv
  <2>3. TypeOK'
    <3>1. ToSet(states') \subseteq Existing'
      BY DEF StatesInv, ToSet
    <3>2. \A e \in Entities, k \in Kinds :
            /\ holdings'[e][k].loading \in 0..Len(Pages[e][k])
            /\ holdings'[e][k].awaited => holdings'[e][k].loading = 2
      BY PagesFacts DEF HoldingsInv, Sound
    <3>3. QED
      BY <2>1, <3>1, <3>2 DEF IInv, TypeOK
  <2>4. QED
    BY <2>2, <2>3 DEF IInv
<1>3. QED
  BY <1>1, <1>2

\* A batch of which the ledger has nothing.
LEMMA EmptyBatchInv ==
  ASSUME IInv, stage = "entities",
         ToSet(Chunk(Addresses, from)) \cap Existing = {},
         stage' = "described", states' = <<>>,
         UNCHANGED <<absent, version, selector, known, faults, from, holdings, wanted>>,
         FetchStep
  PROVE  IInv'
<1>1. HoldingsInv'
  BY DEF IInv, HoldingsInv, Sound
<1>2. ToSet(states') = {} /\ states' \in Seq(Existing')
  BY DEF ToSet
<1>3. StatesInv'
  BY <1>2 DEF IInv, StatesInv
<1>4. BatchInv'
  <2>1. Len(Addresses) \in Nat /\ from \in 0..Len(Addresses)
    BY AddressesFacts DEF IInv, TypeOK
  <2>2. CASE from < Len(Addresses)
    <3>1. EmptyBatch'
      BY <2>1, <2>2 DEF EmptyBatch, Existing, IInv, BatchInv
    <3>2. QED
      BY <3>1 DEF IInv, BatchInv
  <2>3. CASE ~(from < Len(Addresses))
    <3>1. Len(Addresses) = 0
      BY <2>1, <2>3 DEF IInv, BatchInv
    <3>2. DOMAIN Addresses = {}
      BY <3>1, AddressesFacts
    <3>3. Existing' = {}
      BY <3>2, AddressesFacts DEF Existing, ToSet
    <3>4. QED
      BY <1>2, <3>3 DEF IInv, BatchInv
  <2>4. QED
    BY <2>2, <2>3
<1>5. DetailsInv'
  BY <1>2 DEF IInv, DetailsInv
<1>6. QED
  BY <1>1, <1>3, <1>4, <1>5, FetchedInv DEF IInv, TypeOK

\* A batch of which the ledger has something.
LEMMA BatchFetchedInv ==
  ASSUME IInv, stage = "entities",
         NEW v \in 1..MaxVersion, selector # Live => v = selector,
         NEW items \in Seq(Existing), items # <<>>,
         ToSet(items) = ToSet(Chunk(Addresses, from)) \cap Existing,
         states' = states \o items,
         holdings' = [e \in Entities |->
                        IF e \notin ToSet(items) THEN holdings[e]
                        ELSE [k \in Kinds |-> SetInitialValues(e, k, v)]],
         AfterTasks(holdings', states'),
         UNCHANGED <<absent, version, selector, known, faults>>,
         FetchStep
  PROVE  IInv'
<1>1. states \in Seq(Existing) /\ states' \in Seq(Existing') /\ Existing' = Existing
      /\ ToSet(states') = ToSet(states) \cup ToSet(items) /\ ToSet(items) \subseteq Entities
  BY ConcatSet DEF IInv, StatesInv, Existing
<1>2. ASSUME NEW e \in Entities, NEW k \in Kinds
      PROVE  /\ Sound(e, k, holdings'[e][k])
             /\ holdings'[e][k].cursor = 2 => holdings'[e][k].awaited
             /\ IF e \in ToSet(items) THEN holdings'[e][k].at = v
                ELSE holdings'[e][k] = holdings[e][k]
  <2>1. CASE e \in ToSet(items)
    <3>1. holdings'[e][k] = SetInitialValues(e, k, v)
      BY <2>1
    <3>2. QED
      BY <2>1, <3>1, InitialSound
  <2>2. CASE e \notin ToSet(items)
    BY <2>2 DEF IInv, HoldingsInv, StatesInv
  <2>3. QED
    BY <2>1, <2>2
<1>3. HoldingsInv'
  <2>1. holdings' = [e \in Entities |-> [k \in Kinds |-> holdings'[e][k]]]
    <3>1. ASSUME NEW e \in Entities PROVE holdings'[e] = [k \in Kinds |-> holdings'[e][k]]
      <4>1. CASE e \in ToSet(items)
        BY <4>1
      <4>2. CASE e \notin ToSet(items)
        <5>1. holdings'[e] = holdings[e]
          BY <4>2
        <5>2. holdings = [f \in Entities |-> [k \in Kinds |-> holdings[f][k]]]
          BY DEF IInv, HoldingsInv
        <5>3. holdings[e] = [k \in Kinds |-> holdings[e][k]]
          BY <5>2
        <5>4. QED
          BY <5>1, <5>3
      <4>3. QED
        BY <4>1, <4>2
    <3>2. QED
      BY <3>1
  <2>2. ASSUME NEW e \in Entities PROVE holdings'[e]["fungible"].at = holdings'[e]["nonFungible"].at
    BY <1>2 DEF Kinds, IInv, HoldingsInv
  <2>3. \A e \in Entities, k \in Kinds : Sound(e, k, holdings[e][k])'
    BY <1>2, SoundNext
  <2>4. QED
    BY <2>1, <2>2, <2>3 DEF HoldingsInv
<1>4. \A e \in ToSet(states'), k \in Kinds : holdings'[e][k].at # 0
  <2>1. ToSet(states') \subseteq Entities /\ v # 0
    BY <1>1, EntityAssumption DEF Existing, ToSet
  <2>2. QED
    BY <1>1, <1>2, <2>1 DEF IInv, StatesInv
<1>5. \A e \in Entities, k \in Kinds : holdings'[e][k].at # 0 => e \in ToSet(states')
  BY <1>1, <1>2 DEF IInv, StatesInv
<1>6. PICK n : n = from + BatchSize
  OBVIOUS
<1>7. Len(Addresses) \in Nat /\ from \in Nat /\ BatchSize \in Nat \ {0} /\ n \in Nat
      /\ from % BatchSize = 0 /\ DOMAIN Addresses = 1..Len(Addresses)
  BY <1>6, AddressesFacts, EntityAssumption DEF IInv, TypeOK, BatchInv
<1>8. AskedFor(from)
  BY DEF IInv, BatchInv
<1>9. ASSUME NEW i \in DOMAIN Addresses, i <= n, Addresses[i] \in Existing
      PROVE  Addresses[i] \in ToSet(states')
  <2>1. CASE i <= from
    BY <1>1, <1>8, <1>9, <2>1 DEF AskedFor
  <2>2. CASE ~(i <= from)
    <3>1. from < i /\ i <= from + BatchSize
      BY <1>6, <1>7, <1>9, <2>2
    <3>2. Addresses[i] \in ToSet(Chunk(Addresses, from))
      BY <1>7, <1>9, <3>1, ChunkFacts, AddressesFacts
    <3>3. QED
      BY <1>1, <1>9, <3>2
  <2>3. QED
    BY <2>1, <2>2
<1>10. ASSUME NEW i \in 0 .. Len(Addresses) - 1, i < n, i % BatchSize = 0
       PROVE  ToSet(Chunk(Addresses, i)) \cap Existing # {}
  <2>1. i < from \/ i = from
    <3>1. i \in Nat /\ i < from + BatchSize
      BY <1>6, <1>7, <1>10
    <3>2. QED
      BY <1>7, <1>10, <3>1, Multiples
  <2>2. CASE i < from
    BY <1>8, <1>10, <2>2 DEF AskedFor
  <2>3. CASE i = from
    <3>1. 1 \in DOMAIN items
      OBVIOUS
    <3>2. QED
      BY <2>3, <3>1 DEF ToSet
  <2>4. QED
    BY <2>1, <2>2, <2>3
<1>11. AskedFor(n)'
  BY <1>1, <1>9, <1>10 DEF AskedFor
<1>12. /\ stage' \in {"entities", "pages", "details", "described"}
       /\ from' \in 0..Len(Addresses) /\ wanted' \subseteq Resources
       /\ StatesInv' /\ BatchInv' /\ DetailsInv'
  BY <1>1, <1>2, <1>3, <1>4, <1>5, <1>6, <1>11, SettledInv DEF IInv
<1>13. known' \subseteq Resources
  BY DEF IInv, TypeOK
<1>14. QED
  BY <1>3, <1>12, <1>13, FetchedInv

LEMMA FetchEntitiesInv == IInv /\ FetchStep /\ FetchEntities => IInv'
<1> SUFFICES ASSUME IInv, FetchStep, FetchEntities PROVE IInv'
  OBVIOUS
<1> DEFINE batch == Chunk(Addresses, from)
           items == Kept(batch, {i \in DOMAIN batch : batch[i] \in Existing})
<1>1. PICK v : v = IF selector = Live THEN version ELSE selector
  OBVIOUS
<1>2. v \in 1..MaxVersion /\ (selector # Live => v = selector)
  BY <1>1, EntityAssumption DEF IInv, TypeOK, Live
<1>3. batch \in Seq(Entities)
  BY ChunkFacts, AddressesFacts DEF IInv, TypeOK
<1>4. items \in Seq(Existing) /\ ToSet(items) = ToSet(batch) \cap Existing
      /\ (items = <<>> <=> ToSet(batch) \cap Existing = {})
  BY <1>3, PresentFacts
<1>5. stage = "entities" /\ UNCHANGED <<absent, version, selector, known, faults>>
  BY DEF FetchEntities
<1>6. CASE items = <<>>
  <2>1. stage' = "described" /\ states' = <<>> /\ UNCHANGED <<from, holdings, wanted>>
    BY <1>6 DEF FetchEntities
  <2>2. QED
    BY <1>4, <1>5, <1>6, <2>1, EmptyBatchInv
<1>7. CASE items # <<>>
  <2>1. /\ states' = states \o items
        /\ holdings' = [e \in Entities |->
                          IF e \notin ToSet(items) THEN holdings[e]
                          ELSE [k \in Kinds |-> SetInitialValues(e, k, v)]]
        /\ AfterTasks(holdings', states')
    BY <1>1, <1>7 DEF FetchEntities
  <2> HIDE DEF items
  <2>2. QED
    BY <1>2, <1>4, <1>5, <1>7, <2>1, BatchFetchedInv DEF batch
<1>8. QED
  BY <1>6, <1>7

LEMMA SameHeld ==
  ASSUME NEW e \in Entities, \A k \in Kinds : holdings'[e][k].at = holdings[e][k].at
  PROVE  /\ HeldOn(e, "fungible", 1..2)' = HeldOn(e, "fungible", 1..2)
         /\ HeldOn(e, "nonFungible", {1})' = HeldOn(e, "nonFungible", {1})
         /\ Needed(e)' = Needed(e)
<1>1. "fungible" \in Kinds /\ "nonFungible" \in Kinds
  BY DEF Kinds
<1>2. HeldOn(e, "fungible", 1..2)' = HeldOn(e, "fungible", 1..2)
  BY <1>1 DEF HeldOn
<1>3. HeldOn(e, "nonFungible", {1})' = HeldOn(e, "nonFungible", {1})
  BY <1>1 DEF HeldOn
<1>4. QED
  BY <1>2, <1>3 DEF Needed

\* A page that comes in or fails while no task waits for it, or makes the call throw.
LEMMA PageKeeps ==
  ASSUME IInv, HoldingsInv', StatesInv', faults' \in 0..MaxFaults,
         \A e \in Entities, k \in Kinds : holdings'[e][k].at = holdings[e][k].at,
         stage' \in {stage, "thrown"},
         UNCHANGED <<absent, version, selector, from, states, wanted, known,
                     infos, asked, pending>>
  PROVE  IInv'
<1>1. ToSet(states) \subseteq Entities
  BY DEF IInv, TypeOK, Existing
<1>2. TypeOK'
  <2>1. \A e \in Entities, k \in Kinds :
          /\ holdings'[e][k].loading \in 0..Len(Pages[e][k])
          /\ holdings'[e][k].awaited => holdings'[e][k].loading = 2
    BY PagesFacts DEF HoldingsInv, Sound
  <2>2. QED
    BY <2>1 DEF IInv, TypeOK, Existing
<1>3. BatchInv'
  <2>2. AskedFor(from)' <=> AskedFor(from)
    BY DEF AskedFor, Existing
  <2>3. AskedFor(from + BatchSize)' <=> AskedFor(from + BatchSize)
    BY DEF AskedFor, Existing
  <2>4. AskedFor(Len(Addresses))' <=> AskedFor(Len(Addresses))
    BY DEF AskedFor, Existing
  <2>5. EmptyBatch' <=> EmptyBatch
    BY DEF EmptyBatch, Existing
  <2>6. QED
    BY <2>2, <2>3, <2>4, <2>5 DEF IInv, BatchInv, Existing
<1>4. DetailsInv'
  BY <1>1, SameHeld DEF IInv, DetailsInv
<1>5. InfosInv'
  BY <1>1, SameHeld DEF IInv, InfosInv
<1>6. QED
  BY <1>2, <1>3, <1>4, <1>5 DEF IInv

LEMMA LoadPageInv ==
  ASSUME IInv, FetchStep, NEW e \in Entities, NEW k \in Kinds, LoadPage(e, k)
  PROVE  IInv'
<1> DEFINE c == holdings[e][k]
<1>1. PICK d : d = LoadValues(e, k, c)
  OBVIOUS
<1>2. Sound(e, k, c) /\ c.loading # 0
  BY DEF IInv, HoldingsInv, LoadPage
<1>3. Sound(e, k, d) /\ d.at = c.at /\ c.at # 0 /\ d.cursor # 2 /\ ~d.awaited
  BY <1>1, <1>2, LoadedSound
<1>4. UNCHANGED <<absent, version, selector, states, known, faults>>
      /\ holdings' = [holdings EXCEPT ![e][k] = d]
  BY <1>1 DEF LoadPage
<1>5. HoldingsInv'
      /\ \A f \in Entities, j \in Kinds :
           /\ holdings'[f][j] = IF f = e /\ j = k THEN d ELSE holdings[f][j]
           /\ holdings'[f][j].at = holdings[f][j].at
  BY <1>3, <1>4, HoldingReplaced DEF IInv
<1>6. ToSet(states) \subseteq Entities /\ Existing' = Existing /\ states \in Seq(Existing)
  BY <1>4 DEF IInv, TypeOK, StatesInv, Existing
<1>7. CASE stage = "pages"
  <2>1. AfterTasks(holdings', states')
    BY <1>4, <1>7 DEF LoadPage
  <2>2. PICK n : n = from + BatchSize
    OBVIOUS
  <2>3. AskedFor(n)
    BY <1>7, <2>2 DEF IInv, BatchInv
  <2>4. AskedFor(n)'
    BY <1>4, <2>3 DEF AskedFor, Existing
  <2>5. \A f \in Entities, j \in Kinds :
          /\ holdings'[f][j].at # 0 => f \in ToSet(states')
          /\ holdings'[f][j].cursor = 2 => holdings'[f][j].awaited
    BY <1>3, <1>4, <1>5, <1>7 DEF IInv, StatesInv
  <2>6. \A f \in ToSet(states'), j \in Kinds : holdings'[f][j].at # 0
    BY <1>4, <1>5, <1>6 DEF IInv, StatesInv
  <2>7. /\ stage' \in {"entities", "pages", "details", "described"}
        /\ from' \in 0..Len(Addresses) /\ wanted' \subseteq Resources
        /\ StatesInv' /\ BatchInv' /\ DetailsInv'
    BY <1>4, <1>5, <1>6, <1>7, <2>1, <2>2, <2>4, <2>5, <2>6, SettledInv DEF IInv
  <2>8. known' \subseteq Resources
    BY <1>4 DEF IInv, TypeOK
  <2>9. QED
    BY <1>4, <1>5, <1>7, <2>7, <2>8, FetchedInv
<1>8. CASE stage # "pages"
  <2>1. UNCHANGED <<stage, from, wanted>>
    BY <1>8 DEF LoadPage
  <2>2. UNCHANGED <<infos, asked, pending>>
    BY <2>1 DEF FetchStep
  <2>3. StatesInv'
    BY <1>3, <1>4, <1>5, <1>6, <1>8, <2>1 DEF IInv, StatesInv
  <2>4. QED
    BY <1>4, <1>5, <2>1, <2>2, <2>3, PageKeeps DEF IInv, TypeOK
<1>9. QED
  BY <1>7, <1>8

LEMMA PageFailsInv ==
  ASSUME IInv, FetchStep, NEW e \in Entities, NEW k \in Kinds, PageFails(e, k)
  PROVE  IInv'
<1> DEFINE c == holdings[e][k]
<1>1. PICK d : d = [c EXCEPT !.loading = 0, !.awaited = FALSE, !.lost = TRUE]
  OBVIOUS
<1>2. Sound(e, k, c) /\ c.loading # 0 /\ c \in Collection
  BY DEF IInv, HoldingsInv, PageFails, Sound
<1>3. d = [values |-> c.values, cursor |-> c.cursor, at |-> c.at, loading |-> 0,
           awaited |-> FALSE, lost |-> TRUE]
  BY <1>1, <1>2 DEF Collection
<1>4. Sound(e, k, d)
  <2>1. c.at # 0
    BY <1>2 DEF Sound, Untouched
  <2>2. d \in Collection
    BY <1>2, <1>3 DEF Collection
  <2>3. /\ d.values = c.values /\ d.cursor = c.cursor /\ d.at = c.at /\ d.loading = 0
        /\ ~d.awaited
    BY <1>3
  <2>4. QED
    BY <1>2, <2>1, <2>2, <2>3 DEF Sound, Read
<1>5. /\ UNCHANGED <<absent, version, selector, from, states, wanted, known>>
      /\ holdings' = [holdings EXCEPT ![e][k] = d]
      /\ stage' = IF c.awaited THEN "thrown" ELSE stage
      /\ faults' = faults + 1 /\ faults < MaxFaults
  BY <1>1 DEF PageFails
<1>6. HoldingsInv'
      /\ \A f \in Entities, j \in Kinds :
           /\ holdings'[f][j] = IF f = e /\ j = k THEN d ELSE holdings[f][j]
           /\ holdings'[f][j].at = holdings[f][j].at
  <2>1. d.at = c.at
    BY <1>3
  <2>2. QED
    BY <1>4, <1>5, <2>1, HoldingReplaced DEF IInv
<1>7. ToSet(states) \subseteq Entities /\ Existing' = Existing /\ states \in Seq(Existing)
  BY <1>5 DEF IInv, TypeOK, StatesInv, Existing
<1>8. UNCHANGED <<infos, asked, pending>>
  BY <1>5 DEF FetchStep
<1>9. StatesInv'
  <2>1. ~d.awaited /\ d.cursor = c.cursor
    BY <1>3
  <2>2. CASE c.awaited
    BY <1>5, <1>6, <1>7, <2>2 DEF IInv, StatesInv
  <2>3. CASE ~c.awaited
    BY <1>5, <1>6, <1>7, <2>1, <2>3 DEF IInv, StatesInv
  <2>4. QED
    BY <2>2, <2>3
<1>10. faults' \in 0..MaxFaults
  BY <1>5, EntityAssumption DEF IInv, TypeOK
<1>11. QED
  BY <1>5, <1>6, <1>8, <1>9, <1>10, PageKeeps

LEMMA DescribeInv ==
  ASSUME IInv, FetchStep, DescribeResources
  PROVE  IInv'
<1> DEFINE size == IF Cardinality(wanted) < BatchSize THEN Cardinality(wanted) ELSE BatchSize
           batch == CHOOSE b \in SUBSET wanted : Cardinality(b) = size
<1>1. batch \subseteq wanted
  <2>1. IsFiniteSet(wanted)
    BY EntityAssumption, FS_Subset DEF IInv, TypeOK
  <2>2. Cardinality(wanted) \in Nat
    BY <2>1, FS_CardinalityType
  <2>3. size \in Nat /\ size <= Cardinality(wanted)
    BY <2>2, EntityAssumption
  <2> HIDE DEF size
  <2>4. \E b \in SUBSET wanted : Cardinality(b) = size
    BY <2>1, <2>3, SubsetsOfSize
  <2>5. QED
    BY <2>4
<1>2. /\ stage = "details" /\ known' = known \cup batch /\ wanted' = wanted \ batch
      /\ stage' = IF wanted' = {} THEN "described" ELSE "details"
      /\ UNCHANGED <<absent, version, selector, from, holdings, states, faults>>
  BY DEF DescribeResources
<1> HIDE DEF batch
<1>3. HoldingsInv'
  BY <1>2 DEF IInv, HoldingsInv, Sound
<1>4. StatesInv'
  BY <1>2 DEF IInv, StatesInv, Existing
<1>5. BatchInv'
  <2>1. AskedFor(Len(Addresses))
    BY <1>2 DEF IInv, BatchInv
  <2>2. ~EmptyBatch /\ ToSet(states) = Existing
    BY <2>1, AllAsked DEF IInv, StatesInv
  <2>3. ~EmptyBatch' /\ ToSet(states') = Existing'
    BY <1>2, <2>2 DEF EmptyBatch, Existing
  <2>4. AskedFor(Len(Addresses))'
    BY <1>2, <2>1 DEF AskedFor, Existing
  <2>5. QED
    BY <1>2, <2>3, <2>4 DEF IInv, BatchInv
<1>6. ToSet(states) \subseteq Entities
  BY DEF IInv, TypeOK, Existing
<1>7. DetailsInv'
  BY <1>1, <1>2, <1>6, SameHeld DEF IInv, DetailsInv
<1>8. from' \in 0..Len(Addresses) /\ wanted' \subseteq Resources /\ known' \subseteq Resources
  BY <1>1, <1>2 DEF IInv, TypeOK
<1>9. QED
  BY <1>2, <1>3, <1>4, <1>5, <1>7, <1>8, FetchedInv

\* A step that leaves the reads alone, or makes the call throw.
LEMMA ReadsKept ==
  ASSUME IInv, UNCHANGED <<absent, selector, from, holdings, states, wanted, known>>,
         stage' \in {stage, "thrown"}
  PROVE  /\ HoldingsInv' /\ StatesInv' /\ BatchInv' /\ DetailsInv'
         /\ \A e \in Entities, k \in Kinds :
              /\ holdings'[e][k].loading \in 0..Len(Pages[e][k])
              /\ holdings'[e][k].awaited => holdings'[e][k].loading = 2
         /\ UNCHANGED <<infos, asked, pending>> => InfosInv'
<1>1. ASSUME NEW e \in Entities, NEW k \in Kinds PROVE Sound(e, k, holdings[e][k])'
  <2>1. Sound(e, k, holdings'[e][k])
    BY DEF IInv, HoldingsInv
  <2>2. QED
    BY <2>1, SoundNext
<1>2. HoldingsInv'
  BY <1>1 DEF IInv, HoldingsInv
<1>3. Existing' = Existing
  BY DEF Existing
<1>4. StatesInv'
  BY <1>3 DEF IInv, StatesInv
<1>5. AskedFor(from)' = AskedFor(from) /\ AskedFor(from + BatchSize)' = AskedFor(from + BatchSize)
      /\ AskedFor(Len(Addresses))' = AskedFor(Len(Addresses)) /\ EmptyBatch' = EmptyBatch
  BY <1>3 DEF AskedFor, EmptyBatch
<1>6. BatchInv'
  BY <1>3, <1>5 DEF IInv, BatchInv
<1>7. ToSet(states) \subseteq Entities
  BY DEF IInv, TypeOK, Existing
<1>8. DetailsInv'
  BY <1>7, SameHeld DEF IInv, DetailsInv
<1>9. UNCHANGED <<infos, asked, pending>> => InfosInv'
  BY <1>7, SameHeld DEF IInv, InfosInv
<1>10. QED
  BY <1>2, <1>4, <1>6, <1>8, <1>9, HoldingsTyped DEF IInv

LEMMA EnrichInv ==
  ASSUME IInv, NEW e \in Entities, Enrich(e)
  PROVE  IInv'
<1> DEFINE R == {r \in infos[e].lsu \cup infos[e].claim : ValidatorOf[r] \in asked[e]}
<1>1. /\ stage = "described" /\ e \in pending /\ pending' = pending \ {e}
      /\ infos' = [infos EXCEPT ![e].enriched = R] /\ asked' = asked
      /\ UNCHANGED fetchVars
  BY DEF Enrich
<1>2. UNCHANGED <<absent, version, selector, stage, from, holdings, states, wanted, known, faults>>
  BY <1>1 DEF fetchVars
<1>3. infos \in [ToSet(states) -> Info] /\ e \in ToSet(states) /\ DOMAIN infos = ToSet(states)
  BY <1>1 DEF IInv, TypeOK, InfosInv
<1>4. R = infos[e].lsu \cup infos[e].claim
  BY <1>1, <1>3 DEF IInv, InfosInv, Validators
<1>5. R \subseteq Resources
  BY <1>3, <1>4 DEF Info
<1> HIDE DEF R
<1>6. infos' \in [ToSet(states) -> Info]
      /\ infos'[e].lsu = infos[e].lsu /\ infos'[e].claim = infos[e].claim
      /\ infos'[e].fungible = infos[e].fungible /\ infos'[e].nft = infos[e].nft
      /\ infos'[e].enriched = R
      /\ \A f \in ToSet(states) : f # e => infos'[f] = infos[f]
  BY <1>1, <1>3, <1>5 DEF Info
<1>7. HoldingsInv' /\ StatesInv' /\ BatchInv' /\ DetailsInv'
  BY <1>2, ReadsKept
<1>8. TypeOK'
  BY <1>1, <1>2, <1>3, <1>6 DEF IInv, TypeOK, Existing
<1>9. ASSUME NEW f \in ToSet(states)
      PROVE  /\ HeldOn(f, "fungible", 1..2)' = HeldOn(f, "fungible", 1..2)
             /\ HeldOn(f, "nonFungible", {1})' = HeldOn(f, "nonFungible", {1})
  BY <1>2 DEF HeldOn
<1>10. ASSUME NEW f \in ToSet(states)
       PROVE  /\ \A r \in HeldOn(f, "fungible", 1..2)' :
                   IF r \in DOMAIN ValidatorOf THEN r \in infos'[f].lsu
                   ELSE r \in infos'[f].fungible
              /\ \A r \in HeldOn(f, "nonFungible", {1})' :
                   IF r \in DOMAIN ValidatorOf THEN r \in infos'[f].claim
                   ELSE r \in infos'[f].nft
              /\ Validators(infos'[f]) \subseteq asked'[f]
              /\ f \notin pending' =>
                   infos'[f].lsu \cup infos'[f].claim \subseteq infos'[f].enriched
  <2>1. CASE f = e
    BY <1>1, <1>4, <1>6, <1>9, <2>1 DEF IInv, InfosInv, Validators
  <2>2. CASE f # e
    BY <1>1, <1>6, <1>9, <2>2 DEF IInv, InfosInv
  <2>3. QED
    BY <2>1, <2>2
<1>11. InfosInv'
  BY <1>2, <1>6, <1>10 DEF InfosInv
<1>12. QED
  BY <1>7, <1>8, <1>11 DEF IInv

LEMMA NextInv == IInv /\ [Next]_vars => IInv'
<1> SUFFICES ASSUME IInv, [Next]_vars PROVE IInv'
  OBVIOUS
<1>1. ASSUME FetchStep PROVE IInv'
  <2>1. ASSUME NEW e \in Entities, NEW k \in Kinds, LoadPage(e, k) \/ PageFails(e, k)
        PROVE  IInv'
    BY <1>1, <2>1, LoadPageInv, PageFailsInv
  <2>2. QED
    BY <1>1, <2>1, FetchEntitiesInv, DescribeInv DEF FetchStep, PageStep
<1>2. ASSUME NEW e \in Entities, Enrich(e) PROVE IInv'
  BY <1>2, EnrichInv
<1>3. ASSUME stage' = "thrown", faults' \in 0..MaxFaults,
             UNCHANGED <<absent, version, selector, from, holdings, states, wanted, known,
                         infos, asked, pending>>
      PROVE  IInv'
  <2>1. HoldingsInv' /\ StatesInv' /\ BatchInv' /\ DetailsInv' /\ InfosInv'
    BY <1>3, ReadsKept
  <2>2. TypeOK'
    BY <1>3, ReadsKept DEF IInv, TypeOK, Existing
  <2>3. QED
    BY <2>1, <2>2 DEF IInv
<1>4. CASE EnrichFails
  BY <1>3, <1>4, EntityAssumption DEF EnrichFails, IInv, TypeOK
<1>5. CASE CallFails /\ UNCHANGED <<infos, asked, pending>>
  BY <1>3, <1>5, EntityAssumption DEF CallFails, IInv, TypeOK
<1>6. ASSUME version' \in 1..MaxVersion,
             UNCHANGED <<absent, selector, stage, from, holdings, states, wanted, known, faults,
                         infos, asked, pending>>
      PROVE  IInv'
  <2>1. HoldingsInv' /\ StatesInv' /\ BatchInv' /\ DetailsInv' /\ InfosInv'
    BY <1>6, ReadsKept
  <2>2. TypeOK'
    BY <1>6, ReadsKept DEF IInv, TypeOK, Existing
  <2>3. QED
    BY <2>1, <2>2 DEF IInv
<1>7. CASE LedgerMoves /\ UNCHANGED <<infos, asked, pending>>
  BY <1>6, <1>7, EntityAssumption DEF LedgerMoves, IInv, TypeOK
<1>8. CASE UNCHANGED vars
  BY <1>6, <1>8 DEF vars, fetchVars, IInv, TypeOK
<1>9. QED
  BY <1>1, <1>2, <1>4, <1>5, <1>7, <1>8 DEF Next, Others

-----------------------------------------------------------------------------
(* The theorems *)

\* The invariant of fetchEntityState and getResourceInfos: collections hold what the pages
\* behind their cursors hold, at the version of their first page; each batch of addresses
\* gave its entities; the details cover what is awaited; the tasks keep the classes whole.
THEOREM AnswerInv == Spec => []IInv
BY InitInv, NextInv, PTL DEF Spec

\* The call's state is of its type: a page that somebody waits for is the second and is
\* being loaded, and a cursor stays within the pages there are.
THEOREM TypeCorrect == Spec => []TypeOK
<1>1. IInv => TypeOK
  BY DEF IInv
<1>2. QED
  BY AnswerInv, <1>1, PTL

\* All collections of an entity are read at one version, the selected one if there is one,
\* although the later pages are requested by nobody who waits and the ledger moves on; and
\* no page's amounts are counted twice.
THEOREM ReadAtOneVersion == Spec => []OneVersion
<1>1. IInv => OneVersion
  <2> SUFFICES ASSUME IInv, NEW e \in Entities
               PROVE  \E v \in 1..MaxVersion :
                        /\ selector # Live => v = selector
                        /\ \A k \in Kinds : \A r \in DOMAIN holdings[e][k].values :
                             holdings[e][k].values[r].reads = <<v>>
    BY DEF OneVersion
  <2>1. \A k \in Kinds : Sound(e, k, holdings[e][k])
    BY DEF IInv, HoldingsInv
  <2>2. PICK a : \A k \in Kinds : holdings[e][k].at = a
    BY DEF IInv, HoldingsInv, Kinds
  <2>3. a \in 0..MaxVersion
    BY <2>1, <2>2 DEF Sound, Collection, Kinds
  <2>4. selector \in 0..MaxVersion /\ MaxVersion \in Nat \ {0} /\ Live = 0
    BY EntityAssumption DEF IInv, TypeOK, Live
  <2>5. CASE a = 0
    <3>1. \A k \in Kinds : DOMAIN holdings[e][k].values = {}
      BY <2>1, <2>2, <2>5, EmptyValues DEF Sound, Untouched
    <3>2. CASE selector # Live
      <4>1. selector \in 1..MaxVersion
        BY <2>4, <3>2
      <4>2. QED
        BY <3>1, <4>1
    <3>3. CASE selector = Live
      <4>1. 1 \in 1..MaxVersion
        BY <2>4
      <4>2. QED
        BY <3>1, <3>3, <4>1
    <3>4. QED
      BY <3>2, <3>3
  <2>6. CASE a # 0
    <3>1. a \in 1..MaxVersion
      BY <2>3, <2>4, <2>6
    <3>2. selector # Live => a = selector
      BY <2>1, <2>2, <2>6 DEF Sound, Kinds
    <3>3. \A k \in Kinds : \A r \in DOMAIN holdings[e][k].values :
            holdings[e][k].values[r].reads = <<a>>
      BY <2>1, <2>2 DEF Sound
    <3>4. QED
      BY <3>1, <3>2, <3>3
  <2>7. QED
    BY <2>5, <2>6
<1>2. QED
  BY AnswerInv, <1>1, PTL

\* An answer of getResourceInfos has every component of the ledger, unless a batch had none,
\* each with all resources of the pages awaited, in their classes, and with the validators'
\* metadata of its stake units and claims, whichever task fetched them.
THEOREM AnswersWhole == Spec => []AnswerWhole
<1>1. IInv => AnswerWhole
  <2> SUFFICES ASSUME IInv, stage = "described", pending = {} PROVE AnswerWhole
    BY DEF AnswerWhole, Returned
  <2>1. DOMAIN infos = ToSet(states)
    BY DEF IInv, InfosInv
  <2>2. CASE EmptyBatch
    BY <2>1, <2>2 DEF IInv, BatchInv, AnswerWhole, ToSet
  <2>3. CASE ~EmptyBatch
    <3>1. ToSet(states) = Existing
      BY <2>3 DEF IInv, BatchInv
    <3>2. QED
      BY <2>1, <2>3, <3>1 DEF IInv, InfosInv, AnswerWhole
  <2>4. QED
    BY <2>2, <2>3
<1>2. QED
  BY AnswerInv, <1>1, PTL
=============================================================================

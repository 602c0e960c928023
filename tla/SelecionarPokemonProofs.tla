---------------------- MODULE SelecionarPokemonProofs ----------------------
(***************************************************************************)
(* The two screens an ad is written on.  First the list of every pokemon,   *)
(* for any number of pokemons, any size of page and any number of answers   *)
(* under way; then the publishing form, whose names all differ.             *)
(***************************************************************************)
EXTENDS SelecionarPokemon, AddPokemon, FiniteSetTheorems, FiniteSetsExt, TLAPS

\* Induction, as module FoldLemmas has it; no loop is meant.
Numbers == INSTANCE FoldLemmas WITH Step <- LAMBDA p, x, acc : acc

-----------------------------------------------------------------------------
(* Multiples of the size of a page.                                         *)

LEMMA Multiple ==
    ASSUME NEW p \in Nat, p > 0, NEW o \in Nat, o % p = 0
    PROVE  \E a \in Nat : o = p * a
<1>1. p * (o \div p) + (o % p) = o
  OBVIOUS
<1>2. o \div p \in Nat
  OBVIOUS
<1>3. p * (o \div p) \in Nat
  BY <1>2
<1>4. o = p * (o \div p)
  BY <1>1, <1>3
<1> QED
  BY <1>2, <1>4

LEMMA MultipleFactor ==
    ASSUME NEW p \in Nat, p > 0, NEW c \in Int
    PROVE  /\ c >= 1 => p * c >= p
           /\ c <= 0 => p * c <= 0
OBVIOUS

\* The next multiple of p after o is o + p, and the first one is p.
LEMMA NextMultiple ==
    ASSUME NEW p \in Nat, p > 0, NEW o \in Nat, o % p = 0
    PROVE  /\ (o + p) % p = 0
           /\ \A i \in 1..(p - 1) : (o + i) % p # 0
           /\ o > 0 => o >= p
<1>1. PICK a \in Nat : o = p * a
  BY Multiple
<1>2. (o + p) % p = 0
  <2>1. p * (a + 1) = p * a + p
    OBVIOUS
  <2>2. a + 1 \in Nat
    OBVIOUS
  <2>3. \A c \in Nat : (p * c) % p = 0
    OBVIOUS
  <2> QED
    BY <1>1, <2>1, <2>2, <2>3
<1>3. ASSUME NEW i \in 1..(p - 1), (o + i) % p = 0 PROVE FALSE
  <2>1. PICK b \in Nat : o + i = p * b
    <3>1. o + i \in Nat
      OBVIOUS
    <3> QED
      BY <1>3, <3>1, Multiple
  <2>2. p * (b - a) = p * b - p * a
    OBVIOUS
  <2>3. p * (b - a) = i
    <3>1. p * a \in Int /\ p * b \in Int
      OBVIOUS
    <3> QED
      BY <1>1, <2>1, <2>2, <3>1
  <2>4. b - a >= 1 \/ b - a <= 0
    OBVIOUS
  <2>5. b - a \in Int
    OBVIOUS
  <2> QED
    BY <2>3, <2>4, <2>5, MultipleFactor
<1>4. o > 0 => o >= p
  <2>1. a >= 1 \/ a <= 0
    OBVIOUS
  <2> QED
    BY <1>1, <2>1, MultipleFactor
<1> QED
  BY <1>2, <1>3, <1>4

LEMMA MinOfTwo ==
    ASSUME NEW a \in Nat, NEW b \in Nat
    PROVE  Min({a, b}) = IF a <= b THEN a ELSE b
BY DEF Min
-----------------------------------------------------------------------------
(* Sums.  FoldFunction is a function on sets of arguments, defined by itself *)
(* from an element CHOOSE takes.                                            *)

ElementFrom(s) == CHOOSE x \in s : TRUE
Summed(f, g, s) == IF s = {} THEN 0 ELSE f[ElementFrom(s)] + g[s \ {ElementFrom(s)}]
SumFn(f) == CHOOSE g : g = [s \in SUBSET (DOMAIN f) |-> Summed(f, g, s)]

LEMMA SumDef ==
    ASSUME NEW f
    PROVE  Added(f) = SumFn(f)[DOMAIN f]
BY DEF Added, FoldFunction, FoldFunctionOnSet, MapThenFoldSet, SumFn, Summed, ElementFrom

LEMMA AnyOf ==
    ASSUME NEW S, IsFiniteSet(S), NEW s \in SUBSET S, s # {}
    PROVE  /\ ElementFrom(s) \in s
           /\ IsFiniteSet(s)
           /\ Cardinality(s) \in Nat \ {0}
           /\ Cardinality(s \ {ElementFrom(s)}) = Cardinality(s) - 1
<1>1. ElementFrom(s) \in s
  BY DEF ElementFrom
<1>2. IsFiniteSet(s)
  BY FS_Subset
<1> QED
  BY <1>1, <1>2, FS_RemoveElement, FS_EmptySet, FS_CardinalityType

\* There is such a function: it is extended to the sets with one element more.
LEMMA SumExists ==
    ASSUME NEW S, IsFiniteSet(S), NEW f
    PROVE  \E g : g = [s \in SUBSET S |-> Summed(f, g, s)]
<1> DEFINE H(n) == {s \in SUBSET S : Cardinality(s) <= n}
           P(n) == \E g : g = [s \in H(n) |-> Summed(f, g, s)]
           F == {n \in Nat : P(n)}
<1>1. P(0)
  <2> DEFINE g == [s \in H(0) |-> 0]
  <2>1. ASSUME NEW s \in H(0) PROVE s = {}
    <3>1. SUFFICES ASSUME s # {} PROVE FALSE
      OBVIOUS
    <3>2. Cardinality(s) \in Nat \ {0} /\ Cardinality(s) <= 0
      BY <3>1, AnyOf
    <3> QED
      BY <3>2
  <2>2. g = [s \in H(0) |-> Summed(f, g, s)]
    BY <2>1 DEF Summed
  <2> HIDE DEF g
  <2> QED
    BY <2>2
<1>2. ASSUME NEW n \in Nat, P(n) PROVE P(n + 1)
  <2>1. PICK g : g = [s \in H(n) |-> Summed(f, g, s)]
    BY <1>2
  <2> DEFINE h == [s \in H(n + 1) |->
                      IF s \in H(n) THEN g[s] ELSE f[ElementFrom(s)] + g[s \ {ElementFrom(s)}]]
  <2>2. ASSUME NEW s \in H(n + 1) PROVE h[s] = Summed(f, h, s)
    <3>1. CASE s = {}
      <4>1. s \in H(n)
        BY <3>1, FS_EmptySet
      <4>2. h[s] = g[s] /\ g[s] = Summed(f, g, s)
        BY <2>1, <4>1
      <4> HIDE DEF h
      <4> QED
        BY <3>1, <4>2 DEF Summed
    <3>2. CASE s # {}
      <4>1. /\ ElementFrom(s) \in s
            /\ Cardinality(s) \in Nat \ {0}
            /\ Cardinality(s \ {ElementFrom(s)}) = Cardinality(s) - 1
        BY <3>2, AnyOf
      <4>2. s \ {ElementFrom(s)} \in H(n) /\ s \ {ElementFrom(s)} \in H(n + 1)
        BY <4>1
      <4>3. h[s \ {ElementFrom(s)}] = g[s \ {ElementFrom(s)}]
        BY <4>2
      <4>4. h[s] = f[ElementFrom(s)] + g[s \ {ElementFrom(s)}]
        <5>1. CASE s \in H(n)
          <6>1. h[s] = g[s] /\ g[s] = Summed(f, g, s)
            BY <2>1, <5>1
          <6> HIDE DEF h
          <6> QED
            BY <3>2, <6>1 DEF Summed
        <5>2. CASE s \notin H(n)
          BY <5>2
        <5> QED
          BY <5>1, <5>2
      <4> HIDE DEF h
      <4> QED
        BY <3>2, <4>3, <4>4 DEF Summed
    <3> QED
      BY <3>1, <3>2
  <2>3. h = [s \in H(n + 1) |-> Summed(f, h, s)]
    BY <2>2
  <2> HIDE DEF h
  <2> QED
    BY <2>3
<1>3. Cardinality(S) \in Nat
  BY FS_CardinalityType
<1>4. H(Cardinality(S)) = SUBSET S
  BY FS_Subset
<1> HIDE DEF P
<1>5. Nat \subseteq F
  <2>1. 0 \in F /\ \A n \in Nat : n \in F => n + 1 \in F
    BY <1>1, <1>2
  <2> HIDE DEF F
  <2> QED
    BY <2>1, Numbers!SetOfNats
<1>6. P(Cardinality(S))
  BY <1>3, <1>5
<1> QED
  BY <1>4, <1>6 DEF P

LEMMA SumStep ==
    ASSUME NEW S, IsFiniteSet(S), NEW f, DOMAIN f = S
    PROVE  /\ SumFn(f)[{}] = 0
           /\ \A s \in SUBSET S :
                  s # {} => SumFn(f)[s] = f[ElementFrom(s)] + SumFn(f)[s \ {ElementFrom(s)}]
<1>1. SumFn(f) = [s \in SUBSET S |-> Summed(f, SumFn(f), s)]
  BY SumExists DEF SumFn
<1>2. \A s \in SUBSET S : SumFn(f)[s] = Summed(f, SumFn(f), s)
  BY <1>1
<1> QED
  BY <1>2 DEF Summed

\* Induction, with the set of the sets that have the property.
LEMMA SetOfSets ==
    ASSUME NEW S, IsFiniteSet(S), NEW F, {} \in F,
           \A s \in SUBSET S : s # {} /\ s \ {ElementFrom(s)} \in F => s \in F
    PROVE  SUBSET S \subseteq F
<1> DEFINE G == {n \in Nat : \A s \in SUBSET S : Cardinality(s) = n => s \in F}
<1>1. 0 \in G
  <2> SUFFICES ASSUME NEW s \in SUBSET S, Cardinality(s) = 0 PROVE s \in F
    OBVIOUS
  <2>1. s = {}
    BY AnyOf
  <2> QED
    BY <2>1
<1>2. ASSUME NEW n \in Nat, n \in G PROVE n + 1 \in G
  <2> SUFFICES ASSUME NEW s \in SUBSET S, Cardinality(s) = n + 1 PROVE s \in F
    OBVIOUS
  <2>1. s # {}
    <3>1. Cardinality({}) = 0
      BY FS_EmptySet
    <3> QED
      BY <3>1
  <2>2. Cardinality(s \ {ElementFrom(s)}) = n
    BY <2>1, AnyOf
  <2>3. s \ {ElementFrom(s)} \in F
    BY <1>2, <2>2
  <2> QED
    BY <2>1, <2>3
<1>3. Nat \subseteq G
  <2> HIDE DEF G
  <2> QED
    BY <1>1, <1>2, Numbers!SetOfNats
<1>4. ASSUME NEW s \in SUBSET S PROVE s \in F
  <2>1. Cardinality(s) \in Nat
    BY FS_Subset, FS_CardinalityType
  <2> QED
    BY <1>3, <2>1
<1> QED
  BY <1>4

\* A sum of naturals is a natural no smaller than any of them.
LEMMA SumBounds ==
    ASSUME NEW S, IsFiniteSet(S), NEW f \in [S -> Nat]
    PROVE  /\ Added(f) \in Nat
           /\ \A x \in S : f[x] <= Added(f)
           /\ (\A x \in S : f[x] = 0) => Added(f) = 0
<1> DEFINE g == SumFn(f)
           F == {s \in SUBSET S : /\ g[s] \in Nat
                                  /\ \A x \in s : f[x] <= g[s]
                                  /\ (\A x \in s : f[x] = 0) => g[s] = 0}
<1>1. /\ g[{}] = 0
      /\ \A s \in SUBSET S : s # {} => g[s] = f[ElementFrom(s)] + g[s \ {ElementFrom(s)}]
  BY SumStep
<1> HIDE DEF g
<1>2. {} \in F
  BY <1>1
<1>3. ASSUME NEW s \in SUBSET S, s # {}, s \ {ElementFrom(s)} \in F PROVE s \in F
  <2>1. ElementFrom(s) \in s
    BY <1>3, AnyOf
  <2>2. f[ElementFrom(s)] \in Nat /\ g[s \ {ElementFrom(s)}] \in Nat
    BY <1>3, <2>1
  <2>3. g[s] = f[ElementFrom(s)] + g[s \ {ElementFrom(s)}]
    BY <1>1, <1>3
  <2>4. ASSUME NEW x \in s PROVE f[x] <= g[s]
    <3>1. f[x] \in Nat
      OBVIOUS
    <3>2. CASE x = ElementFrom(s)
      BY <2>2, <2>3, <3>2
    <3>3. CASE x # ElementFrom(s)
      <4>1. f[x] <= g[s \ {ElementFrom(s)}]
        BY <1>3, <3>3
      <4> QED
        BY <2>2, <2>3, <3>1, <4>1
    <3> QED
      BY <3>2, <3>3
  <2>5. ASSUME \A x \in s : f[x] = 0 PROVE g[s] = 0
    <3>1. g[s \ {ElementFrom(s)}] = 0
      BY <1>3, <2>5
    <3> QED
      BY <2>1, <2>3, <2>5, <3>1
  <2> QED
    BY <2>2, <2>3, <2>4, <2>5
<1>4. SUBSET S \subseteq F
  <2> HIDE DEF F
  <2> QED
    BY <1>2, <1>3, SetOfSets
<1>5. S \in F
  BY <1>4
<1>6. Added(f) = g[S]
  BY SumDef DEF g
<1> QED
  BY <1>5, <1>6

DifferAt(o, f, h) == \A x \in DOMAIN f : x # o => h[x] = f[x]

\* Changing one term changes the sum by as much.
LEMMA SumChange ==
    ASSUME NEW S, IsFiniteSet(S), NEW f \in [S -> Nat], NEW h \in [S -> Nat],
           NEW o \in S, DifferAt(o, f, h)
    PROVE  Added(h) + f[o] = Added(f) + h[o]
<1> DEFINE a == SumFn(f)
           b == SumFn(h)
           F == {s \in SUBSET S : /\ a[s] \in Nat /\ b[s] \in Nat
                                  /\ o \notin s => b[s] = a[s]
                                  /\ o \in s => b[s] + f[o] = a[s] + h[o]}
<1>1. /\ a[{}] = 0
      /\ \A s \in SUBSET S : s # {} => a[s] = f[ElementFrom(s)] + a[s \ {ElementFrom(s)}]
  BY SumStep
<1>2. /\ b[{}] = 0
      /\ \A s \in SUBSET S : s # {} => b[s] = h[ElementFrom(s)] + b[s \ {ElementFrom(s)}]
  BY SumStep
<1> HIDE DEF a, b
<1>3. {} \in F
  BY <1>1, <1>2
<1>4. ASSUME NEW s \in SUBSET S, s # {}, s \ {ElementFrom(s)} \in F PROVE s \in F
  <2>1. ElementFrom(s) \in s
    BY <1>4, AnyOf
  <2>2. PICK x \in S, t \in SUBSET S : x = ElementFrom(s) /\ t = s \ {x}
    BY <2>1
  <2>3. a[s] = f[x] + a[t] /\ b[s] = h[x] + b[t]
    BY <1>1, <1>2, <1>4, <2>2
  <2>4. /\ f[x] \in Nat /\ h[x] \in Nat /\ f[o] \in Nat /\ h[o] \in Nat
        /\ a[t] \in Nat /\ b[t] \in Nat
    BY <1>4, <2>2
  <2>5. CASE x = o
    <3>1. o \notin t /\ o \in s
      BY <2>1, <2>2, <2>5
    <3>2. b[t] = a[t]
      BY <1>4, <2>2, <3>1
    <3> QED
      BY <2>3, <2>4, <2>5, <3>1, <3>2
  <2>6. CASE x # o
    <3>1. h[x] = f[x]
      BY <2>6 DEF DifferAt
    <3>2. o \in s <=> o \in t
      BY <2>2, <2>6
    <3>3. IF o \in t THEN b[t] + f[o] = a[t] + h[o] ELSE b[t] = a[t]
      BY <1>4, <2>2
    <3> QED
      BY <2>3, <2>4, <3>1, <3>2, <3>3
  <2> QED
    BY <2>5, <2>6
<1>5. SUBSET S \subseteq F
  <2> HIDE DEF F
  <2> QED
    BY <1>3, <1>4, SetOfSets
<1>6. S \in F
  BY <1>5
<1>7. Added(f) = a[S] /\ Added(h) = b[S]
  BY SumDef DEF a, b
<1> QED
  BY <1>6, <1>7
-----------------------------------------------------------------------------
(* Pages.                                                                   *)

\* How a page lies in the database: consecutive, and only its last row ends a page.
OnePage(rows) ==
    LET n == Len(rows)
    IN /\ \A i \in 1..(n - 1) : rows[i + 1] = rows[i] + 1 /\ ~EndOfPage(rows[i])
       /\ n > 0 => EndOfPage(rows[n])

LEMMA UrlsFinite == IsFiniteSet(Urls) /\ 0 \in Urls /\ Urls \subseteq Nat
<1>1. IsFiniteSet(0..(Total - 1))
  BY FS_Interval, SizesAssumption
<1>2. Urls \subseteq 0..(Total - 1)
  BY DEF Urls
<1>3. 0 % Page = 0
  BY SizesAssumption
<1> QED
  BY <1>1, <1>2, <1>3, FS_Subset, SizesAssumption DEF Urls

\* Where a page begins, how long it is and where the next one begins.
LEMMA PageOf ==
    ASSUME NEW o \in Urls
    PROVE  LET rows == PageAt(o).results
               n == Len(rows)
           IN /\ rows \in Seq(1..Total)
              /\ n \in 1..Page
              /\ n = Page \/ o + n = Total
              /\ o + n <= Total
              /\ \A i \in 1..n : rows[i] = o + i
              /\ PageAt(o).next = IF o + Page < Total THEN o + Page ELSE 0
<1> DEFINE m == IF Page <= Total - o THEN Page ELSE Total - o
<1>1. o \in Nat /\ Total - o \in Nat /\ Total - o >= 1 /\ Page \in Nat /\ Page >= 1
  BY SizesAssumption DEF Urls
<1>2. Min({Page, Total - o}) = m
  BY <1>1, MinOfTwo
<1>3. PageAt(o).results = [i \in 1..m |-> o + i]
  BY <1>2 DEF PageAt
<1>4. m \in Nat /\ 1 <= m /\ m <= Page /\ o + m <= Total /\ (m = Page \/ o + m = Total)
  <2>1. CASE Page <= Total - o
    BY <1>1, <2>1, SizesAssumption
  <2>2. CASE ~(Page <= Total - o)
    BY <1>1, <2>2, SizesAssumption
  <2> QED
    BY <2>1, <2>2
<1> HIDE DEF m
<1>5. [i \in 1..m |-> o + i] \in Seq(1..Total)
  <2>1. \A i \in 1..m : o + i \in 1..Total
    BY <1>1, <1>4, SizesAssumption
  <2> QED
    BY <1>4, <2>1
<1>6. Len([i \in 1..m |-> o + i]) = m
  BY <1>4
<1>7. PageAt(o).next = IF o + Page < Total THEN o + Page ELSE 0
  BY DEF PageAt
<1> QED
  BY <1>3, <1>4, <1>5, <1>6, <1>7

LEMMA PageEnds ==
    ASSUME NEW o \in Urls
    PROVE  /\ PageAt(o).next \in Urls
           /\ OnePage(PageAt(o).results)
           /\ PageAt(o).next > 0 => PageAt(o).next = o + Len(PageAt(o).results)
           /\ o > 0 => Page < Total
<1> DEFINE rows == PageAt(o).results
           n == Len(rows)
<1>1. /\ n \in 1..Page
      /\ n = Page \/ o + n = Total
      /\ o + n <= Total
      /\ \A i \in 1..n : rows[i] = o + i
      /\ PageAt(o).next = IF o + Page < Total THEN o + Page ELSE 0
  BY PageOf
<1>2. o \in Nat /\ o < Total /\ o % Page = 0 /\ Page \in Nat /\ Page > 0 /\ Total \in Nat
  BY SizesAssumption DEF Urls
<1>3. /\ (o + Page) % Page = 0
      /\ \A i \in 1..(Page - 1) : (o + i) % Page # 0
      /\ o > 0 => o >= Page
  BY <1>2, NextMultiple
<1> HIDE DEF rows
<1>4. PageAt(o).next \in Urls
  <2>1. CASE o + Page < Total
    BY <1>1, <1>2, <1>3, <2>1 DEF Urls
  <2>2. CASE ~(o + Page < Total)
    BY <1>1, <2>2, UrlsFinite
  <2> QED
    BY <2>1, <2>2
<1>5. OnePage(rows)
  <2>1. ASSUME NEW i \in 1..(n - 1) PROVE rows[i + 1] = rows[i] + 1 /\ ~EndOfPage(rows[i])
    <3>0. n \in Nat /\ n <= Page
      BY <1>1, <1>2
    <3>1. i \in 1..n /\ i + 1 \in 1..n /\ i \in 1..(Page - 1) /\ i < n
      <4> HIDE DEF n
      <4> QED
        BY <1>2, <3>0
    <3>2. rows[i] = o + i /\ rows[i + 1] = o + (i + 1)
      BY <1>1, <3>1
    <3>3. (o + i) % Page # 0
      BY <1>3, <3>1
    <3>4. o + i # Total
      BY <1>1, <1>2, <3>1
    <3> QED
      BY <1>2, <3>2, <3>3, <3>4 DEF EndOfPage
  <2>2. EndOfPage(rows[n])
    <3>1. rows[n] = o + n
      BY <1>1
    <3> QED
      BY <1>1, <1>3, <3>1 DEF EndOfPage
  <2> QED
    BY <2>1, <2>2 DEF OnePage
<1>6. PageAt(o).next > 0 => PageAt(o).next = o + n
  BY <1>1, <1>2
<1> QED
  BY <1>2, <1>3, <1>4, <1>5, <1>6 DEF rows
-----------------------------------------------------------------------------
(* Types.                                                                   *)

LEMMA PageTyped ==
    ASSUME NEW o \in Urls
    PROVE  /\ PageAt(o) \in Lists
           /\ [left |-> PageAt(o).results, next |-> PageAt(o).next] \in Answers
           /\ [left |-> <<>>, next |-> 0] \in Answers
<1>1. PageAt(o).results \in Seq(1..Total) /\ PageAt(o).next \in Urls
  BY PageOf, PageEnds
<1>2. PageAt(o) = [results |-> PageAt(o).results, next |-> PageAt(o).next]
  BY DEF PageAt
<1> QED
  BY <1>1, <1>2, UrlsFinite DEF Lists, Answers

\* How many answers are under way, before and after a step.
LEMMA UnderWayCount ==
    ASSUME open \in [Urls -> Nat]
    PROVE  /\ UnderWay \in Nat
           /\ \A o \in Urls : open[o] <= UnderWay
           /\ handler # Idle => \A o \in Urls : open[o] + 1 <= UnderWay
           /\ UnderWay = 0 => handler = Idle /\ \A o \in Urls : open[o] = 0
<1>1. /\ Added(open) \in Nat
      /\ \A o \in Urls : open[o] <= Added(open)
  BY UrlsFinite, SumBounds
<1>2. \A o \in Urls : open[o] \in Nat
  OBVIOUS
<1> DEFINE sum == Added(open)
<1>3. UnderWay = sum + (IF handler = Idle THEN 0 ELSE 1)
  BY DEF UnderWay
<1> HIDE DEF sum
<1>4. sum \in Nat /\ \A o \in Urls : open[o] <= sum
  BY <1>1 DEF sum
<1>5. UnderWay = IF handler = Idle THEN sum ELSE sum + 1
  BY <1>3, <1>4
<1>6. ASSUME UnderWay = 0 PROVE handler = Idle /\ sum = 0
  BY <1>4, <1>5, <1>6
<1>7. ASSUME NEW o \in Urls
      PROVE  open[o] <= UnderWay /\ (handler # Idle => open[o] + 1 <= UnderWay)
             /\ (UnderWay = 0 => open[o] = 0)
  BY <1>2, <1>4, <1>5, <1>6
<1> QED
  BY <1>4, <1>5, <1>6, <1>7

LEMMA UnderWayChange ==
    ASSUME open \in [Urls -> Nat], open' \in [Urls -> Nat], NEW o \in Urls,
           \A u \in Urls : u # o => open'[u] = open[u]
    PROVE  /\ UnderWay' \in Nat
           /\ \A u \in Urls :
                  open'[u] + (IF handler' = Idle THEN 0 ELSE 1) <= UnderWay'
           /\ UnderWay' = (UnderWay + open'[o] + (IF handler' = Idle THEN 0 ELSE 1))
                              - (open[o] + (IF handler = Idle THEN 0 ELSE 1))
<1> DEFINE p == IF handler = Idle THEN 0 ELSE 1
           q == IF handler' = Idle THEN 0 ELSE 1
<1>1. PICK f, h : f = open /\ h = open'
  OBVIOUS
<1>2. p \in 0..1 /\ q \in 0..1
  OBVIOUS
<1>3. f \in [Urls -> Nat] /\ h \in [Urls -> Nat] /\ DifferAt(o, f, h)
  BY <1>1 DEF DifferAt
<1>4. /\ Added(f) \in Nat
      /\ Added(h) \in Nat
      /\ \A u \in Urls : h[u] <= Added(h)
  BY <1>3, UrlsFinite, SumBounds
<1>5. Added(h) + f[o] = Added(f) + h[o]
  <2>1. IsFiniteSet(Urls)
    BY UrlsFinite
  <2>2. ASSUME NEW a \in [Urls -> Nat], NEW b \in [Urls -> Nat], DifferAt(o, a, b)
        PROVE  Added(b) + a[o] = Added(a) + b[o]
    BY <2>1, <2>2, SumChange
  <2> QED
    BY <1>3, <2>2
<1>6. UnderWay = Added(f) + p /\ UnderWay' = Added(h) + q
  <2>1. UnderWay = Added(open) + p /\ UnderWay' = Added(open') + q
    BY DEF UnderWay
  <2> QED
    BY <1>1, <2>1
<1>7. \A u \in Urls : f[u] \in Nat /\ h[u] \in Nat
  BY <1>3
<1>8. PICK a \in Nat, b \in Nat : a = Added(f) /\ b = Added(h)
  BY <1>4
<1> HIDE DEF p, q
<1>9. /\ UnderWay' \in Nat
      /\ \A u \in Urls : h[u] + q <= UnderWay'
      /\ UnderWay' = (UnderWay + h[o] + q) - (f[o] + p)
  <2>1. UnderWay = a + p /\ UnderWay' = b + q
    BY <1>6, <1>8
  <2>2. b + f[o] = a + h[o] /\ \A u \in Urls : h[u] <= b
    BY <1>4, <1>5, <1>8
  <2>3. f[o] \in Nat /\ h[o] \in Nat
    BY <1>7
  <2> QED
    BY <1>2, <1>7, <2>1, <2>2, <2>3
<1> QED
  BY <1>1, <1>9 DEF p, q


LEMMA TypeInit == Init => TypeOK
<1> SUFFICES ASSUME Init PROVE TypeOK
  OBVIOUS
<1>1. open \in [Urls -> Nat] /\ \A o \in Urls : open[o] = 0
  BY DEF Init
<1>2. Added(open) = 0
  BY <1>1, UrlsFinite, SumBounds
<1>3. UnderWay = 0
  BY <1>2 DEF Init, UnderWay
<1>4. open \in [Urls -> 0..MaxOpen]
  BY SizesAssumption DEF Init
<1>5. isLoading = (block # "idle")
  BY DEF Init
<1>6. UnderWay <= MaxOpen
  BY <1>3, SizesAssumption
<1> QED
  BY <1>4, <1>5, <1>6, SizesAssumption DEF Init, TypeOK

\* Appending a row keeps the list a list.
LEMMA RowAppended ==
    ASSUME NEW l \in Lists, NEW x \in 1..Total
    PROVE  /\ [l EXCEPT !.results = Append(@, x)] \in Lists
           /\ [l EXCEPT !.results = Append(@, x)].results = Append(l.results, x)
           /\ [l EXCEPT !.results = Append(@, x)].next = l.next
           /\ Len(Append(l.results, x)) = Len(l.results) + 1
           /\ Append(l.results, x)[Len(l.results) + 1] = x
           /\ \A i \in 1..Len(l.results) : Append(l.results, x)[i] = l.results[i]
<1>1. l.results \in Seq(1..Total) /\ l.next \in Urls
  BY DEF Lists
<1>2. /\ Append(l.results, x) \in Seq(1..Total)
      /\ Len(Append(l.results, x)) = Len(l.results) + 1
      /\ Append(l.results, x)[Len(l.results) + 1] = x
      /\ \A i \in 1..Len(l.results) : Append(l.results, x)[i] = l.results[i]
  BY <1>1
<1>3. [l EXCEPT !.results = Append(@, x)] \in Lists
  BY <1>1, <1>2 DEF Lists
<1>4. /\ [l EXCEPT !.results = Append(@, x)].results = Append(l.results, x)
      /\ [l EXCEPT !.results = Append(@, x)].next = l.next
  BY DEF Lists
<1> QED
  BY <1>2, <1>3, <1>4

LEMMA ElementOf ==
    ASSUME NEW S, NEW s \in Seq(S), NEW i \in 1..Len(s)
    PROVE  s[i] \in S
OBVIOUS

LEMMA TailOf ==
    ASSUME NEW S, NEW s \in Seq(S), s # <<>>
    PROVE  /\ Head(s) = s[1]
           /\ Head(s) \in S
           /\ Len(s) \in Nat \ {0}
           /\ Tail(s) \in Seq(S)
           /\ Len(Tail(s)) = Len(s) - 1
           /\ \A i \in 1..(Len(s) - 1) : Tail(s)[i] = s[i + 1]
OBVIOUS

\* What is left of an answer is an answer.
LEMMA RowTaken ==
    ASSUME NEW a \in Answers, a.left # <<>>
    PROVE  /\ [a EXCEPT !.left = Tail(@)] \in Answers
           /\ [a EXCEPT !.left = Tail(@)].left = Tail(a.left)
           /\ [a EXCEPT !.left = Tail(@)].next = a.next
           /\ Head(a.left) = a.left[1]
           /\ Head(a.left) \in 1..Total
           /\ Len(a.left) \in Nat \ {0}
           /\ Len(Tail(a.left)) = Len(a.left) - 1
           /\ \A i \in 1..(Len(a.left) - 1) : Tail(a.left)[i] = a.left[i + 1]
<1>1. a.left \in Seq(1..Total) /\ a.next \in Urls
  BY DEF Answers
<1>2. /\ Head(a.left) = a.left[1]
      /\ Head(a.left) \in 1..Total
      /\ Len(a.left) \in Nat \ {0}
      /\ Tail(a.left) \in Seq(1..Total)
      /\ Len(Tail(a.left)) = Len(a.left) - 1
      /\ \A i \in 1..(Len(a.left) - 1) : Tail(a.left)[i] = a.left[i + 1]
  BY <1>1, TailOf
<1>3. [a EXCEPT !.left = Tail(@)] \in Answers
  BY <1>1, <1>2 DEF Answers
<1>4. /\ [a EXCEPT !.left = Tail(@)].left = Tail(a.left)
      /\ [a EXCEPT !.left = Tail(@)].next = a.next
  BY DEF Answers
<1> QED
  BY <1>2, <1>3, <1>4

\* The steps that ask, answer or store change the number of answers under way by one.
LEMMA TypeAsk ==
    ASSUME TypeOK, LoadingBlock
    PROVE  TypeOK'
<1>1. open \in [Urls -> Nat] /\ nextURL \in Urls
  BY UrlsFinite DEF TypeOK, nextURL, Lists
<1>2. PICK u \in Urls : u = nextURL
  BY <1>1
<1>3. open' = [open EXCEPT ![u] = @ + 1] /\ UNCHANGED handler
  BY <1>2 DEF LoadingBlock
<1>4. /\ open' \in [Urls -> Nat]
      /\ open'[u] = open[u] + 1
      /\ \A v \in Urls : v # u => open'[v] = open[v]
  BY <1>1, <1>3
<1>5. /\ UnderWay' \in Nat
      /\ \A v \in Urls : open'[v] + (IF handler' = Idle THEN 0 ELSE 1) <= UnderWay'
      /\ UnderWay' = UnderWay + 1
  <2>1. open[u] \in Nat /\ UnderWay \in Nat
    BY <1>1, UnderWayCount
  <2> QED
    BY <1>1, <1>3, <1>4, <2>1, UnderWayChange
<1>6. UnderWay' <= MaxOpen
  <2>1. UnderWay \in Nat /\ UnderWay < MaxOpen
    BY <1>1, UnderWayCount DEF LoadingBlock
  <2> QED
    BY <1>5, <2>1, SizesAssumption
<1>7. open' \in [Urls -> 0..MaxOpen]
  <2>1. \A v \in Urls : open'[v] \in 0..MaxOpen
    BY <1>4, <1>5, <1>6, SizesAssumption
  <2> QED
    BY <1>4, <2>1
<1>8. isLoading' = (block' # "idle")
  BY DEF TypeOK, LoadingBlock
<1> QED
  BY <1>6, <1>7, <1>8 DEF TypeOK, LoadingBlock, table

LEMMA TypeAnswered ==
    ASSUME TypeOK, NEW u \in Urls, open[u] > 0, handler = Idle,
           open' = [open EXCEPT ![u] = @ - 1]
    PROVE  open' \in [Urls -> 0..MaxOpen] /\ UnderWay' <= MaxOpen
<1>1. open \in [Urls -> Nat] /\ open[u] - 1 \in Nat
  BY DEF TypeOK
<1>2. /\ open' \in [Urls -> Nat]
      /\ open'[u] = open[u] - 1
      /\ \A v \in Urls : v # u => open'[v] = open[v]
  BY <1>1
<1>3. UnderWay \in Nat /\ UnderWay <= MaxOpen /\ open[u] \in Nat
  BY <1>1, UnderWayCount DEF TypeOK
<1>4. UnderWay' \in Nat /\ UnderWay' <= UnderWay
  <2>1. /\ UnderWay' \in Nat
        /\ UnderWay' = (UnderWay + open'[u] + (IF handler' = Idle THEN 0 ELSE 1)) - (open[u] + 0)
    BY <1>1, <1>2, UnderWayChange
  <2>2. CASE handler' = Idle
    BY <1>2, <1>3, <2>1, <2>2
  <2>3. CASE handler' # Idle
    BY <1>2, <1>3, <2>1, <2>3
  <2> QED
    BY <2>2, <2>3
<1>5. ASSUME NEW v \in Urls PROVE open'[v] \in 0..MaxOpen
  <2>1. open[v] \in 0..MaxOpen /\ open[u] \in 0..MaxOpen
    BY DEF TypeOK
  <2>2. CASE v = u
    BY <1>1, <1>2, <2>1, <2>2, SizesAssumption
  <2>3. CASE v # u
    BY <1>2, <2>1, <2>3
  <2> QED
    BY <2>2, <2>3
<1> QED
  BY <1>2, <1>3, <1>4, <1>5, SizesAssumption

\* The steps that neither ask nor answer.
LEMMA TypeQuiet ==
    ASSUME TypeOK,
           \/ \E ok \in BOOLEAN : FirstAnswer(ok)
           \/ FirstReload
           \/ LoadMoreData
           \/ Reload
           \/ \E r \in 1..shown : DrawRow(r)
           \/ SelectRow
           \/ UNCHANGED vars
    PROVE  TypeOK'
<1>1. ASSUME UNCHANGED <<open, handler>> PROVE UnderWay' = UnderWay
  BY <1>1 DEF UnderWay
<1>2. numberOfRows \in Nat
  BY DEF TypeOK, numberOfRows, Lists
<1>3. ASSUME NEW ok \in BOOLEAN, FirstAnswer(ok) PROVE TypeOK'
  <2>1. PageAt(0) \in Lists
    BY UrlsFinite, PageTyped
  <2>2. list' \in Lists \cup {NoList} /\ calm' \in BOOLEAN
    BY <1>3, <2>1 DEF FirstAnswer, TypeOK
  <2>3. isLoading' = (block' # "idle")
    BY <1>3 DEF FirstAnswer, TypeOK
  <2> QED
    BY <1>1, <1>3, <2>2, <2>3 DEF FirstAnswer, TypeOK, table
<1>4. ASSUME FirstReload PROVE TypeOK'
  <2>1. isLoading' = (block' # "idle")
    BY <1>4 DEF FirstReload, TypeOK
  <2> QED
    BY <1>1, <1>2, <1>4, <2>1 DEF FirstReload, TypeOK
<1>5. ASSUME LoadMoreData PROVE TypeOK'
  <2>1. isLoading' = (block' # "idle") /\ calm' \in BOOLEAN
    BY <1>5 DEF LoadMoreData, TypeOK
  <2> QED
    BY <1>1, <1>5, <2>1 DEF LoadMoreData, TypeOK, table
<1>6. ASSUME Reload PROVE TypeOK'
  <2>1. isLoading' = (block' # "idle")
    BY <1>6 DEF Reload
  <2> QED
    BY <1>1, <1>2, <1>6, <2>1 DEF Reload, TypeOK
<1>7. ASSUME NEW r \in 1..shown, DrawRow(r) PROVE TypeOK'
  <2>1. isLoading' = (block' # "idle")
    BY <1>7 DEF DrawRow, TypeOK
  <2>2. cell' \in Cells \cup {NoCell}
    <3>1. CASE OutOfRange(r)
      BY <1>7, <3>1 DEF DrawRow, TypeOK
    <3>2. CASE ~OutOfRange(r)
      <4>1. r \in Nat \ {0}
        BY DEF TypeOK
      <4>2. (IF list = NoList THEN 0 ELSE list.results[r]) \in 0..Total
        <5>1. CASE list = NoList
          BY <5>1, SizesAssumption
        <5>2. CASE list # NoList
          <6>1. list.results \in Seq(1..Total)
            BY <5>2 DEF TypeOK, Lists
          <6>2. r \in 1..Len(list.results)
            BY <3>2, <4>1, <5>2, <6>1 DEF OutOfRange
          <6>3. list.results[r] \in 1..Total
            BY <6>1, <6>2, ElementOf
          <6> QED
            BY <5>2, <6>3, SizesAssumption
        <5> QED
          BY <5>1, <5>2
      <4> QED
        BY <1>7, <3>2, <4>1, <4>2 DEF DrawRow, Cells
    <3> QED
      BY <3>1, <3>2
  <2>3. screen' \in {"open", "chosen", "crashed"}
    BY <1>7 DEF DrawRow, TypeOK
  <2> QED
    BY <1>1, <1>7, <2>1, <2>2, <2>3 DEF DrawRow, TypeOK
<1>8. ASSUME SelectRow PROVE TypeOK'
  <2>1. isLoading' = (block' # "idle")
    BY <1>8 DEF SelectRow, TypeOK
  <2>2. sent' \in 0..Total
    <3>1. cell.row \in Nat \ {0}
      BY <1>8 DEF SelectRow, TypeOK, Cells
    <3>2. CASE OutOfRange(cell.row)
      BY <1>8, <3>2 DEF SelectRow, TypeOK
    <3>3. CASE ~OutOfRange(cell.row) /\ list # NoList
      <4>1. list.results \in Seq(1..Total)
        BY <3>3 DEF TypeOK, Lists
      <4>2. cell.row \in 1..Len(list.results)
        BY <3>1, <3>3, <4>1 DEF OutOfRange
      <4>3. list.results[cell.row] \in 1..Total
        BY <4>1, <4>2, ElementOf
      <4> QED
        BY <1>8, <3>3, <4>3, SizesAssumption DEF SelectRow
    <3>4. CASE ~OutOfRange(cell.row) /\ list = NoList
      BY <1>8, <3>4, SizesAssumption DEF SelectRow
    <3> QED
      BY <3>2, <3>3, <3>4
  <2>3. screen' \in {"open", "chosen", "crashed"}
    BY <1>8 DEF SelectRow, TypeOK
  <2> QED
    BY <1>1, <1>8, <2>1, <2>2, <2>3 DEF SelectRow, TypeOK
<1>9. ASSUME UNCHANGED vars PROVE TypeOK'
  <2>1. isLoading' = (block' # "idle")
    BY <1>9 DEF vars, TypeOK
  <2> QED
    BY <1>1, <1>9, <2>1 DEF vars, table, TypeOK
<1> QED
  BY <1>3, <1>4, <1>5, <1>6, <1>7, <1>8, <1>9

LEMMA TypeFlow ==
    ASSUME TypeOK,
           \/ \E ok \in BOOLEAN : AnswerFirstPage(ok)
           \/ \E o \in Urls, ok \in BOOLEAN : AnswerPage(o, ok)
           \/ AppendRow
           \/ StoreNext
    PROVE  TypeOK'
<1>1. ASSUME NEW ok \in BOOLEAN, AnswerFirstPage(ok) PROVE TypeOK'
  <2>1. 0 \in Urls /\ PageAt(0) \in Lists
    BY UrlsFinite, PageTyped
  <2>2. open' \in [Urls -> 0..MaxOpen] /\ UnderWay' <= MaxOpen
    BY <1>1, <2>1, TypeAnswered DEF AnswerFirstPage
  <2>3. list' \in Lists \cup {NoList} /\ calm' \in BOOLEAN
    BY <1>1, <2>1 DEF AnswerFirstPage, TypeOK
  <2>4. isLoading' = (block' # "idle")
    BY <1>1 DEF AnswerFirstPage, TypeOK
  <2> QED
    BY <1>1, <2>2, <2>3, <2>4 DEF AnswerFirstPage, TypeOK, table
<1>2. ASSUME NEW o \in Urls, NEW ok \in BOOLEAN, AnswerPage(o, ok) PROVE TypeOK'
  <2>1. open' \in [Urls -> 0..MaxOpen] /\ UnderWay' <= MaxOpen
    BY <1>2, TypeAnswered DEF AnswerPage
  <2>2. handler' \in Answers
    BY <1>2, PageTyped DEF AnswerPage
  <2>3. isLoading' = (block' # "idle") /\ calm' \in BOOLEAN
    BY <1>2 DEF AnswerPage, TypeOK
  <2> QED
    BY <1>2, <2>1, <2>2, <2>3 DEF AnswerPage, TypeOK, table
<1>3. open \in [Urls -> Nat] /\ UnderWay \in Nat /\ Added(open) \in Nat
  <2>1. open \in [Urls -> Nat]
    BY DEF TypeOK
  <2> QED
    BY <2>1, UnderWayCount, UrlsFinite, SumBounds
<1>4. ASSUME handler # Idle, UNCHANGED open PROVE UnderWay' <= UnderWay
  <2>1. UnderWay = Added(open) + 1
    BY <1>4 DEF UnderWay
  <2>2. UnderWay' = Added(open) + (IF handler' = Idle THEN 0 ELSE 1)
    BY <1>4 DEF UnderWay
  <2> QED
    BY <1>3, <2>1, <2>2
<1>5. MaxOpen \in Nat
  BY SizesAssumption
<1>6. ASSUME AppendRow PROVE TypeOK'
  <2>1. handler \in Answers /\ handler.left # <<>>
    BY <1>6 DEF AppendRow, TypeOK
  <2>2. handler' \in Answers /\ Head(handler.left) \in 1..Total
    BY <1>6, <2>1, RowTaken DEF AppendRow
  <2>3. list' \in Lists \cup {NoList}
    <3>1. CASE list = NoList
      BY <1>6, <3>1 DEF AppendRow
    <3>2. CASE list \in Lists
      BY <1>6, <2>2, <3>2, RowAppended DEF AppendRow
    <3> QED
      BY <3>1, <3>2 DEF TypeOK
  <2>4. isLoading' = (block' # "idle")
    BY <1>6 DEF AppendRow, TypeOK
  <2>5. UnderWay' \in Nat /\ UnderWay' <= MaxOpen
    <3>1. UnderWay' = Added(open) + (IF handler' = Idle THEN 0 ELSE 1)
      BY <1>6 DEF AppendRow, UnderWay
    <3>2. UnderWay' \in Nat
      BY <1>3, <3>1
    <3>3. UnderWay' <= UnderWay /\ UnderWay <= MaxOpen
      BY <1>4, <1>6 DEF AppendRow, TypeOK
    <3> QED
      BY <1>3, <1>5, <3>2, <3>3
  <2> QED
    BY <1>6, <2>2, <2>3, <2>4, <2>5 DEF AppendRow, TypeOK, table
<1>7. ASSUME StoreNext PROVE TypeOK'
  <2>1. list' \in Lists \cup {NoList}
    <3>1. CASE list = NoList
      BY <1>7, <3>1 DEF StoreNext
    <3>2. CASE list \in Lists
      <4>1. handler.next \in Urls
        BY <1>7 DEF StoreNext, TypeOK, Answers
      <4> QED
        BY <1>7, <3>2, <4>1 DEF StoreNext, Lists
    <3> QED
      BY <3>1, <3>2 DEF TypeOK
  <2>2. isLoading' = (block' # "idle")
    BY <1>7 DEF StoreNext, TypeOK
  <2>3. UnderWay' \in Nat /\ UnderWay' <= MaxOpen
    <3>1. UnderWay' = Added(open) + (IF handler' = Idle THEN 0 ELSE 1)
      BY <1>7 DEF StoreNext, UnderWay
    <3>2. UnderWay' \in Nat
      BY <1>3, <3>1
    <3>3. UnderWay' <= UnderWay /\ UnderWay <= MaxOpen
      BY <1>4, <1>7 DEF StoreNext, TypeOK
    <3> QED
      BY <1>3, <1>5, <3>2, <3>3
  <2> QED
    BY <1>7, <2>1, <2>2, <2>3 DEF StoreNext, TypeOK, table
<1> QED
  BY <1>1, <1>2, <1>6, <1>7

LEMMA TypeStep == TypeOK /\ [Next]_vars => TypeOK'
<1> SUFFICES ASSUME TypeOK, [Next]_vars PROVE TypeOK'
  OBVIOUS
<1> QED
  BY TypeAsk, TypeQuiet, TypeFlow DEF Next

\* Whatever the pace, the variables keep their types, the flag of the loading block says
\* what the block does, and no more answers are under way than may be.
THEOREM TypeCorrect == Spec => []TypeOK
<1>1. Init => TypeOK
  BY TypeInit
<1>2. TypeOK /\ [Next]_vars => TypeOK'
  BY TypeStep
<1> QED
  BY <1>1, <1>2, PTL DEF Spec
-----------------------------------------------------------------------------
(* Whole pages, at any pace.                                                *)

\* An answer whose rows are being appended.
Appending == handler # Idle /\ handler.left # <<>>

\* The list begins with the first page, whole.
Begins ==
    list # NoList =>
        /\ Len(list.results) >= Page \/ Len(list.results) >= Total
        /\ \A i \in 1..Len(list.results) : i <= Page => list.results[i] = i

\* Only the answer for a later page is handled row by row.
Later == handler # Idle => Page < Total /\ OnePage(handler.left)

\* The next row to append begins a page or goes on with the page the list ends in.
Seam ==
    list # NoList =>
        LET last == list.results[Len(list.results)]
        IN IF Appending
           THEN IF EndOfPage(last) THEN Head(handler.left) - 1 \in Urls
                                   ELSE Head(handler.left) = last + 1
           ELSE EndOfPage(last)

\* The same between any two rows of the list.
Pages ==
    list # NoList =>
        \A i \in 1..(Len(list.results) - 1) :
            IF EndOfPage(list.results[i]) THEN list.results[i + 1] - 1 \in Urls
                                          ELSE list.results[i + 1] = list.results[i] + 1

\* The URL of the next page, stored or still to be stored, follows a row of the list or
\* one still to be appended.
Listed(x) == \E i \in 1..Len(list.results) : list.results[i] = x
ToCome(x) == \E j \in 1..Len(handler.left) : handler.left[j] = x

Ahead ==
    list # NoList =>
        /\ list.next > 0 => Listed(list.next)
        /\ handler # Idle /\ handler.next > 0 => Listed(handler.next) \/ ToCome(handler.next)

ListInv == Begins /\ Later /\ Seam /\ Pages /\ Ahead

\* Nothing happens before the first page is there.
Before ==
    first # "ready" => /\ \A o \in Urls : open[o] = 0
                       /\ handler = Idle
                       /\ block = "idle"
                       /\ cell = NoCell

\* A row of the first page that has a name is the pokemon of that number, and no name is
\* handed over before a row is selected.
Drawn ==
    /\ cell # NoCell /\ cell.name # 0 /\ cell.row <= Page => cell.name = cell.row
    /\ screen = "open" => sent = 0

PagesInv == TypeOK /\ ListInv /\ Before /\ Drawn

\* The list is replaced while no answer is being handled.
LEMMA ListReplaced ==
    ASSUME NEW ok \in BOOLEAN, list' = (IF ok THEN PageAt(0) ELSE NoList), handler' = Idle
    PROVE  ListInv'
<1> DEFINE rows == PageAt(0).results
           n == Len(rows)
<1>1. /\ rows \in Seq(1..Total)
      /\ n \in 1..Page
      /\ n = Page \/ 0 + n = Total
      /\ 0 + n <= Total
      /\ \A i \in 1..n : rows[i] = 0 + i
      /\ PageAt(0).next = IF 0 + Page < Total THEN 0 + Page ELSE 0
  BY UrlsFinite, PageOf
<1>2. /\ OnePage(rows)
      /\ PageAt(0).next > 0 => PageAt(0).next = 0 + n
  BY UrlsFinite, PageEnds
<1>3. Page \in Nat /\ Total \in Nat /\ n \in Nat /\ n >= 1
  BY <1>1, SizesAssumption
<1>4. /\ \A i \in 1..n : rows[i] = i
      /\ \A i \in 1..(n - 1) : rows[i + 1] = rows[i] + 1 /\ ~EndOfPage(rows[i])
      /\ EndOfPage(rows[n])
      /\ PageAt(0).next > 0 => PageAt(0).next = n
  BY <1>1, <1>2, <1>3 DEF OnePage
<1>5. ASSUME list' = PageAt(0) PROVE ListInv'
  <2>1. list'.results = rows /\ list'.next = PageAt(0).next
    BY <1>5
  <2> HIDE DEF rows
  <2>2. Begins'
    BY <1>1, <1>3, <1>4, <2>1 DEF Begins
  <2>3. Later' /\ Seam'
    BY <1>4, <2>1 DEF Later, Seam, Appending
  <2>4. Pages'
    BY <1>4, <2>1 DEF Pages
  <2>5. Ahead'
    BY <1>3, <1>4, <2>1 DEF Ahead, Listed
  <2> QED
    BY <2>2, <2>3, <2>4, <2>5 DEF ListInv
<1>6. ASSUME list' = NoList PROVE ListInv'
  BY <1>6 DEF ListInv, Begins, Later, Seam, Pages, Ahead
<1> QED
  BY <1>5, <1>6

LEMMA ListAnswer ==
    ASSUME TypeOK, ListInv, NEW o \in Urls, NEW ok \in BOOLEAN, AnswerPage(o, ok)
    PROVE  ListInv'
<1>1. handler = Idle /\ list' = list /\ handler' \in Answers /\ handler' # Idle
  BY PageTyped, NilAssumption DEF AnswerPage
<1>2. Page < Total
  BY PageEnds DEF AnswerPage
<1>3. Begins' /\ Pages'
  BY <1>1 DEF ListInv, Begins, Pages
<1>4. list # NoList => EndOfPage(list.results[Len(list.results)])
  BY <1>1 DEF ListInv, Seam, Appending
<1>5. CASE ok
  <2> DEFINE rows == PageAt(o).results
  <2>1. handler'.left = rows /\ handler'.next = PageAt(o).next
    BY <1>5 DEF AnswerPage
  <2>2. rows \in Seq(1..Total) /\ Len(rows) >= 1 /\ rows[1] = o + 1
    BY SizesAssumption, PageOf
  <2>3. rows[Len(rows)] = o + Len(rows) /\ Len(rows) \in 1..Len(rows)
    BY <2>2, PageOf
  <2>4. OnePage(rows) /\ (PageAt(o).next > 0 => PageAt(o).next = o + Len(rows))
    BY PageEnds
  <2>5. rows # <<>> /\ Head(rows) - 1 = o
    <3>1. rows # <<>> /\ Head(rows) = rows[1]
      BY <2>2
    <3> QED
      BY <2>2, <3>1, UrlsFinite
  <2> HIDE DEF rows
  <2>6. Later'
    BY <1>2, <2>1, <2>4 DEF Later
  <2>7. Seam'
    BY <1>1, <1>4, <2>1, <2>5 DEF Seam, Appending
  <2>8. Ahead'
    <3>1. PageAt(o).next > 0 => ToCome(PageAt(o).next)'
      BY <2>1, <2>3, <2>4 DEF ToCome
    <3> QED
      BY <1>1, <2>1, <3>1 DEF ListInv, Ahead, Listed
  <2> QED
    BY <1>3, <2>6, <2>7, <2>8 DEF ListInv
<1>6. CASE ~ok
  <2>1. handler'.left = <<>> /\ handler'.next = 0
    BY <1>6 DEF AnswerPage
  <2>2. OnePage(<<>>)
    BY DEF OnePage
  <2>3. Later' /\ Seam'
    BY <1>1, <1>2, <1>4, <2>1, <2>2 DEF Later, Seam, Appending
  <2>4. Ahead'
    BY <1>1, <2>1 DEF ListInv, Ahead, Listed
  <2> QED
    BY <1>3, <2>3, <2>4 DEF ListInv
<1> QED
  BY <1>5, <1>6

LEMMA ListStore ==
    ASSUME TypeOK, ListInv, StoreNext
    PROVE  ListInv'
<1>1. handler # Idle /\ handler.left = <<>> /\ handler' = Idle
  BY DEF StoreNext
<1>2. ASSUME list # NoList
      PROVE  list'.results = list.results /\ list'.next = handler.next /\ list' # NoList
  <2>1. list \in Lists /\ handler \in Answers
    BY <1>1, <1>2 DEF TypeOK
  <2>2. list' = [list EXCEPT !.next = handler.next]
    BY <1>2 DEF StoreNext
  <2>3. list' \in Lists
    BY <2>1, <2>2 DEF Lists, Answers
  <2> QED
    BY <2>1, <2>2, <2>3, NilAssumption DEF Lists
<1>3. list = NoList => list' = NoList
  BY DEF StoreNext
<1>4. Begins' /\ Pages'
  BY <1>2, <1>3 DEF ListInv, Begins, Pages
<1>5. Later' /\ Seam'
  BY <1>1, <1>2, <1>3 DEF ListInv, Later, Seam, Appending
<1>6. Ahead'
  <2>1. ~ToCome(handler.next)
    BY <1>1 DEF ToCome
  <2> QED
    BY <1>1, <1>2, <1>3, <2>1 DEF ListInv, Ahead, Listed
<1> QED
  BY <1>4, <1>5, <1>6 DEF ListInv

LEMMA ListAppend ==
    ASSUME TypeOK, ListInv, AppendRow
    PROVE  ListInv'
<1> DEFINE x == Head(handler.left)
           n == Len(list.results)
           k == Len(handler.left)
<1>1. handler # Idle /\ handler \in Answers /\ handler.left # <<>>
  BY DEF AppendRow, TypeOK
<1>2. /\ handler' \in Answers
      /\ handler'.left = Tail(handler.left)
      /\ handler'.next = handler.next
      /\ x = handler.left[1]
      /\ x \in 1..Total
      /\ k \in Nat \ {0}
      /\ Len(handler'.left) = k - 1
      /\ \A i \in 1..(k - 1) : handler'.left[i] = handler.left[i + 1]
  BY <1>1, RowTaken DEF AppendRow
<1>3. Page < Total /\ OnePage(handler.left)
  BY <1>1 DEF ListInv, Later
<1>4. handler' # Idle
  BY <1>2, NilAssumption
<1>9. EndOfPage(handler.left[k])
  BY <1>2, <1>3 DEF OnePage
<1> HIDE DEF x, k
<1>5. OnePage(handler'.left)
  <2>1. ASSUME NEW i \in 1..(Len(handler'.left) - 1)
        PROVE  /\ handler'.left[i + 1] = handler'.left[i] + 1
               /\ ~EndOfPage(handler'.left[i])
    <3>1. i \in 1..(k - 1) /\ i + 1 \in 1..(k - 1)
      BY <1>2
    <3>2. handler'.left[i] = handler.left[i + 1] /\ handler'.left[i + 1] = handler.left[(i + 1) + 1]
      BY <1>2, <3>1
    <3> QED
      BY <1>3, <3>1, <3>2 DEF OnePage, k
  <2>2. ASSUME k - 1 > 0 PROVE EndOfPage(handler'.left[k - 1])
    <3>1. handler'.left[k - 1] = handler.left[k]
      BY <1>2, <2>2
    <3> QED
      BY <1>9, <3>1
  <2> QED
    BY <1>2, <2>1, <2>2 DEF OnePage
<1>6. Later'
  BY <1>3, <1>5 DEF Later
<1>7. CASE list = NoList
  <2>1. list' = NoList
    BY <1>7 DEF AppendRow
  <2> QED
    BY <1>6, <2>1 DEF ListInv, Begins, Seam, Pages, Ahead
<1>8. CASE list # NoList
  <2>1. list \in Lists
    BY <1>8 DEF TypeOK
  <2>2. list' = [list EXCEPT !.results = Append(@, x)]
    BY <1>8 DEF AppendRow, x
  <2>3. /\ n \in Nat
        /\ Len(list'.results) = n + 1
        /\ list'.results[n + 1] = x
        /\ \A i \in 1..n : list'.results[i] = list.results[i]
        /\ list'.next = list.next
    <3>1. n \in Nat
      BY <2>1 DEF Lists
    <3> HIDE DEF n
    <3> QED
      BY <1>2, <2>1, <2>2, <3>1, RowAppended DEF n
  <2>4. Page \in Nat /\ Total \in Nat
    BY SizesAssumption
  <2>5. (n >= Page \/ n >= Total) /\ \A i \in 1..n : i <= Page => list.results[i] = i
    BY <1>8 DEF ListInv, Begins
  <2>6. IF EndOfPage(list.results[n]) THEN x - 1 \in Urls ELSE x = list.results[n] + 1
    BY <1>1, <1>8 DEF ListInv, Seam, Appending, x
  <2>7. n >= 1
    BY <2>3, <2>4, <2>5, SizesAssumption
  <2> HIDE DEF n
  <2>8. Begins'
    BY <1>3, <2>3, <2>4, <2>5 DEF Begins
  <2>9. Seam'
    <3>1. CASE k = 1
      <4>1. handler'.left = <<>> /\ EndOfPage(x)
        <5>1. handler'.left \in Seq(1..Total)
          BY <1>2 DEF Answers
        <5>2. Len(handler'.left) = 0
          BY <1>2, <3>1
        <5>3. handler'.left = <<>>
          BY <5>1, <5>2
        <5>4. x = handler.left[k]
          BY <1>2, <3>1
        <5> QED
          BY <1>9, <5>3, <5>4
      <4> QED
        BY <2>3, <4>1 DEF Seam, Appending
    <3>2. CASE k # 1
      <4>1. k - 1 >= 1 /\ 1 \in 1..(k - 1)
        BY <1>2, <3>2
      <4>2. handler'.left # <<>> /\ Head(handler'.left) = handler.left[1 + 1]
        <5>1. handler'.left \in Seq(1..Total)
          BY <1>2 DEF Answers
        <5>2. handler'.left # <<>>
          BY <1>2, <4>1
        <5>3. Head(handler'.left) = handler'.left[1]
          BY <5>1, <5>2, TailOf
        <5> QED
          BY <1>2, <4>1, <5>2, <5>3
      <4>3. handler.left[1 + 1] = x + 1 /\ ~EndOfPage(x)
        BY <1>2, <1>3, <4>1 DEF OnePage, k
      <4> QED
        BY <1>4, <2>3, <4>2, <4>3 DEF Seam, Appending
    <3> QED
      BY <3>1, <3>2
  <2>10. Pages'
    <3>1. ASSUME NEW i \in 1..n
          PROVE  IF EndOfPage(list'.results[i])
                 THEN list'.results[i + 1] - 1 \in Urls
                 ELSE list'.results[i + 1] = list'.results[i] + 1
      <4>1. CASE i = n
        BY <2>3, <2>6, <4>1
      <4>2. CASE i # n
        <5>1. i \in 1..(n - 1) /\ i + 1 \in 1..n
          BY <2>3, <4>2
        <5> QED
          BY <1>8, <2>3, <5>1 DEF ListInv, Pages, n
      <4> QED
        BY <4>1, <4>2
    <3> QED
      BY <2>3, <3>1 DEF Pages
  <2>11. Ahead'
    <3>1. ASSUME NEW v, Listed(v) PROVE Listed(v)'
      BY <2>3, <3>1 DEF Listed, n
    <3>2. ASSUME NEW v, ToCome(v) PROVE Listed(v)' \/ ToCome(v)'
      <4>1. PICK j \in 1..k : handler.left[j] = v
        BY <3>2 DEF ToCome, k
      <4>2. CASE j = 1
        <5>1. list'.results[n + 1] = v /\ n + 1 \in 1..Len(list'.results)
          BY <1>2, <2>3, <4>1, <4>2
        <5> QED
          BY <5>1 DEF Listed
      <4>3. CASE j # 1
        <5>1. j - 1 \in 1..(k - 1) /\ (j - 1) + 1 = j
          BY <1>2, <4>3
        <5>2. handler'.left[j - 1] = v
          BY <1>2, <4>1, <5>1
        <5> QED
          BY <1>2, <5>1, <5>2 DEF ToCome
      <4> QED
        BY <4>2, <4>3
    <3>3. list.next > 0 => Listed(list.next)
      BY <1>8 DEF ListInv, Ahead
    <3>4. handler.next > 0 => Listed(handler.next) \/ ToCome(handler.next)
      BY <1>1, <1>8 DEF ListInv, Ahead
    <3>5. ASSUME list'.next > 0 PROVE Listed(list.next)'
      <4>1. PICK v : v = list.next
        OBVIOUS
      <4>2. Listed(v)'
        BY <2>3, <3>1, <3>3, <3>5, <4>1
      <4> QED
        BY <2>3, <4>1, <4>2 DEF Listed
    <3>6. ASSUME handler'.next > 0 PROVE Listed(handler.next)' \/ ToCome(handler.next)'
      <4>1. PICK v : v = handler.next
        OBVIOUS
      <4>2. Listed(v) \/ ToCome(v)
        BY <1>2, <3>4, <3>6, <4>1
      <4>3. Listed(v)' \/ ToCome(v)'
        BY <3>1, <3>2, <4>2
      <4> QED
        BY <1>2, <4>1, <4>3 DEF Listed, ToCome
    <3> QED
      BY <3>5, <3>6 DEF Ahead
  <2> QED
    BY <1>6, <2>8, <2>9, <2>10, <2>11 DEF ListInv
<1> QED
  BY <1>7, <1>8

LEMMA ListStep == TypeOK /\ ListInv /\ Before /\ [Next]_vars => ListInv'
<1> SUFFICES ASSUME TypeOK, ListInv, Before, [Next]_vars PROVE ListInv'
  OBVIOUS
<1>1. ASSUME UNCHANGED <<list, handler>> PROVE ListInv'
  BY <1>1 DEF ListInv, Begins, Later, Seam, Pages, Ahead, Appending, Listed, ToCome
<1>2. ASSUME NEW ok \in BOOLEAN, FirstAnswer(ok) PROVE ListInv'
  <2>1. handler' = Idle
    BY <1>2 DEF FirstAnswer, Before
  <2> QED
    BY <1>2, <2>1, ListReplaced DEF FirstAnswer
<1>3. ASSUME NEW ok \in BOOLEAN, AnswerFirstPage(ok) PROVE ListInv'
  BY <1>3, ListReplaced DEF AnswerFirstPage
<1>4. ASSUME NEW o \in Urls, NEW ok \in BOOLEAN, AnswerPage(o, ok) PROVE ListInv'
  BY <1>4, ListAnswer
<1>5. ASSUME AppendRow PROVE ListInv'
  BY <1>5, ListAppend
<1>6. ASSUME StoreNext PROVE ListInv'
  BY <1>6, ListStore
<1>7. ASSUME \/ FirstReload
             \/ LoadMoreData
             \/ LoadingBlock
             \/ Reload
             \/ \E r \in 1..shown : DrawRow(r)
             \/ SelectRow
             \/ UNCHANGED vars
      PROVE  ListInv'
  BY <1>1, <1>7 DEF FirstReload, LoadMoreData, LoadingBlock, Reload, DrawRow, SelectRow, vars
<1> QED
  BY <1>2, <1>3, <1>4, <1>5, <1>6, <1>7 DEF Next

LEMMA BeforeStep == TypeOK /\ Before /\ [Next]_vars => Before'
<1> SUFFICES ASSUME TypeOK, Before, [Next]_vars, first' # "ready" PROVE Before'
  BY DEF Before
<1>1. first # "ready"
  BY DEF Next, FirstAnswer, FirstReload, LoadMoreData, LoadingBlock, Reload, AnswerFirstPage,
         AnswerPage, AppendRow, StoreNext, DrawRow, SelectRow, vars
<1>2. handler = Idle /\ block = "idle" /\ cell = NoCell /\ \A o \in Urls : open[o] = 0
  BY <1>1 DEF Before
<1>3. 0 \in Urls
  BY UrlsFinite
<1>4. UNCHANGED <<open, handler, block, cell>>
  BY <1>1, <1>2, <1>3
     DEF Next, FirstAnswer, FirstReload, LoadMoreData, LoadingBlock, Reload, AnswerFirstPage,
         AnswerPage, AppendRow, StoreNext, DrawRow, SelectRow, vars, table
<1> QED
  BY <1>2, <1>4 DEF Before

LEMMA DrawnStep == TypeOK /\ ListInv /\ Before /\ Drawn /\ [Next]_vars => Drawn'
<1> SUFFICES ASSUME TypeOK, ListInv, Before, Drawn, [Next]_vars PROVE Drawn'
  OBVIOUS
<1>1. ASSUME UNCHANGED cell, UNCHANGED sent, screen' = "open" => screen = "open" PROVE Drawn'
  BY <1>1 DEF Drawn
<1>2. ASSUME Reload PROVE Drawn'
  BY <1>2 DEF Reload, Drawn
<1>3. ASSUME SelectRow PROVE Drawn'
  BY <1>3 DEF SelectRow, Drawn
<1>4. ASSUME NEW r \in 1..shown, DrawRow(r) PROVE Drawn'
  <2>1. CASE OutOfRange(r)
    BY <1>1, <1>4, <2>1 DEF DrawRow
  <2>2. CASE ~OutOfRange(r)
    <3>1. /\ cell' = [row |-> r, name |-> IF list = NoList THEN 0 ELSE list.results[r]]
          /\ UNCHANGED <<screen, sent>>
      BY <1>4, <2>2 DEF DrawRow
    <3>2. r \in Nat \ {0}
      BY DEF TypeOK
    <3>3. ASSUME list # NoList, r <= Page PROVE list.results[r] = r
      <4>1. r \in 1..Len(list.results)
        <5>1. list.results \in Seq(1..Total)
          BY <3>3 DEF TypeOK, Lists
        <5> QED
          BY <2>2, <3>2, <3>3, <5>1 DEF OutOfRange
      <4> QED
        BY <3>3, <4>1 DEF ListInv, Begins
    <3> QED
      BY <3>1, <3>3 DEF Drawn
  <2> QED
    BY <2>1, <2>2
<1>5. ASSUME \/ \E ok \in BOOLEAN : FirstAnswer(ok)
             \/ FirstReload
             \/ LoadMoreData
             \/ LoadingBlock
             \/ \E ok \in BOOLEAN : AnswerFirstPage(ok)
             \/ \E o \in Urls, ok \in BOOLEAN : AnswerPage(o, ok)
             \/ AppendRow
             \/ StoreNext
             \/ UNCHANGED vars
      PROVE  Drawn'
  BY <1>1, <1>5 DEF FirstAnswer, FirstReload, LoadMoreData, LoadingBlock, AnswerFirstPage,
                    AnswerPage, AppendRow, StoreNext, vars, table
<1> QED
  BY <1>2, <1>3, <1>4, <1>5 DEF Next

\* The list is what the properties rest on: the first page, whole pages behind it, and a
\* next page that follows a row it holds or will hold.
THEOREM PagesInvariance == Spec => []PagesInv
<1>1. Init => PagesInv
  BY TypeInit, NilAssumption
     DEF Init, PagesInv, ListInv, Begins, Later, Seam, Pages, Ahead, Before, Drawn
<1>2. PagesInv /\ [Next]_vars => PagesInv'
  BY TypeStep, ListStep, BeforeStep, DrawnStep DEF PagesInv
<1> QED
  BY <1>1, <1>2, PTL DEF Spec

\* However the answers overlap, repeat or fail, the rows are whole pages, the first page
\* first, with at most the page being appended unfinished (getTwentyPokemons).
THEOREM PagesAreWhole == Spec => []WholePages
<1>1. PagesInv => WholePages
  <2> SUFFICES ASSUME PagesInv, list # NoList PROVE WholePages
    BY DEF WholePages
  <2> DEFINE n == Len(list.results)
  <2>1. n \in Nat /\ n >= 1
    <3>1. n \in Nat
      BY DEF PagesInv, TypeOK, Lists
    <3>2. n >= Page \/ n >= Total
      BY DEF PagesInv, ListInv, Begins
    <3> QED
      BY <3>1, <3>2, SizesAssumption
  <2>2. list.results[1] = 1
    <3>1. 1 \in 1..n /\ 1 <= Page
      BY <2>1, SizesAssumption
    <3> QED
      BY <3>1 DEF PagesInv, ListInv, Begins
  <2>3. \/ EndOfPage(list.results[n])
        \/ Appending /\ Head(handler.left) = list.results[n] + 1
    BY DEF PagesInv, ListInv, Seam
  <2> QED
    BY <2>2, <2>3 DEF PagesInv, ListInv, Pages, WholePages, Appending
<1> QED
  BY <1>1, PagesInvariance, PTL

\* The next page asked for follows a row of the list, although the loading block reads the
\* URL while answers are being handled: no page is skipped (nextURL).
THEOREM NoPageSkipped == Spec => []NextFollows
<1>1. PagesInv => NextFollows
  BY DEF PagesInv, ListInv, Ahead, Listed, NextFollows, Range, TypeOK, Lists
<1> QED
  BY <1>1, PagesInvariance, PTL

\* Whatever happens between drawing a row of the first page and tapping it, the name
\* handed over is the one on the row, or empty (didSelectRowAt).
THEOREM FirstPageReliable == Spec => FirstRowsReliable
<1> DEFINE Reliable == sent' # sent /\ cell.name # 0 /\ cell.row <= Page => sent' = cell.name
<1>1. PagesInv /\ [Next]_vars => Reliable \/ UNCHANGED vars
  <2> SUFFICES ASSUME PagesInv, Next, sent' # sent, cell.name # 0, cell.row <= Page
               PROVE  sent' = cell.name
    BY DEF vars
  <2>1. SelectRow
    BY DEF Next, FirstAnswer, FirstReload, LoadMoreData, LoadingBlock, Reload,
           AnswerFirstPage, AnswerPage, AppendRow, StoreNext, DrawRow, table
  <2>2. cell # NoCell /\ sent = 0
    BY <2>1 DEF SelectRow, PagesInv, Drawn
  <2>3. cell.row \in Nat \ {0} /\ cell.name = cell.row
    BY <2>2 DEF PagesInv, TypeOK, Cells, Drawn
  <2>4. list # NoList /\ ~OutOfRange(cell.row) /\ sent' = list.results[cell.row]
    BY <2>1, <2>2 DEF SelectRow
  <2>5. cell.row \in 1..Len(list.results)
    <3>1. list.results \in Seq(1..Total)
      BY <2>4 DEF PagesInv, TypeOK, Lists
    <3> QED
      BY <2>3, <2>4, <3>1 DEF OutOfRange
  <2>6. list.results[cell.row] = cell.row
    BY <2>4, <2>5 DEF PagesInv, ListInv, Begins
  <2> QED
    BY <2>3, <2>4, <2>6
<1>2. Spec => [][Reliable]_vars
  BY <1>1, PagesInvariance, PTL DEF Spec
<1> QED
  BY <1>2 DEF FirstRowsReliable
-----------------------------------------------------------------------------
(* The pace of the answers: one request at a time.                          *)

Left == IF handler = Idle THEN <<>> ELSE handler.left
Sure == IF handler = Idle THEN list.next ELSE handler.next

\* With the rows still to append, the list is 1, 2, 3, ..., and the next page begins where
\* it ends.
Counted ==
    list # NoList =>
        LET n == Len(list.results)
            m == n + Len(Left)
        IN /\ \A i \in 1..n : list.results[i] = i
           /\ \A j \in 1..Len(Left) : Left[j] = n + j
           /\ Sure = IF m < Total THEN m ELSE 0

\* Nothing is under way when the loading block starts, and what it asks for is the page
\* behind the list.
OneAtATime ==
    /\ list = NoList => first = "asked"
    /\ block = "queued" => UnderWay = 0 /\ list # NoList /\ Len(list.results) < Total
    /\ \A o \in Urls : open[o] > 0 => UnderWay = 1 /\ o > 0 /\ o = Len(list.results)

\* What the table view believes in is there.
OnScreen ==
    /\ shown <= numberOfRows
    /\ first # "ready" => shown = 0
    /\ cell # NoCell => cell.row <= numberOfRows /\ cell.name = cell.row
    /\ screen # "crashed"

CalmInv == calm => Counted /\ OneAtATime /\ OnScreen

LEMMA HandlerBusy ==
    ASSUME TypeOK, OneAtATime, handler # Idle
    PROVE  block # "queued" /\ \A o \in Urls : open[o] = 0
<1>1. open \in [Urls -> Nat]
  BY DEF TypeOK
<1>2. UnderWay \in Nat /\ \A o \in Urls : open[o] \in Nat /\ open[o] + 1 <= UnderWay
  BY <1>1, UnderWayCount
<1>3. 0 \in Urls
  BY UrlsFinite
<1>4. block # "queued"
  BY <1>2, <1>3 DEF OneAtATime
<1>5. ASSUME NEW o \in Urls PROVE open[o] = 0
  <2>1. open[o] > 0 => UnderWay = 1
    BY DEF OneAtATime
  <2> QED
    BY <1>2, <2>1
<1> QED
  BY <1>4, <1>5

LEMMA CalmFirst ==
    ASSUME PagesInv, CalmInv, NEW ok \in BOOLEAN, FirstAnswer(ok)
    PROVE  CalmInv'
<1> SUFFICES ASSUME calm' PROVE CalmInv'
  BY DEF CalmInv
<1>1. calm /\ ok /\ first = "asked" /\ list' = PageAt(0)
  BY DEF FirstAnswer
<1>2. handler = Idle /\ block = "idle" /\ cell = NoCell /\ \A o \in Urls : open[o] = 0
  BY <1>1 DEF PagesInv, Before
<1>3. /\ first' = "answered"
      /\ UNCHANGED <<open, handler, block, isLoading, shown, cell, sent, screen>>
  BY DEF FirstAnswer, table
<1> DEFINE rows == PageAt(0).results
           n == Len(rows)
<1>4. /\ n \in 1..Page
      /\ n = Page \/ 0 + n = Total
      /\ 0 + n <= Total
      /\ \A i \in 1..n : rows[i] = 0 + i
      /\ PageAt(0).next = IF 0 + Page < Total THEN 0 + Page ELSE 0
  BY UrlsFinite, PageOf
<1>5. list'.results = rows /\ list'.next = PageAt(0).next
  BY <1>1
<1> HIDE DEF rows
<1>6. Page \in Nat /\ Total \in Nat
  BY SizesAssumption
<1>7. Counted'
  <2>1. Left' = <<>> /\ Sure' = list'.next
    BY <1>2, <1>3 DEF Left, Sure
  <2>2. \A i \in 1..n : rows[i] = i
    BY <1>4
  <2>3. PageAt(0).next = IF n < Total THEN n ELSE 0
    BY <1>4, <1>6
  <2>4. n + Len(<<>>) = n
    BY <1>4
  <2> QED
    BY <1>5, <2>1, <2>2, <2>3, <2>4 DEF Counted
<1>8. OneAtATime'
  <2>1. list' # NoList
    BY <1>1, UrlsFinite, PageTyped, NilAssumption
  <2> QED
    BY <1>2, <1>3, <2>1 DEF OneAtATime
<1>9. OnScreen'
  <2>1. shown = 0 /\ screen # "crashed"
    BY <1>1 DEF CalmInv, OnScreen
  <2>2. numberOfRows' \in Nat
    BY <1>4, <1>5 DEF numberOfRows
  <2> QED
    BY <1>2, <1>3, <2>1, <2>2 DEF OnScreen
<1> QED
  BY <1>7, <1>8, <1>9 DEF CalmInv

\* The steps that leave the list, the handler and the open requests alone.
LEMMA CalmQuiet ==
    ASSUME PagesInv, CalmInv,
           \/ FirstReload
           \/ LoadMoreData
           \/ Reload
           \/ \E r \in 1..shown : DrawRow(r)
           \/ SelectRow
           \/ UNCHANGED vars
    PROVE  CalmInv'
<1> SUFFICES ASSUME calm' PROVE CalmInv'
  BY DEF CalmInv
<1>1. UNCHANGED <<list, open, handler>> /\ calm
  BY DEF FirstReload, LoadMoreData, Reload, DrawRow, SelectRow, vars
<1>2. Counted /\ OneAtATime /\ OnScreen
  BY <1>1 DEF CalmInv
<1>3. Counted'
  BY <1>1, <1>2 DEF Counted, Left, Sure
<1>4. UnderWay' = UnderWay /\ numberOfRows' = numberOfRows
  BY <1>1 DEF UnderWay, numberOfRows
<1>5. numberOfRows \in Nat /\ shown \in Nat
  BY DEF PagesInv, TypeOK, numberOfRows, Lists
<1>6. ASSUME FirstReload PROVE OneAtATime' /\ OnScreen'
  <2>1. list # NoList
    BY <1>2, <1>6 DEF FirstReload, OneAtATime
  <2> QED
    BY <1>1, <1>2, <1>4, <1>5, <1>6, <2>1 DEF FirstReload, OneAtATime, OnScreen
<1>7. ASSUME LoadMoreData PROVE OneAtATime' /\ OnScreen'
  <2>1. UnderWay = 0
    BY <1>7 DEF LoadMoreData
  <2>2. list # NoList /\ Len(list.results) < Total
    BY <1>7 DEF LoadMoreData, numberOfRows, numberOfPokemonsInDatabase
  <2> QED
    BY <1>1, <1>2, <1>4, <1>7, <2>1, <2>2 DEF LoadMoreData, OneAtATime, OnScreen, table
<1>8. ASSUME Reload PROVE OneAtATime' /\ OnScreen'
  <2>1. first = "ready"
    BY <1>8 DEF PagesInv, Before, Reload
  <2> QED
    BY <1>1, <1>2, <1>4, <1>5, <1>8, <2>1 DEF Reload, OneAtATime, OnScreen
<1>9. ASSUME NEW r \in 1..shown, DrawRow(r) PROVE OneAtATime' /\ OnScreen'
  <2>1. r \in Nat /\ r >= 1 /\ r <= numberOfRows
    BY <1>2, <1>5 DEF OnScreen
  <2>2. list # NoList /\ numberOfRows = Len(list.results)
    BY <2>1 DEF numberOfRows
  <2>3. ~OutOfRange(r) /\ list.results[r] = r
    BY <1>2, <1>5, <2>1, <2>2 DEF OutOfRange, Counted
  <2>4. cell' = [row |-> r, name |-> r] /\ UNCHANGED screen
    BY <1>9, <2>2, <2>3 DEF DrawRow
  <2>5. OneAtATime'
    BY <1>1, <1>2, <1>4, <1>9 DEF DrawRow, OneAtATime
  <2>6. OnScreen'
    BY <1>2, <1>4, <1>9, <2>1, <2>4 DEF DrawRow, OnScreen
  <2> QED
    BY <2>5, <2>6
<1>10. ASSUME SelectRow PROVE OneAtATime' /\ OnScreen'
  <2>1. cell # NoCell /\ cell.row <= numberOfRows
    BY <1>2, <1>10 DEF SelectRow, OnScreen
  <2>2. ~OutOfRange(cell.row)
    <3>1. cell.row \in Nat
      BY <2>1 DEF PagesInv, TypeOK, Cells
    <3> QED
      BY <1>5, <2>1, <3>1 DEF OutOfRange, numberOfRows
  <2>3. screen' = "chosen"
    BY <1>10, <2>2 DEF SelectRow
  <2> QED
    BY <1>1, <1>2, <1>4, <1>10, <2>3 DEF SelectRow, OneAtATime, OnScreen
<1>11. ASSUME UNCHANGED vars PROVE OneAtATime' /\ OnScreen'
  BY <1>1, <1>2, <1>4, <1>11 DEF vars, table, OneAtATime, OnScreen
<1> QED
  BY <1>3, <1>6, <1>7, <1>8, <1>9, <1>10, <1>11 DEF CalmInv

LEMMA CalmAsk ==
    ASSUME PagesInv, CalmInv, LoadingBlock
    PROVE  CalmInv'
<1> SUFFICES ASSUME calm' PROVE CalmInv'
  BY DEF CalmInv
<1>1. UNCHANGED <<list, first, handler, shown, cell, sent, screen>> /\ calm /\ block' = "reload"
  BY DEF LoadingBlock, table
<1>2. Counted /\ OneAtATime /\ OnScreen
  BY <1>1 DEF CalmInv
<1>3. Counted' /\ OnScreen'
  BY <1>1, <1>2 DEF Counted, Left, Sure, OnScreen, numberOfRows
<1> DEFINE n == Len(list.results)
<1>4. UnderWay = 0 /\ list # NoList /\ n < Total
  BY <1>2 DEF LoadingBlock, OneAtATime
<1>5. open \in [Urls -> Nat] /\ list \in Lists
  BY <1>4 DEF PagesInv, TypeOK
<1>6. handler = Idle /\ \A o \in Urls : open[o] = 0
  BY <1>4, <1>5, UnderWayCount
<1>7. n \in Nat /\ n >= 1
  <2>1. n \in Nat
    BY <1>5 DEF Lists
  <2>2. n >= Page \/ n >= Total
    BY <1>4 DEF PagesInv, ListInv, Begins
  <2> QED
    BY <2>1, <2>2, SizesAssumption
<1>8. list.next = n /\ n \in Urls
  <2>1. Left = <<>> /\ Sure = list.next
    BY <1>6 DEF Left, Sure
  <2>2. n + Len(<<>>) = n
    BY <1>7
  <2>3. list.next = n
    BY <1>2, <1>4, <2>1, <2>2 DEF Counted
  <2> QED
    BY <1>5, <2>3 DEF Lists
<1>9. open' = [open EXCEPT ![n] = @ + 1]
  BY <1>4, <1>8 DEF LoadingBlock, nextURL
<1> HIDE DEF n
<1>10. /\ open' \in [Urls -> Nat]
       /\ open'[n] = 1
       /\ \A v \in Urls : v # n => open'[v] = open[v]
  BY <1>5, <1>6, <1>8, <1>9
<1>11. UnderWay' = 1
  <2>1. /\ UnderWay' \in Nat
        /\ UnderWay' = (UnderWay + open'[n] + (IF handler' = Idle THEN 0 ELSE 1))
                           - (open[n] + (IF handler = Idle THEN 0 ELSE 1))
    BY <1>5, <1>8, <1>10, UnderWayChange
  <2> QED
    BY <1>1, <1>4, <1>6, <1>8, <1>10, <2>1
<1>12. OneAtATime'
  <2>1. ASSUME NEW o \in Urls, open'[o] > 0 PROVE o = n
    BY <1>6, <1>10, <2>1
  <2> QED
    BY <1>1, <1>2, <1>7, <1>11, <2>1 DEF OneAtATime, n
<1> QED
  BY <1>3, <1>12 DEF CalmInv

LEMMA CalmAnswer ==
    ASSUME PagesInv, CalmInv, NEW o \in Urls, NEW ok \in BOOLEAN, AnswerPage(o, ok)
    PROVE  CalmInv'
<1> SUFFICES ASSUME calm' PROVE CalmInv'
  BY DEF CalmInv
<1>1. /\ calm /\ ok /\ handler = Idle /\ open[o] > 0 /\ o > 0
      /\ UNCHANGED <<list, first, block, shown, cell, sent, screen>>
      /\ open' = [open EXCEPT ![o] = @ - 1]
      /\ handler' = [left |-> PageAt(o).results, next |-> PageAt(o).next]
  BY DEF AnswerPage, table
<1>2. Counted /\ OneAtATime /\ OnScreen
  BY <1>1 DEF CalmInv
<1>3. open \in [Urls -> Nat] /\ o \in Nat /\ handler' # Idle
  BY <1>1, UrlsFinite, PageTyped, NilAssumption DEF PagesInv, TypeOK
<1>4. UnderWay = 1 /\ o = Len(list.results)
  BY <1>1, <1>2 DEF OneAtATime
<1>5. first = "ready" /\ list # NoList
  <2>1. first = "ready"
    BY <1>1 DEF PagesInv, Before
  <2> QED
    BY <1>2, <2>1 DEF OneAtATime
<1>6. OnScreen'
  BY <1>1, <1>2 DEF OnScreen, numberOfRows
<1>7. OneAtATime'
  <2>1. /\ open' \in [Urls -> Nat]
        /\ open'[o] = open[o] - 1
        /\ \A v \in Urls : v # o => open'[v] = open[v]
    BY <1>1, <1>3
  <2>2. /\ UnderWay' \in Nat
        /\ \A v \in Urls : open'[v] + (IF handler' = Idle THEN 0 ELSE 1) <= UnderWay'
        /\ UnderWay' = (UnderWay + open'[o] + (IF handler' = Idle THEN 0 ELSE 1))
                           - (open[o] + (IF handler = Idle THEN 0 ELSE 1))
    BY <1>3, <2>1, UnderWayChange
  <2>3. open[o] \in Nat /\ open'[o] \in Nat
    BY <1>3, <2>1
  <2>4. UnderWay' = 1
    <3>1. UnderWay' = (UnderWay + open'[o] + 1) - (open[o] + 0)
      BY <1>1, <1>3, <2>2
    <3>2. open'[o] = open[o] - 1
      BY <2>1
    <3> QED
      BY <1>4, <2>3, <3>1, <3>2
  <2>5. \A v \in Urls : open'[v] = 0
    BY <1>3, <2>1, <2>2, <2>4
  <2>6. block # "queued"
    BY <1>2, <1>4 DEF OneAtATime
  <2> QED
    BY <1>1, <1>5, <2>5, <2>6 DEF OneAtATime
<1> DEFINE rows == PageAt(o).results
           k == Len(rows)
<1>8. /\ k \in 1..Page
      /\ k = Page \/ o + k = Total
      /\ o + k <= Total
      /\ \A i \in 1..k : rows[i] = o + i
      /\ PageAt(o).next = IF o + Page < Total THEN o + Page ELSE 0
  BY PageOf
<1>9. handler'.left = rows /\ handler'.next = PageAt(o).next
  BY <1>1
<1> HIDE DEF rows
<1>10. Left' = rows /\ Sure' = PageAt(o).next
  BY <1>3, <1>9 DEF Left, Sure
<1>11. PageAt(o).next = IF o + k < Total THEN o + k ELSE 0
  BY <1>3, <1>8, SizesAssumption
<1>12. Counted'
  BY <1>1, <1>2, <1>4, <1>5, <1>8, <1>10, <1>11 DEF Counted
<1> QED
  BY <1>6, <1>7, <1>12 DEF CalmInv

LEMMA CalmStore ==
    ASSUME PagesInv, CalmInv, StoreNext
    PROVE  CalmInv'
<1> SUFFICES ASSUME calm' PROVE CalmInv'
  BY DEF CalmInv
<1>1. /\ calm /\ handler # Idle /\ handler.left = <<>> /\ handler' = Idle
      /\ UNCHANGED <<first, open, block, shown, cell, sent, screen>>
  BY DEF StoreNext, table
<1>2. Counted /\ OneAtATime /\ OnScreen
  BY <1>1 DEF CalmInv
<1>3. block # "queued" /\ \A o \in Urls : open[o] = 0
  BY <1>1, <1>2, HandlerBusy DEF PagesInv
<1>4. first = "ready" /\ list # NoList
  BY <1>1, <1>2 DEF PagesInv, Before, OneAtATime
<1>5. list'.results = list.results /\ list'.next = handler.next /\ list' # NoList
  <2>1. list \in Lists /\ handler \in Answers
    BY <1>1, <1>4 DEF PagesInv, TypeOK
  <2>2. list' = [list EXCEPT !.next = handler.next]
    BY <1>4 DEF StoreNext
  <2>3. list' \in Lists
    BY <2>1, <2>2 DEF Lists, Answers
  <2> QED
    BY <2>1, <2>2, <2>3, NilAssumption DEF Lists
<1>6. Left = <<>> /\ Sure = handler.next /\ Left' = <<>> /\ Sure' = handler.next
  BY <1>1, <1>5 DEF Left, Sure
<1>7. Counted'
  BY <1>2, <1>4, <1>5, <1>6 DEF Counted
<1>8. OneAtATime'
  BY <1>1, <1>3, <1>5 DEF OneAtATime
<1>9. OnScreen'
  BY <1>1, <1>2, <1>4, <1>5 DEF OnScreen, numberOfRows
<1> QED
  BY <1>7, <1>8, <1>9 DEF CalmInv

LEMMA CalmAppend ==
    ASSUME PagesInv, CalmInv, AppendRow
    PROVE  CalmInv'
<1> SUFFICES ASSUME calm' PROVE CalmInv'
  BY DEF CalmInv
<1>1. /\ calm /\ handler # Idle /\ handler.left # <<>>
      /\ UNCHANGED <<first, open, block, shown, cell, sent, screen>>
  BY DEF AppendRow, table
<1>2. Counted /\ OneAtATime /\ OnScreen
  BY <1>1 DEF CalmInv
<1>3. block # "queued" /\ \A o \in Urls : open[o] = 0
  BY <1>1, <1>2, HandlerBusy DEF PagesInv
<1>4. list \in Lists /\ handler \in Answers /\ first = "ready" /\ list # NoList
  BY <1>1, <1>2 DEF PagesInv, Before, OneAtATime, TypeOK
<1> DEFINE x == Head(handler.left)
           n == Len(list.results)
           k == Len(handler.left)
<1>5. /\ handler' \in Answers
      /\ handler'.left = Tail(handler.left)
      /\ handler'.next = handler.next
      /\ x = handler.left[1]
      /\ x \in 1..Total
      /\ k \in Nat \ {0}
      /\ Len(handler'.left) = k - 1
      /\ \A i \in 1..(k - 1) : handler'.left[i] = handler.left[i + 1]
  BY <1>1, <1>4, RowTaken DEF AppendRow
<1>6. list' = [list EXCEPT !.results = Append(@, x)]
  BY <1>4 DEF AppendRow
<1>7. n \in Nat
  BY <1>4 DEF Lists
<1> HIDE DEF x
<1>8. /\ list' \in Lists
      /\ Len(list'.results) = n + 1
      /\ list'.results[n + 1] = x
      /\ \A i \in 1..n : list'.results[i] = list.results[i]
      /\ list'.next = list.next
  <2> HIDE DEF n, k
  <2> QED
    BY <1>4, <1>5, <1>6, <1>7, RowAppended DEF n
<1>9. list' # NoList /\ handler' # Idle
  BY <1>5, <1>8, NilAssumption
<1>10. Left = handler.left /\ Sure = handler.next /\ Left' = handler'.left /\ Sure' = handler.next
  BY <1>1, <1>5, <1>9 DEF Left, Sure
<1>11. /\ \A i \in 1..n : list.results[i] = i
       /\ \A j \in 1..k : handler.left[j] = n + j
       /\ handler.next = IF n + k < Total THEN n + k ELSE 0
  BY <1>2, <1>4, <1>10 DEF Counted
<1> HIDE DEF n, k
<1>12. Counted'
  <2>1. \A i \in 1..(n + 1) : list'.results[i] = i
    <3>1. x = n + 1
      BY <1>5, <1>11
    <3> QED
      BY <1>7, <1>8, <1>11, <3>1
  <2>2. \A j \in 1..(k - 1) : handler'.left[j] = (n + 1) + j
    <3>1. ASSUME NEW j \in 1..(k - 1) PROVE handler'.left[j] = (n + 1) + j
      <4>1. handler'.left[j] = handler.left[j + 1] /\ j + 1 \in 1..k
        BY <1>5
      <4> QED
        BY <1>7, <1>11, <4>1
    <3> QED
      BY <3>1
  <2>3. (n + 1) + (k - 1) = n + k
    BY <1>5, <1>7
  <2> QED
    BY <1>5, <1>8, <1>10, <1>11, <2>1, <2>2, <2>3 DEF Counted
<1>13. OneAtATime'
  BY <1>1, <1>3, <1>9 DEF OneAtATime
<1>14. OnScreen'
  <2>1. numberOfRows = n /\ numberOfRows' = n + 1
    BY <1>4, <1>8, <1>9 DEF numberOfRows, n
  <2>2. shown \in Nat /\ (cell # NoCell => cell.row \in Nat)
    BY DEF PagesInv, TypeOK, Cells
  <2> QED
    BY <1>1, <1>2, <1>4, <1>7, <2>1, <2>2 DEF OnScreen
<1> QED
  BY <1>12, <1>13, <1>14 DEF CalmInv

\* At the pace of the answers the list is counted, what is asked for is the page behind it,
\* and the table view never believes in a row that is not there.
THEOREM CalmInvariance == Spec => [](PagesInv /\ CalmInv)
<1>1. Init => CalmInv
  BY UrlsFinite DEF Init, CalmInv, Counted, OneAtATime, OnScreen, numberOfRows
<1>2. PagesInv /\ CalmInv /\ [Next]_vars => CalmInv'
  <2> SUFFICES ASSUME PagesInv, CalmInv, [Next]_vars PROVE CalmInv'
    OBVIOUS
  <2>1. ASSUME NEW ok \in BOOLEAN, AnswerFirstPage(ok) PROVE CalmInv'
    <3> SUFFICES ASSUME calm PROVE FALSE
      BY <2>1 DEF AnswerFirstPage, CalmInv
    <3> QED
      BY <2>1, UrlsFinite DEF AnswerFirstPage, CalmInv, OneAtATime
  <2> QED
    BY <2>1, CalmFirst, CalmQuiet, CalmAsk, CalmAnswer, CalmStore, CalmAppend DEF Next
<1> QED
  BY <1>1, <1>2, PagesInvariance, PTL DEF Spec

\* A user who scrolls on when the answers are in gets 1, 2, 3, ... without a gap or a
\* repetition: guard, nextURL and append work together.
THEOREM ListInOrder == Spec => []InOrder
<1>1. PagesInv /\ CalmInv => InOrder
  <2> SUFFICES ASSUME PagesInv, CalmInv, calm, list # NoList PROVE InOrder
    BY DEF InOrder
  <2> DEFINE n == Len(list.results)
             k == Len(Left)
             rows == list.results \o Left
  <2>1. list.results \in Seq(1..Total) /\ Left \in Seq(1..Total)
    <3>1. list.results \in Seq(1..Total)
      BY DEF PagesInv, TypeOK, Lists
    <3>2. CASE handler = Idle
      BY <3>1, <3>2 DEF Left
    <3>3. CASE handler # Idle
      BY <3>1, <3>3 DEF PagesInv, TypeOK, Answers, Left
    <3> QED
      BY <3>2, <3>3
  <2>2. /\ n \in Nat /\ k \in Nat
        /\ Len(rows) = n + k
        /\ rows \in Seq(1..Total)
        /\ \A i \in 1..n : rows[i] = list.results[i]
        /\ \A j \in 1..k : rows[n + j] = Left[j]
    BY <2>1
  <2>3. /\ \A i \in 1..n : list.results[i] = i
        /\ \A j \in 1..k : Left[j] = n + j
    BY DEF CalmInv, Counted
  <2> HIDE DEF n, k, rows
  <2>4. ASSUME NEW i \in 1..Len(rows) PROVE rows[i] = i
    <3>1. CASE i <= n
      BY <2>2, <2>3, <3>1
    <3>2. CASE i > n
      <4>1. i - n \in 1..k /\ n + (i - n) = i
        BY <2>2, <3>2
      <4> QED
        BY <2>2, <2>3, <4>1
    <3> QED
      BY <2>2, <3>1, <3>2
  <2>5. rows = [i \in 1..Len(rows) |-> i]
    BY <2>2, <2>4
  <2> QED
    BY <2>5 DEF InOrder, rows, Left
<1> QED
  BY <1>1, CalmInvariance, PTL

\* Such a user never makes the table view ask for a row the list has lost, and what is sent
\* is what was read (results[posicao], didSelectRowAt).
THEOREM RowsAreThere == Spec => NeverLosesRows
<1> DEFINE Safe == calm => screen' # "crashed" /\ (sent' # sent => sent' = cell.name)
<1>1. PagesInv /\ CalmInv /\ CalmInv' /\ [Next]_vars => Safe \/ UNCHANGED vars
  <2> SUFFICES ASSUME PagesInv, CalmInv, Next, calm
               PROVE  screen' # "crashed" /\ (sent' # sent => sent' = cell.name)
    OBVIOUS
  <2>1. Counted /\ OnScreen
    BY DEF CalmInv
  <2>2. shown \in Nat /\ numberOfRows \in Nat
    BY DEF PagesInv, TypeOK, numberOfRows, Lists
  <2>3. ASSUME NEW r \in 1..shown, DrawRow(r)
        PROVE  screen' # "crashed" /\ (sent' # sent => sent' = cell.name)
    <3>1. r \in Nat /\ r >= 1 /\ r <= numberOfRows
      BY <2>1, <2>2 DEF OnScreen
    <3>2. ~OutOfRange(r)
      BY <2>2, <3>1 DEF OutOfRange, numberOfRows
    <3> QED
      BY <2>1, <2>3, <3>2 DEF DrawRow, OnScreen
  <2>4. ASSUME SelectRow
        PROVE  screen' # "crashed" /\ (sent' # sent => sent' = cell.name)
    <3>1. cell # NoCell /\ cell.row <= numberOfRows /\ cell.name = cell.row
      BY <2>1, <2>4 DEF SelectRow, OnScreen
    <3>2. cell.row \in Nat \ {0}
      BY <3>1 DEF PagesInv, TypeOK, Cells
    <3>3. list # NoList /\ numberOfRows = Len(list.results)
      BY <2>2, <3>1, <3>2 DEF numberOfRows
    <3>4. ~OutOfRange(cell.row) /\ list.results[cell.row] = cell.row
      BY <2>1, <2>2, <3>1, <3>2, <3>3 DEF OutOfRange, Counted
    <3> QED
      BY <2>4, <3>1, <3>3, <3>4 DEF SelectRow
  <2>5. ASSUME ~(\E r \in 1..shown : DrawRow(r)), ~SelectRow
        PROVE  UNCHANGED <<sent, screen>>
    BY <2>5 DEF Next, FirstAnswer, FirstReload, LoadMoreData, LoadingBlock, Reload,
                AnswerFirstPage, AnswerPage, AppendRow, StoreNext, table
  <2> QED
    BY <2>1, <2>3, <2>4, <2>5 DEF OnScreen
<1>2. Spec => [][Safe]_vars
  BY <1>1, CalmInvariance, PTL DEF Spec
<1> QED
  BY <1>2 DEF NeverLosesRows

-----------------------------------------------------------------------------
(* The form that publishes the ad of the pokemon picked (AddPokemon): name,   *)
(* picture URL and picture of an ad belong together, whatever the order in   *)
(* which data and pictures arrive, for any pokemons, fields and number of    *)
(* requests under way.                                                      *)


\* The pokemon the controller keeps, when it has a picture URL, is the one the
\* screen has the name of; and so was every ad that was published.
Paired == /\ pokemon \in Artwork => namePokemon = pokemon
          /\ UrlMatchesName

\* What is under way for a user who waits: nothing; the data of one pokemon; or the
\* picture of the pokemon named.
Nothing(f) == \A n \in Names : f[n] = 0
OneOf(f, p) == \A n \in Names : f[n] = IF n = p THEN 1 ELSE 0
Waiting ==
    \/ Nothing(asked) /\ Nothing(loading) /\ namePokemon = pokemonImage
    \/ \E p \in Names : OneOf(asked, p) /\ Nothing(loading) /\ namePokemon = pokemonImage
    \/ \E p \in Artwork : Nothing(asked) /\ OneOf(loading, p) /\ namePokemon = p

AtPace == patient => Waiting

FormInv == FormTypeOK /\ Paired /\ AtPace

LEMMA NamesFacts == /\ Artwork \subseteq Names
                    /\ MaxRequests \in Nat /\ MaxRequests > 0
                    /\ NoPokemon \notin Names /\ NoAd \notin Ads
  BY ScreenAssumption, NoAdAssumption

LEMMA FormInvInit == InitForm => FormInv
  BY NamesFacts DEF InitForm, FormInv, FormTypeOK, Paired, UrlMatchesName, AtPace, Waiting,
     Nothing, Optional

\* What is handed to saveOffer is an ad, and its URL is that of the pokemon named.
LEMMA NewAdOK ==
  ASSUME FormInv
  PROVE  NewAd \in Ads /\ (NewAd.url # NoPokemon => NewAd.name = NewAd.url)
  BY NamesFacts DEF FormInv, FormTypeOK, Paired, NewAd, Ads, Optional

\* The variables keep their types.
LEMMA FormTypeNext == FormInv /\ [NextForm]_formVars => FormTypeOK'
<1> SUFFICES ASSUME FormInv, [NextForm]_formVars PROVE FormTypeOK'
  OBVIOUS
<1> USE NamesFacts DEF FormTypeOK, Optional, form
<1>0. FormTypeOK
  BY DEF FormInv
<1>1. ASSUME NEW n \in Names, SendDataToCadastroVC(n) PROVE FormTypeOK'
  BY <1>0, <1>1 DEF SendDataToCadastroVC
<1>2. ASSUME NEW n \in Names, PokemonAnswer(n) PROVE FormTypeOK'
  BY <1>0, <1>2 DEF PokemonAnswer
<1>3. ASSUME NEW n \in Names, PokemonError(n) PROVE FormTypeOK'
  BY <1>0, <1>3 DEF PokemonError
<1>4. ASSUME NEW n \in Names, ImageLoaded(n) PROVE FormTypeOK'
  BY <1>0, <1>4 DEF ImageLoaded
<1>5. ASSUME NEW n \in Names, ImageError(n) PROVE FormTypeOK'
  <2>1. /\ loading' \in [Names -> 0..MaxRequests]
        /\ \A m \in Names \ Artwork : loading'[m] = 0
    BY <1>0, <1>5 DEF ImageError
  <2>2. patient' = FALSE /\ UNCHANGED <<pokemon, namePokemon, pokemonImage, asked, form>>
    BY <1>5 DEF ImageError
  <2>3. QED
    BY <1>0, <2>1, <2>2
<1>6. ASSUME NEW found \in BOOLEAN, PhoneAnswer(found) PROVE FormTypeOK'
  BY <1>0, <1>6 DEF PhoneAnswer
<1>7. ASSUME NEW f \in Fields, Type(f) PROVE FormTypeOK'
  BY <1>0, <1>7 DEF Type
<1>8. ASSUME PressAdd PROVE FormTypeOK'
  BY <1>0, <1>8, NewAdOK DEF PressAdd
<1>9. ASSUME UNCHANGED formVars PROVE FormTypeOK'
  BY <1>0, <1>9 DEF formVars
<1>10. QED
  BY <1>1, <1>2, <1>3, <1>4, <1>5, <1>6, <1>7, <1>8, <1>9 DEF NextForm, Pictures, Form

\* Name and pokemon are overwritten together, or the pokemon by one without URL.
LEMMA PairedNext == FormInv /\ [NextForm]_formVars => Paired'
<1> SUFFICES ASSUME FormInv, [NextForm]_formVars PROVE Paired'
  OBVIOUS
<1> USE DEF Paired, UrlMatchesName, form
<1>0. FormTypeOK /\ Paired
  BY DEF FormInv
<1>1. ASSUME NEW n \in Names, PokemonAnswer(n) PROVE Paired'
  BY <1>0, <1>1 DEF PokemonAnswer
<1>2. ASSUME NEW n \in Names,
             SendDataToCadastroVC(n) \/ PokemonError(n) \/ ImageLoaded(n) \/ ImageError(n)
      PROVE  Paired'
  BY <1>0, <1>2 DEF SendDataToCadastroVC, PokemonError, ImageLoaded, ImageError
<1>3. ASSUME NEW found \in BOOLEAN, PhoneAnswer(found) PROVE Paired'
  BY <1>0, <1>3 DEF PhoneAnswer
<1>4. ASSUME NEW f \in Fields, Type(f) PROVE Paired'
  BY <1>0, <1>4 DEF Type
<1>5. ASSUME PressAdd PROVE Paired'
  BY <1>0, <1>5, NewAdOK DEF PressAdd
<1>6. ASSUME UNCHANGED formVars PROVE Paired'
  BY <1>0, <1>6 DEF formVars
<1>7. QED
  BY <1>1, <1>2, <1>3, <1>4, <1>5, <1>6 DEF NextForm, Pictures, Form

\* One thing after the other: a pick starts from nothing, its data start the
\* picture, and the picture ends with the pokemon that has been named.
LEMMA AtPaceNext == FormInv /\ [NextForm]_formVars => AtPace'
<1> SUFFICES ASSUME FormInv, [NextForm]_formVars, patient' PROVE Waiting'
  BY DEF AtPace
<1> USE DEF Nothing, OneOf, form
<1>0. FormTypeOK
  BY DEF FormInv
<1>i. patient => Waiting
  BY DEF FormInv, AtPace
<1>1. ASSUME NEW n \in Names, SendDataToCadastroVC(n) PROVE Waiting'
  <2>1. patient /\ Quiet
    BY <1>1 DEF SendDataToCadastroVC
  <2>2. Nothing(asked) /\ Nothing(loading) /\ namePokemon = pokemonImage
    BY <1>i, <2>1, NamesFacts DEF Quiet, Waiting
  <2>3. OneOf(asked', n) /\ UNCHANGED <<loading, namePokemon, pokemonImage>>
    BY <1>0, <1>1, <2>2 DEF SendDataToCadastroVC, FormTypeOK
  <2>4. QED
    BY <2>2, <2>3 DEF Waiting
<1>2. ASSUME NEW n \in Names, PokemonAnswer(n) PROVE Waiting'
  <2>1. Waiting /\ asked[n] > 0 /\ asked' = [asked EXCEPT ![n] = @ - 1]
    BY <1>i, <1>2 DEF PokemonAnswer
  <2>2. OneOf(asked, n) /\ Nothing(loading) /\ namePokemon = pokemonImage
    BY <1>0, <2>1 DEF Waiting, FormTypeOK
  <2>3. Nothing(asked') /\ pokemonImage' = pokemonImage
    BY <1>0, <1>2, <2>1, <2>2 DEF PokemonAnswer, FormTypeOK
  <2>4. CASE n \in Artwork
    <3>1. namePokemon' = n /\ loading' = [loading EXCEPT ![n] = @ + 1]
      BY <1>2, <2>4 DEF PokemonAnswer
    <3>2. OneOf(loading', n)
      BY <1>0, <2>2, <3>1 DEF FormTypeOK
    <3>3. QED
      BY <2>3, <2>4, <3>1, <3>2 DEF Waiting
  <2>5. CASE n \notin Artwork
    BY <1>2, <2>2, <2>3, <2>5 DEF PokemonAnswer, Waiting
  <2>6. QED
    BY <2>4, <2>5
<1>3. ASSUME NEW n \in Names, PokemonError(n) PROVE Waiting'
  <2>1. Waiting /\ asked[n] > 0 /\ asked' = [asked EXCEPT ![n] = @ - 1]
    BY <1>i, <1>3 DEF PokemonError
  <2>2. OneOf(asked, n) /\ Nothing(loading) /\ namePokemon = pokemonImage
    BY <1>0, <2>1 DEF Waiting, FormTypeOK
  <2>3. Nothing(asked')
    BY <1>0, <2>1, <2>2 DEF FormTypeOK
  <2>4. QED
    BY <1>3, <2>2, <2>3 DEF PokemonError, Waiting
<1>4. ASSUME NEW n \in Names, ImageLoaded(n) PROVE Waiting'
  <2>1. Waiting /\ loading[n] > 0 /\ loading' = [loading EXCEPT ![n] = @ - 1]
    BY <1>i, <1>4 DEF ImageLoaded
  <2>2. Nothing(asked) /\ OneOf(loading, n) /\ namePokemon = n
    BY <1>0, <2>1 DEF Waiting, FormTypeOK
  <2>3. Nothing(loading')
    BY <1>0, <2>1, <2>2 DEF FormTypeOK
  <2>4. QED
    BY <1>4, <2>2, <2>3 DEF ImageLoaded, Waiting
<1>5. ASSUME NEW n \in Names PROVE ~ImageError(n)
  BY DEF ImageError
<1>6. ASSUME Form PROVE Waiting'
  <2>1. UNCHANGED <<namePokemon, pokemonImage, asked, loading, patient>>
    BY <1>6 DEF Form, PhoneAnswer, Type, PressAdd
  <2>2. QED
    BY <1>i, <2>1 DEF Waiting
<1>7. ASSUME UNCHANGED formVars PROVE Waiting'
  BY <1>i, <1>7 DEF formVars, Waiting
<1>8. QED
  BY <1>1, <1>2, <1>3, <1>4, <1>5, <1>6, <1>7 DEF NextForm, Pictures

\* The inductive invariant of the publishing form.
THEOREM FormInvariance == SpecForm => []FormInv
<1>1. FormInv /\ [NextForm]_formVars => FormInv'
  BY FormTypeNext, PairedNext, AtPaceNext DEF FormInv
<1>2. QED
  BY FormInvInit, <1>1, PTL DEF SpecForm

\* The variables of AddPokemonViewController and its controller keep their types, and no
\* picture is under way for a pokemon without one.
THEOREM FormTypeCorrect == SpecForm => []FormTypeOK
  BY FormInvariance, PTL DEF FormInv

\* An ad with a picture URL has the name of that pokemon, however the answers for the
\* pokemons picked overlap, fail or come late (AddPokemonViewController lines 76-83, 107).
THEOREM UrlAndName == SpecForm => []UrlMatchesName
  BY FormInvariance, PTL DEF FormInv, Paired

\* A user who waits for one pokemon before picking the next publishes the one in the
\* picture (sendDataToCadastroVC changes name and picture together or not at all).
THEOREM PublishedAsSeen == SpecForm => AdIsSeen
<1>1. ASSUME FormInv, [NextForm]_formVars, patient, Quiet, ad' # ad
      PROVE  ad'.name = pokemonImage
  <2>1. PressAdd
    BY <1>1 DEF NextForm, Pictures, Form, SendDataToCadastroVC, PokemonAnswer, PokemonError,
       ImageLoaded, ImageError, PhoneAnswer, Type, formVars, form
  <2>2. ad'.name = namePokemon
    BY <1>1, <2>1 DEF PressAdd, NewAd
  <2>3. namePokemon = pokemonImage
    BY <1>1, NamesFacts DEF FormInv, AtPace, Waiting, Quiet, Nothing, OneOf
  <2>4. QED
    BY <2>2, <2>3
<1>2. FormInv /\ [NextForm]_formVars
        => [patient /\ Quiet /\ ad' # ad => ad'.name = pokemonImage]_formVars
  BY <1>1
<1>3. QED
  BY <1>2, FormInvariance, PTL DEF SpecForm, AdIsSeen
=============================================================================

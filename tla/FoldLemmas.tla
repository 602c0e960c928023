----------------------------- MODULE FoldLemmas -----------------------------
(***************************************************************************)
(* Induction over the numbers, and loops over a finite set.                 *)
(*                                                                          *)
(* FoldSet is defined by a function on the subsets of the set that refers   *)
(* to itself; that there is such a function has to be shown before anything *)
(* can be said of the value of a fold.  Step(p, x, acc) is the body of a    *)
(* loop with parameter p.  The module is instantiated once for every loop;  *)
(* the constant has no other meaning.                                       *)
(***************************************************************************)
EXTENDS FiniteSetTheorems, FiniteSetsExt, TLAPS

CONSTANT Step(_, _, _)

-----------------------------------------------------------------------------
(* Numbers                                                                  *)

\* A set of naturals with an element has a least one: strict inclusion of the
\* initial segments is well founded.  It is the form induction takes here.
LEMMA LeastNatural ==
    ASSUME NEW T \in SUBSET Nat, NEW t \in T
    PROVE  \E m \in T : \A y \in T : m <= y
<1> DEFINE F == {U \in SUBSET Nat : \E x \in T : U = 0..x}
           R == StrictSubsetOrdering(Nat)
<1>1. F \subseteq FiniteSubsetsOf(Nat)
  <2> SUFFICES ASSUME NEW x \in T PROVE IsFiniteSet(0..x)
    BY DEF FiniteSubsetsOf
  <2> QED
    BY FS_Interval
<1>2. 0..t \in F
  OBVIOUS
<1>3. IsWellFoundedOn(R, FiniteSubsetsOf(Nat))
  BY FS_StrictSubsetOrderingWellFounded
<1>4. PICK U \in F : \A V \in F : ~(<<V, U>> \in R)
  <2> HIDE DEF F, R
  <2>1. F # {}
    BY <1>2
  <2> QED
    BY <1>1, <1>3, <2>1, WFMin
<1>5. PICK m \in T : U = 0..m
  OBVIOUS
<1>6. ASSUME NEW y \in T PROVE m <= y
  <2> SUFFICES ASSUME y < m PROVE FALSE
    OBVIOUS
  <2>1. 0..y \in F
    OBVIOUS
  <2>2. 0..y \subseteq 0..m /\ 0..y # 0..m
    <3>1. m \in 0..m /\ m \notin 0..y
      OBVIOUS
    <3> QED
      BY <3>1
  <2>3. <<0..y, U>> \in R
    BY <1>5, <2>2 DEF StrictSubsetOrdering
  <2> QED
    BY <1>4, <2>1, <2>3
<1> QED
  BY <1>6

\* Induction, with the set of the numbers that have the property.
LEMMA SetOfNats ==
    ASSUME NEW F, 0 \in F, \A n \in Nat : n \in F => n + 1 \in F
    PROVE  Nat \subseteq F
<1> SUFFICES ASSUME NEW t \in Nat \ F PROVE FALSE
  OBVIOUS
<1> DEFINE T == Nat \ F
<1>1. PICK m \in T : \A y \in T : m <= y
  <2>1. T \in SUBSET Nat /\ t \in T
    OBVIOUS
  <2> HIDE DEF T
  <2> QED
    BY <2>1, LeastNatural
<1>2. m # 0
  OBVIOUS
<1>3. m - 1 \in Nat /\ m - 1 < m /\ (m - 1) + 1 = m
  BY <1>2
<1>4. m - 1 \in F
  <2>1. m - 1 \notin T
    BY <1>1, <1>3
  <2> QED
    BY <1>3, <2>1
<1> QED
  BY <1>3, <1>4

-----------------------------------------------------------------------------
(* Loops                                                                    *)


Loop(p, base, S) == FoldSet(LAMBDA x, acc : Step(p, x, acc), base, S)

Some(s) == CHOOSE x \in s : TRUE
After(p, base, g, s) == IF s = {} THEN base ELSE Step(p, Some(s), g[s \ {Some(s)}])
Run(p, base, S) == CHOOSE g : g = [s \in SUBSET S |-> After(p, base, g, s)]

LEMMA LoopDef ==
    ASSUME NEW p, NEW base, NEW S
    PROVE  Loop(p, base, S) = Run(p, base, S)[S]
BY DEF Loop, FoldSet, MapThenFoldSet, Run, After, Some

LEMMA SomeOf ==
    ASSUME NEW S, IsFiniteSet(S), NEW s \in SUBSET S, s # {}
    PROVE  /\ Some(s) \in s
           /\ Cardinality(s) \in Nat \ {0}
           /\ Cardinality(s \ {Some(s)}) = Cardinality(s) - 1
<1>1. Some(s) \in s
  BY DEF Some
<1>2. IsFiniteSet(s)
  BY FS_Subset
<1> QED
  BY <1>1, <1>2, FS_RemoveElement, FS_EmptySet, FS_CardinalityType

\* There is such a function: it is extended to the sets with one element more.
LEMMA RunExists ==
    ASSUME NEW p, NEW base, NEW S, IsFiniteSet(S)
    PROVE  \E g : g = [s \in SUBSET S |-> After(p, base, g, s)]
<1> DEFINE H(n) == {s \in SUBSET S : Cardinality(s) <= n}
           P(n) == \E g : g = [s \in H(n) |-> After(p, base, g, s)]
           F == {n \in Nat : P(n)}
<1>1. P(0)
  <2> DEFINE g == [s \in H(0) |-> base]
  <2>1. ASSUME NEW s \in H(0) PROVE s = {}
    <3>1. SUFFICES ASSUME s # {} PROVE FALSE
      OBVIOUS
    <3>2. Cardinality(s) \in Nat \ {0} /\ Cardinality(s) <= 0
      BY <3>1, SomeOf
    <3> QED
      BY <3>2
  <2>2. g = [s \in H(0) |-> After(p, base, g, s)]
    BY <2>1 DEF After
  <2> HIDE DEF g
  <2> QED
    BY <2>2
<1>2. ASSUME NEW n \in Nat, P(n) PROVE P(n + 1)
  <2>1. PICK g : g = [s \in H(n) |-> After(p, base, g, s)]
    BY <1>2
  <2> DEFINE h == [s \in H(n + 1) |->
                      IF s \in H(n) THEN g[s] ELSE Step(p, Some(s), g[s \ {Some(s)}])]
  <2>2. ASSUME NEW s \in H(n + 1) PROVE h[s] = After(p, base, h, s)
    <3>1. CASE s = {}
      <4>1. s \in H(n)
        BY <3>1, FS_EmptySet
      <4>2. h[s] = g[s] /\ g[s] = After(p, base, g, s)
        BY <2>1, <4>1
      <4> HIDE DEF h
      <4> QED
        BY <3>1, <4>2 DEF After
    <3>2. CASE s # {}
      <4>1. /\ Some(s) \in s
            /\ Cardinality(s) \in Nat \ {0}
            /\ Cardinality(s \ {Some(s)}) = Cardinality(s) - 1
        BY <3>2, SomeOf
      <4>2. s \ {Some(s)} \in H(n) /\ s \ {Some(s)} \in H(n + 1)
        BY <4>1
      <4>3. h[s \ {Some(s)}] = g[s \ {Some(s)}]
        BY <4>2
      <4>4. h[s] = Step(p, Some(s), g[s \ {Some(s)}])
        <5>1. CASE s \in H(n)
          <6>1. h[s] = g[s] /\ g[s] = After(p, base, g, s)
            BY <2>1, <5>1
          <6> HIDE DEF h
          <6> QED
            BY <3>2, <6>1 DEF After
        <5>2. CASE s \notin H(n)
          BY <5>2
        <5> QED
          BY <5>1, <5>2
      <4> HIDE DEF h
      <4> QED
        BY <3>2, <4>3, <4>4 DEF After
    <3> QED
      BY <3>1, <3>2
  <2>3. h = [s \in H(n + 1) |-> After(p, base, h, s)]
    BY <2>2
  <2> HIDE DEF h
  <2> QED
    BY <2>3
<1>3. Cardinality(S) \in Nat
  BY FS_CardinalityType
<1>4. H(Cardinality(S)) = SUBSET S
  BY FS_Subset
<1> HIDE DEF P
<1>5. Nat \subseteq F
  <2>1. 0 \in F /\ \A n \in Nat : n \in F => n + 1 \in F
    BY <1>1, <1>2
  <2> HIDE DEF F
  <2> QED
    BY <2>1, SetOfNats
<1>6. P(Cardinality(S))
  BY <1>3, <1>5
<1> QED
  BY <1>4, <1>6 DEF P

\* A finite set is one that can be listed; said without IsFiniteSet, because what an instance
\* of this module makes of that operator is no longer the operator of its user.
Listing(S) == \E n \in Nat : \E f \in [1..n -> S] : \A x \in S : \E i \in 1..n : f[i] = x

LEMMA ListingFinite == ASSUME NEW S, Listing(S) PROVE IsFiniteSet(S)
<1>1. PICK n \in Nat : \E f \in [1..n -> S] : \A x \in S : \E i \in 1..n : f[i] = x
  BY DEF Listing
<1>2. ExistsSurjection(1..n, S)
  BY <1>1 DEF ExistsSurjection, Surjection
<1> QED
  BY <1>2, FS_NatSurjection

\* What holds before the loop and is kept by every step of it holds after it; V is the
\* set of what has been done and what there is, of those that have the property.
LEMMA LoopKeeps ==
    ASSUME NEW p, NEW base, NEW S,
           \E n \in Nat : \E f \in [1..n -> S] : \A x \in S : \E i \in 1..n : f[i] = x
    PROVE  \E R : /\ <<{}, base>> \in R
                  /\ \A V : /\ <<{}, base>> \in V
                            /\ \A done, acc, x :
                                  /\ <<done, acc>> \in V /\ done \subseteq S /\ x \in S \ done
                                  /\ <<done \cup {x}, Step(p, x, acc)>> \in R
                                  => <<done \cup {x}, Step(p, x, acc)>> \in V
                            => <<S, Loop(p, base, S)>> \in V
<1> DEFINE g == Run(p, base, S)
           R == {<<s, g[s]>> : s \in SUBSET S}
<1>0. IsFiniteSet(S)
  BY ListingFinite DEF Listing
<1>1. g = [s \in SUBSET S |-> After(p, base, g, s)]
  BY <1>0, RunExists DEF Run
<1> HIDE DEF g
<1>2. \A s \in SUBSET S : g[s] = After(p, base, g, s)
  BY <1>1
<1>3. <<{}, base>> \in R
  BY <1>2 DEF After
<1>4. ASSUME NEW V, <<{}, base>> \in V,
             \A done, acc, x :
                /\ <<done, acc>> \in V /\ done \subseteq S /\ x \in S \ done
                /\ <<done \cup {x}, Step(p, x, acc)>> \in R
                => <<done \cup {x}, Step(p, x, acc)>> \in V
      PROVE  <<S, Loop(p, base, S)>> \in V
  <2> DEFINE G == {n \in Nat : \A s \in SUBSET S : Cardinality(s) = n => <<s, g[s]>> \in V}
  <2>1. 0 \in G
    <3> SUFFICES ASSUME NEW s \in SUBSET S, Cardinality(s) = 0 PROVE <<s, g[s]>> \in V
      OBVIOUS
    <3>1. s = {}
      BY <1>0, SomeOf
    <3> QED
      BY <1>2, <1>4, <3>1 DEF After
  <2>2. ASSUME NEW n \in Nat, n \in G PROVE n + 1 \in G
    <3> SUFFICES ASSUME NEW s \in SUBSET S, Cardinality(s) = n + 1 PROVE <<s, g[s]>> \in V
      OBVIOUS
    <3>1. s # {}
      <4>1. Cardinality({}) = 0
        BY FS_EmptySet
      <4> QED
        BY <4>1
    <3> DEFINE x == Some(s)
               r == s \ {x}
    <3>2. x \in s /\ Cardinality(r) = n
      BY <1>0, <3>1, SomeOf
    <3>3. g[s] = Step(p, x, g[r])
      BY <1>2, <3>1 DEF After
    <3> HIDE DEF x
    <3>4. <<r, g[r]>> \in V /\ r \subseteq S /\ x \in S \ r /\ s = r \cup {x}
      BY <2>2, <3>2
    <3>5. <<r \cup {x}, Step(p, x, g[r])>> \in R
      BY <3>3, <3>4
    <3> HIDE DEF R, r
    <3>6. <<r \cup {x}, Step(p, x, g[r])>> \in V
      BY <1>4, <3>4, <3>5
    <3> QED
      BY <3>3, <3>4, <3>6
  <2>3. Nat \subseteq G
    <3> HIDE DEF G
    <3> QED
      BY <2>1, <2>2, SetOfNats
  <2>4. Cardinality(S) \in Nat
    BY <1>0, FS_CardinalityType
  <2>5. <<S, g[S]>> \in V
    BY <2>3, <2>4
  <2> QED
    BY <2>5, LoopDef DEF g
<1> HIDE DEF R
<1> QED
  BY <1>3, <1>4
=============================================================================

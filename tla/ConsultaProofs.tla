--------------------------- MODULE ConsultaProofs ---------------------------
(***************************************************************************)
(* The safety of the read path for any documents, versions, calls and       *)
(* faults.                                                                   *)
(*                                                                          *)
(* The handlers of the client are operators composed of operators, so the   *)
(* proof is composed the same way: for each method, from the innermost      *)
(* out, a lemma says which fields it leaves alone and which parts of the    *)
(* invariant it keeps.                                                      *)
(***************************************************************************)
EXTENDS Consulta, FiniteSetTheorems, SequenceTheorems, TLAPS

\* Induction, as module FoldLemmas has it; no loop is meant.
Numbers == INSTANCE FoldLemmas WITH Step <- LAMBDA p, x, acc : acc

-----------------------------------------------------------------------------
(* Sequences, and functions that grow and shrink *)

IsSeq(q) == \E S : q \in Seq(S)

LEMMA SeqFacts ==
    ASSUME NEW q, IsSeq(q)
    PROVE  /\ Len(q) \in Nat /\ DOMAIN q = 1..Len(q)
           /\ q \in Seq(Range(q))
           /\ q = <<>> <=> Len(q) = 0
           /\ \A i \in 1..Len(q) : q[i] \in Range(q)
           /\ \A x \in Range(q) : \E i \in 1..Len(q) : q[i] = x
<1>1. PICK S : q \in Seq(S)
  BY DEF IsSeq
<1>2. Len(q) \in Nat /\ DOMAIN q = 1..Len(q) /\ q \in [1..Len(q) -> S]
  BY <1>1, LenProperties
<1>3. /\ \A i \in 1..Len(q) : q[i] \in Range(q)
      /\ \A x \in Range(q) : \E i \in 1..Len(q) : q[i] = x
  BY <1>2 DEF Range
<1>4. q \in [1..Len(q) -> Range(q)]
  BY <1>2, <1>3
<1>5. q \in Seq(Range(q))
  BY <1>2, <1>4, SeqDef
<1> QED
  BY <1>1, <1>2, <1>3, <1>5, EmptySeq

LEMMA SeqFun ==
    ASSUME NEW f, NEW n \in Nat, DOMAIN f = 1..n, f = [i \in 1..n |-> f[i]]
    PROVE  IsSeq(f) /\ Len(f) = n
<1>1. f \in [1..n -> Range(f)]
  BY DEF Range
<1>2. f \in Seq(Range(f))
  BY <1>1, SeqDef
<1> QED
  BY <1>2, LenProperties DEF IsSeq

LEMMA SeqOne == \A x : IsSeq(<<x>>) /\ Len(<<x>>) = 1 /\ <<x>>[1] = x /\ Range(<<x>>) = {x}
<1> SUFFICES ASSUME NEW x PROVE IsSeq(<<x>>) /\ Len(<<x>>) = 1 /\ <<x>>[1] = x /\ Range(<<x>>) = {x}
  OBVIOUS
<1>1. <<x>> \in Seq({x}) /\ Len(<<x>>) = 1 /\ <<x>>[1] = x
  OBVIOUS
<1>2. IsSeq(<<x>>)
  BY <1>1 DEF IsSeq
<1>3. DOMAIN <<x>> = 1..1 /\ 1..1 = {1}
  BY <1>1, <1>2, SeqFacts
<1>4. Range(<<x>>) = {x}
  BY <1>1, <1>3 DEF Range
<1> QED
  BY <1>1, <1>2, <1>4

LEMMA SeqAppend ==
    ASSUME NEW q, IsSeq(q), NEW x
    PROVE  /\ IsSeq(Append(q, x)) /\ Len(Append(q, x)) = Len(q) + 1
           /\ \A i \in 1..Len(q) : Append(q, x)[i] = q[i]
           /\ Append(q, x)[Len(q) + 1] = x
           /\ Range(Append(q, x)) = Range(q) \cup {x}
<1> DEFINE S == Range(q) \cup {x}
           r == Append(q, x)
<1>1. q \in Seq(S) /\ x \in S /\ Len(q) \in Nat
  BY SeqFacts, SeqMonotonic
<1>2. /\ r \in Seq(S) /\ Len(r) = Len(q) + 1
      /\ \A i \in 1..Len(q) : r[i] = q[i]
      /\ r[Len(q) + 1] = x
  <2> HIDE DEF S
  <2> QED
    BY <1>1, AppendProperties
<1>3. IsSeq(r)
  BY <1>2 DEF IsSeq
<1> HIDE DEF r
<1>4. Range(r) = Range(q) \cup {x}
  <2>1. DOMAIN r = 1..(Len(q) + 1) /\ DOMAIN q = 1..Len(q)
    BY <1>2, <1>3, SeqFacts
  <2>2. ASSUME NEW y \in Range(r) PROVE y \in Range(q) \cup {x}
    <3>1. PICK i \in 1..(Len(q) + 1) : y = r[i]
      BY <2>1 DEF Range
    <3>2. i \in 1..Len(q) \/ i = Len(q) + 1
      BY <1>1
    <3> QED
      BY <1>2, <2>1, <3>1, <3>2, SeqFacts
  <2>3. ASSUME NEW y \in Range(q) PROVE y \in Range(r)
    <3>1. PICK i \in 1..Len(q) : y = q[i]
      BY SeqFacts
    <3>2. i \in DOMAIN r /\ r[i] = y
      BY <1>1, <1>2, <2>1, <3>1
    <3> QED
      BY <3>2 DEF Range
  <2>4. Len(q) + 1 \in DOMAIN r /\ r[Len(q) + 1] = x
    BY <1>1, <1>2, <2>1
  <2>5. x \in Range(r)
    BY <2>4 DEF Range
  <2> QED
    BY <2>2, <2>3, <2>5
<1> QED
  BY <1>2, <1>3, <1>4 DEF r

LEMMA SeqConcat ==
    ASSUME NEW p, NEW q, IsSeq(p), IsSeq(q)
    PROVE  /\ IsSeq(p \o q) /\ Len(p \o q) = Len(p) + Len(q)
           /\ \A i \in 1..Len(p) : (p \o q)[i] = p[i]
           /\ \A i \in 1..Len(q) : (p \o q)[Len(p) + i] = q[i]
           /\ \A i \in 1..(Len(p) + Len(q)) :
                 i \notin 1..Len(p) => i - Len(p) \in 1..Len(q) /\ (p \o q)[i] = q[i - Len(p)]
           /\ Range(p \o q) = Range(p) \cup Range(q)
<1> DEFINE S == Range(p) \cup Range(q)
           r == p \o q
<1>1. /\ p \in Seq(S) /\ q \in Seq(S) /\ Len(p) \in Nat /\ Len(q) \in Nat
      /\ DOMAIN p = 1..Len(p) /\ DOMAIN q = 1..Len(q)
  BY SeqFacts, SeqMonotonic
<1>2. /\ r \in Seq(S) /\ Len(r) = Len(p) + Len(q)
      /\ \A i \in 1..(Len(p) + Len(q)) : r[i] = IF i <= Len(p) THEN p[i] ELSE q[i - Len(p)]
  <2> HIDE DEF S
  <2> QED
    BY <1>1, ConcatProperties
<1>3. IsSeq(r) /\ DOMAIN r = 1..(Len(p) + Len(q))
  BY <1>2, SeqFacts DEF IsSeq
<1> HIDE DEF r
<1>4. \A i \in 1..Len(p) : r[i] = p[i]
  BY <1>1, <1>2
<1>5. \A i \in 1..Len(q) : r[Len(p) + i] = q[i]
  BY <1>1, <1>2
<1>6. \A i \in 1..(Len(p) + Len(q)) :
         i \notin 1..Len(p) => i - Len(p) \in 1..Len(q) /\ r[i] = q[i - Len(p)]
  BY <1>1, <1>2
<1>7. Range(r) = Range(p) \cup Range(q)
  <2>1. Range(r) \subseteq Range(p) \cup Range(q)
    BY <1>1, <1>3, <1>4, <1>6 DEF Range
  <2>2. Range(p) \subseteq Range(r)
    BY <1>1, <1>3, <1>4 DEF Range
  <2>3. Range(q) \subseteq Range(r)
    <3> SUFFICES ASSUME NEW i \in 1..Len(q) PROVE q[i] \in Range(r)
      BY <1>1 DEF Range
    <3>1. Len(p) + i \in DOMAIN r
      BY <1>1, <1>3
    <3> QED
      BY <1>5, <3>1 DEF Range
  <2> QED
    BY <2>1, <2>2, <2>3
<1> QED
  BY <1>2, <1>3, <1>4, <1>5, <1>6, <1>7 DEF r

\* The same two facts, with names for the sequences that the provers leave alone.
Grown(q, x) == Append(q, x)
Joined(p, q) == p \o q

LEMMA GrownIs ==
    ASSUME NEW q, IsSeq(q), NEW x
    PROVE  /\ IsSeq(Grown(q, x)) /\ Len(Grown(q, x)) = Len(q) + 1
           /\ \A i \in 1..Len(q) : Grown(q, x)[i] = q[i]
           /\ Grown(q, x)[Len(q) + 1] = x
           /\ Range(Grown(q, x)) = Range(q) \cup {x}
BY SeqAppend DEF Grown

LEMMA JoinedIs ==
    ASSUME NEW p, NEW q, IsSeq(p), IsSeq(q)
    PROVE  /\ IsSeq(Joined(p, q)) /\ Len(Joined(p, q)) = Len(p) + Len(q)
           /\ \A i \in 1..Len(p) : Joined(p, q)[i] = p[i]
           /\ \A i \in 1..Len(q) : Joined(p, q)[Len(p) + i] = q[i]
           /\ \A i \in 1..(Len(p) + Len(q)) :
                 i \notin 1..Len(p) => i - Len(p) \in 1..Len(q) /\ Joined(p, q)[i] = q[i - Len(p)]
           /\ Range(Joined(p, q)) = Range(p) \cup Range(q)
BY SeqConcat DEF Joined

LEMMA SeqTail ==
    ASSUME NEW q, IsSeq(q), q # <<>>
    PROVE  /\ IsSeq(Tail(q)) /\ Len(Tail(q)) = Len(q) - 1 /\ Len(q) \in Nat \ {0}
           /\ \A i \in 1..Len(Tail(q)) : Tail(q)[i] = q[i + 1]
           /\ Head(q) = q[1]
           /\ Range(Tail(q)) \subseteq Range(q) /\ Head(q) \in Range(q)
           /\ Range(q) \subseteq Range(Tail(q)) \cup {Head(q)}
<1>1. q \in Seq(Range(q)) /\ Len(q) \in Nat \ {0} /\ DOMAIN q = 1..Len(q)
  BY SeqFacts
<1>2. /\ Tail(q) \in Seq(Range(q)) /\ Head(q) \in Range(q)
      /\ Len(Tail(q)) = Len(q) - 1
      /\ \A i \in 1..Len(Tail(q)) : Tail(q)[i] = q[i + 1]
  BY <1>1, HeadTailProperties
<1>3. Head(q) = q[1]
  BY <1>1
<1>4. IsSeq(Tail(q)) /\ DOMAIN Tail(q) = 1..(Len(q) - 1)
  BY <1>2, SeqFacts DEF IsSeq
<1>5. Range(Tail(q)) \subseteq Range(q)
  <2> SUFFICES ASSUME NEW i \in 1..(Len(q) - 1) PROVE Tail(q)[i] \in Range(q)
    BY <1>4 DEF Range
  <2>1. i + 1 \in DOMAIN q
    BY <1>1
  <2> QED
    BY <1>1, <1>2, <2>1 DEF Range
<1>6. Range(q) \subseteq Range(Tail(q)) \cup {Head(q)}
  <2> SUFFICES ASSUME NEW i \in 1..Len(q) PROVE q[i] \in Range(Tail(q)) \cup {Head(q)}
    BY <1>1 DEF Range
  <2>1. CASE i = 1
    BY <1>3, <2>1
  <2>2. CASE i # 1
    <3>1. i - 1 \in 1..(Len(q) - 1) /\ (i - 1) + 1 = i
      BY <1>1, <2>2
    <3>2. Tail(q)[i - 1] = q[i] /\ i - 1 \in DOMAIN Tail(q)
      BY <1>2, <1>4, <3>1
    <3> QED
      BY <3>2 DEF Range
  <2> QED
    BY <2>1, <2>2
<1> QED
  BY <1>1, <1>2, <1>3, <1>4, <1>5, <1>6

LEMMA SeqEmpty == IsSeq(<<>>) /\ Len(<<>>) = 0 /\ Range(<<>>) = {}
BY DEF IsSeq, Range

LEMMA PutDomain == \A f, k, v : DOMAIN Put(f, k, v) = DOMAIN f \cup {k}
BY DEF Put

LEMMA DropIs ==
    ASSUME NEW f, NEW k
    PROVE  /\ DOMAIN Drop(f, k) = DOMAIN f \ {k}
           /\ \A x \in DOMAIN f : x # k => Drop(f, k)[x] = f[x]
BY DEF Drop

-----------------------------------------------------------------------------
(* Only: what a sequence has of a set                                       *)

Ascending(q) == \A i, j \in DOMAIN q : i < j => q[i] < q[j]

\* Only is the last value of a function defined by itself; this is its body.
KeptAt(q, set, f, i) ==
  IF i = 0 THEN <<>> ELSE IF q[i] \in set THEN Append(f[i - 1], q[i]) ELSE f[i - 1]
Kept(q, set) == CHOOSE f : f = [i \in 0..Len(q) |-> KeptAt(q, set, f, i)]

LEMMA OnlyDef == ASSUME NEW q, NEW set PROVE Only(q, set) = Kept(q, set)[Len(q)]
BY DEF Only, Kept, KeptAt

\* There is such a function: it is extended position by position.
LEMMA KeptExists ==
    ASSUME NEW q, NEW set, NEW n \in Nat
    PROVE  \E f : f = [i \in 0..n |-> KeptAt(q, set, f, i)]
<1> DEFINE F == {m \in Nat : \E f : f = [i \in 0..m |-> KeptAt(q, set, f, i)]}
<1>1. 0 \in F
  <2> DEFINE f == [i \in 0..0 |-> <<>>]
  <2>1. \A i \in 0..0 : i = 0
    OBVIOUS
  <2>2. f = [i \in 0..0 |-> KeptAt(q, set, f, i)]
    BY <2>1 DEF KeptAt
  <2> HIDE DEF f
  <2> QED BY <2>2
<1>2. ASSUME NEW m \in Nat, m \in F PROVE m + 1 \in F
  <2>1. PICK f : f = [i \in 0..m |-> KeptAt(q, set, f, i)]
    BY <1>2
  <2> DEFINE g == [i \in 0..(m + 1) |-> IF i = m + 1 THEN KeptAt(q, set, f, i) ELSE f[i]]
  <2>2. \A i \in 0..m : g[i] = f[i] /\ f[i] = KeptAt(q, set, f, i)
    BY <2>1
  <2>3. g[m + 1] = KeptAt(q, set, f, m + 1)
    OBVIOUS
  <2>4. ASSUME NEW i \in 0..(m + 1) PROVE g[i] = KeptAt(q, set, g, i)
    <3>1. CASE i = 0
      <4>1. 0 \in 0..m
        OBVIOUS
      <4>2. g[0] = KeptAt(q, set, f, 0)
        BY <2>2, <4>1
      <4> HIDE DEF g
      <4> QED BY <3>1, <4>2 DEF KeptAt
    <3>2. CASE i # 0
      <4>1. i - 1 \in 0..m
        BY <3>2
      <4>2. g[i - 1] = f[i - 1]
        BY <2>2, <4>1
      <4>3. g[i] = KeptAt(q, set, f, i)
        <5>1. i = m + 1 \/ i \in 0..m
          OBVIOUS
        <5> HIDE DEF g
        <5> QED BY <2>2, <2>3, <5>1
      <4> HIDE DEF g
      <4> QED BY <3>2, <4>2, <4>3 DEF KeptAt
    <3> QED BY <3>1, <3>2
  <2>5. g = [i \in 0..(m + 1) |-> KeptAt(q, set, g, i)]
    BY <2>4
  <2> HIDE DEF g
  <2> QED BY <2>5
<1> HIDE DEF F
<1>3. Nat \subseteq F
  BY <1>1, <1>2, Numbers!SetOfNats
<1> QED BY <1>3 DEF F

\* It has the elements of the sequence that are in the set, and keeps their order.
LEMMA OnlyIs ==
    ASSUME NEW q, IsSeq(q), Range(q) \subseteq Nat, Ascending(q), NEW set
    PROVE  /\ IsSeq(Only(q, set)) /\ Range(Only(q, set)) = Range(q) \cap set
           /\ Ascending(Only(q, set))
<1> DEFINE n == Len(q)
           c == Kept(q, set)
           seen(k) == {q[j] : j \in 1..k} \cap set
           F == {k \in Nat : k <= n => /\ IsSeq(c[k]) /\ Range(c[k]) = seen(k)
                                       /\ Ascending(c[k])}
<1>1. n \in Nat /\ DOMAIN q = 1..n /\ \A i \in 1..n : q[i] \in Nat
  BY SeqFacts
<1>2. \A i, j \in 1..n : i < j => q[i] < q[j]
  BY <1>1 DEF Ascending
<1> HIDE DEF n
<1>3. c = [i \in 0..n |-> KeptAt(q, set, c, i)]
  BY <1>1, KeptExists DEF Kept, n
<1> HIDE DEF c
<1>4. c[0] = <<>>
  <2>1. 0 \in 0..n
    BY <1>1
  <2>2. c[0] = KeptAt(q, set, c, 0)
    BY <1>3, <2>1
  <2> QED
    BY <2>2 DEF KeptAt
<1>5. \A i \in 1..n : c[i] = IF q[i] \in set THEN Append(c[i - 1], q[i]) ELSE c[i - 1]
  <2> SUFFICES ASSUME NEW i \in 1..n
               PROVE  c[i] = IF q[i] \in set THEN Append(c[i - 1], q[i]) ELSE c[i - 1]
    OBVIOUS
  <2>1. i \in 0..n /\ i # 0
    BY <1>1
  <2>2. c[i] = KeptAt(q, set, c, i)
    BY <1>3, <2>1
  <2> QED
    BY <2>1, <2>2 DEF KeptAt
<1>6. 0 \in F
  <2>1. IsSeq(<<>>) /\ Range(<<>>) = {} /\ Len(<<>>) = 0
    BY SeqEmpty
  <2>2. DOMAIN <<>> = {}
    OBVIOUS
  <2>3. Ascending(<<>>)
    BY <2>2 DEF Ascending
  <2>4. seen(0) = {}
    OBVIOUS
  <2> QED
    BY <1>4, <2>1, <2>3, <2>4
<1>7. ASSUME NEW k \in Nat, k \in F PROVE k + 1 \in F
  <2> SUFFICES ASSUME k + 1 <= n
               PROVE  /\ IsSeq(c[k + 1]) /\ Range(c[k + 1]) = seen(k + 1)
                      /\ Ascending(c[k + 1])
    OBVIOUS
  <2>1. IsSeq(c[k]) /\ Range(c[k]) = seen(k) /\ Ascending(c[k])
    BY <1>1, <1>7
  <2>2. k + 1 \in 1..n /\ (k + 1) - 1 = k
    BY <1>1
  <2>3. {q[j] : j \in 1..(k + 1)} = {q[j] : j \in 1..k} \cup {q[k + 1]}
    <3>1. \A j \in 1..(k + 1) : j \in 1..k \/ j = k + 1
      OBVIOUS
    <3>2. \A j \in 1..k : j \in 1..(k + 1)
      OBVIOUS
    <3>3. k + 1 \in 1..(k + 1)
      OBVIOUS
    <3> QED
      BY <3>1, <3>2, <3>3
  <2>4. CASE q[k + 1] \notin set
    <3>1. c[k + 1] = c[k]
      BY <1>5, <2>2, <2>4
    <3> QED
      BY <2>1, <2>3, <2>4, <3>1
  <2>5. CASE q[k + 1] \in set
    <3> DEFINE r == Append(c[k], q[k + 1])
               l == Len(c[k])
    <3>1. c[k + 1] = r
      BY <1>5, <2>2, <2>5
    <3>2. /\ IsSeq(r) /\ Len(r) = l + 1 /\ l \in Nat
          /\ \A i \in 1..l : r[i] = c[k][i]
          /\ r[l + 1] = q[k + 1]
          /\ Range(r) = Range(c[k]) \cup {q[k + 1]}
      BY <2>1, SeqAppend, SeqFacts
    <3>3. DOMAIN r = 1..(l + 1) /\ DOMAIN c[k] = 1..l
      BY <2>1, <3>2, SeqFacts
    <3> HIDE DEF r, l
    <3>4. \A i \in 1..l : r[i] < q[k + 1]
      <4> SUFFICES ASSUME NEW i \in 1..l PROVE r[i] < q[k + 1]
        OBVIOUS
      <4>1. r[i] \in Range(c[k])
        BY <3>2, <3>3 DEF Range
      <4>2. PICK j \in 1..k : r[i] = q[j]
        BY <2>1, <4>1
      <4>3. j \in 1..n /\ j < k + 1
        BY <1>1, <2>2
      <4> QED
        BY <1>2, <2>2, <4>2, <4>3
    <3>5. Ascending(r)
      <4> SUFFICES ASSUME NEW i \in 1..(l + 1), NEW j \in 1..(l + 1), i < j
                   PROVE  r[i] < r[j]
        BY <3>3 DEF Ascending
      <4>1. i \in 1..l
        BY <3>2
      <4>2. CASE j = l + 1
        BY <3>2, <3>4, <4>1, <4>2
      <4>3. CASE j # l + 1
        <5>1. j \in 1..l
          BY <3>2, <4>3
        <5> QED
          BY <2>1, <3>2, <3>3, <4>1, <5>1 DEF Ascending
      <4> QED
        BY <4>2, <4>3
    <3> QED
      BY <2>1, <2>3, <2>5, <3>1, <3>2, <3>5
  <2> QED
    BY <2>4, <2>5
<1>8. Nat \subseteq F
  <2> HIDE DEF F
  <2> QED
    BY <1>6, <1>7, Numbers!SetOfNats
<1>9. seen(n) = Range(q) \cap set
  BY <1>1 DEF Range
<1>10. IsSeq(c[n]) /\ Range(c[n]) = seen(n) /\ Ascending(c[n])
  BY <1>1, <1>8
<1>11. Only(q, set) = c[n]
  BY OnlyDef DEF c, n
<1> QED
  BY <1>9, <1>10, <1>11

-----------------------------------------------------------------------------
(* What a method leaves alone                                               *)

Fields == {"stream", "network", "idle", "up", "down", "agg", "listen", "online", "failed",
           "timer", "view", "enqueued", "active", "lookups", "cache", "remoteKeys", "token",
           "lastRemote", "mutation", "listeners", "raised", "mail", "aborted", "lostReset"}
ViewFields == {"current", "synced", "limbo", "state", "docs"}
Shape(s) == /\ DOMAIN s = Fields
            /\ DOMAIN s.agg = {"states", "docs", "resets"}
            /\ s.view # NoView => DOMAIN s.view = ViewFields

\* t is s but for the fields of F.
Alters(s, t, F) == DOMAIN t = Fields /\ \A f \in Fields \ F : t[f] = s[f]

-----------------------------------------------------------------------------
(* The order of the answers: the calls up to k have been taken on, those of  *)
(* A have been answered.                                                     *)

Told(s, c, A) == c \in A \/ \E j \in 1..Len(s.mail) : s.mail[j].call = c

Ord(s, k, A) ==
  /\ k \in 0..MaxCalls
  /\ IsSeq(s.listeners) /\ Range(s.listeners) \subseteq 1..k /\ Ascending(s.listeners)
  /\ IsSeq(s.mail)
  /\ \A e \in s.raised : e \in 1..k /\ \A c \in 1..e : Told(s, c, A)
  /\ \A i \in 1..Len(s.mail) :
        /\ s.mail[i].call \in 1..k
        /\ \A c \in 1..(s.mail[i].call - 1) :
              c \in A \/ \E j \in 1..(i - 1) : s.mail[j].call = c
  /\ \A c \in 1..k : c \in Range(s.listeners) \/ Told(s, c, A)

\* Every listener that may have its first event has had it.
Ready(s) == s.view # NoView /\ ShouldRaiseInitialEvent(s)
              => Range(s.listeners) \subseteq s.raised

\* Events to calls before which nobody is left out keep the order.
LEMMA RaiseOrd ==
    ASSUME NEW s, Shape(s), NEW k \in Nat, NEW A, Ord(s, k, A),
           NEW calls, IsSeq(calls), Ascending(calls), Range(calls) \subseteq 1..k,
           \A c \in Range(calls) : \A e \in 1..(c - 1) : e \in Range(calls) \/ Told(s, e, A)
    PROVE  Ord(RaiseTo(s, calls), k, A)
<1> DEFINE t == RaiseTo(s, calls)
           new == [i \in DOMAIN calls |-> Event(s, calls[i])]
           n == Len(s.mail)
           m == Len(calls)
<1>1. IsSeq(s.mail) /\ n \in Nat /\ m \in Nat /\ DOMAIN calls = 1..m /\ DOMAIN new = 1..m
  BY SeqFacts DEF Ord
<1>2. IsSeq(new) /\ Len(new) = m
  BY <1>1, SeqFun
<1>3. \A i \in 1..m : new[i].call = calls[i]
  BY <1>1 DEF Event
<1>4. /\ t.listeners = s.listeners
      /\ t.raised = s.raised \cup Range(calls)
      /\ t.mail = Joined(s.mail, new)
  BY DEF RaiseTo, Joined, Shape, Fields
<1> HIDE DEF t, new
<1> HIDE DEF n, m
<1>5. /\ IsSeq(t.mail) /\ Len(t.mail) = n + m
      /\ \A i \in 1..n : t.mail[i] = s.mail[i]
      /\ \A i \in 1..m : t.mail[n + i] = new[i]
      /\ \A i \in 1..(n + m) :
            i \notin 1..n => i - n \in 1..m /\ t.mail[i] = new[i - n]
  <2> DEFINE old == s.mail
             all == t.mail
  <2>1. IsSeq(old) /\ n = Len(old) /\ m = Len(new)
    BY <1>1, <1>2 DEF n
  <2>2. all = Joined(old, new)
    BY <1>4
  <2> HIDE DEF old, all
  <2>3. /\ IsSeq(all) /\ Len(all) = n + m
        /\ \A i \in 1..n : all[i] = old[i]
        /\ \A i \in 1..m : all[n + i] = new[i]
        /\ \A i \in 1..(n + m) : i \notin 1..n => i - n \in 1..m /\ all[i] = new[i - n]
    BY <1>2, <2>1, <2>2, JoinedIs
  <2> QED
    BY <2>3 DEF old, all
<1>6. ASSUME NEW c, Told(s, c, A) PROVE Told(t, c, A)
  <2>1. CASE c \in A
    BY <2>1 DEF Told
  <2>2. CASE \E j \in 1..n : s.mail[j].call = c
    <3>1. PICK j \in 1..n : s.mail[j].call = c
      BY <2>2
    <3>2. j \in 1..(n + m) /\ t.mail[j].call = c
      BY <1>1, <1>5, <3>1
    <3> QED
      BY <1>5, <3>2 DEF Told
  <2> QED
    BY <1>6, <2>1, <2>2 DEF Told, n
<1>7. \A c \in Range(calls) : \E i \in 1..m : calls[i] = c /\ t.mail[n + i].call = c
  <2> SUFFICES ASSUME NEW c \in Range(calls)
               PROVE  \E i \in 1..m : calls[i] = c /\ t.mail[n + i].call = c
    OBVIOUS
  <2>1. PICK i \in 1..m : calls[i] = c
    BY SeqFacts DEF m
  <2> QED
    BY <1>3, <1>5, <2>1
<1>8. \A c \in Range(calls) : Told(t, c, A)
  <2> SUFFICES ASSUME NEW c \in Range(calls) PROVE Told(t, c, A)
    OBVIOUS
  <2>1. PICK i \in 1..m : t.mail[n + i].call = c
    BY <1>7
  <2>2. n + i \in 1..(n + m)
    BY <1>1
  <2> QED
    BY <1>5, <2>1, <2>2 DEF Told
<1>9. ASSUME NEW e \in t.raised PROVE e \in 1..k /\ \A c \in 1..e : Told(t, c, A)
  <2>1. CASE e \in s.raised
    BY <1>6, <2>1 DEF Ord
  <2>2. CASE e \in Range(calls)
    <3>1. e \in 1..k
      BY <2>2
    <3>2. ASSUME NEW c \in 1..e PROVE Told(t, c, A)
      <4>1. c = e \/ c \in 1..(e - 1)
        BY <3>1
      <4> QED
        BY <1>6, <1>8, <2>2, <4>1
    <3> QED
      BY <3>1, <3>2
  <2> QED
    BY <1>4, <1>9, <2>1, <2>2
<1>10. ASSUME NEW i \in 1..(n + m)
       PROVE  /\ t.mail[i].call \in 1..k
              /\ \A c \in 1..(t.mail[i].call - 1) :
                    c \in A \/ \E j \in 1..(i - 1) : t.mail[j].call = c
  <2>1. CASE i \in 1..n
    <3>1. \A j \in 1..(i - 1) : j \in 1..n
      BY <1>1, <2>1
    <3>2. \A j \in 1..n : t.mail[j] = s.mail[j]
      BY <1>5
    <3>3. /\ s.mail[i].call \in 1..k
          /\ \A c \in 1..(s.mail[i].call - 1) :
                c \in A \/ \E j \in 1..(i - 1) : s.mail[j].call = c
      BY <2>1 DEF Ord, n
    <3> QED
      BY <2>1, <3>1, <3>2, <3>3
  <2>2. CASE i \notin 1..n
    <3> DEFINE l == i - n
               d == calls[l]
    <3>1. l \in 1..m /\ t.mail[i].call = d /\ d \in Range(calls) /\ i = n + l
      <4>1. l \in 1..m /\ i = n + l
        BY <1>1, <2>2
      <4>2. d \in Range(calls)
        BY <1>1, <1>3, <4>1 DEF Range
      <4> HIDE DEF l, d
      <4>3. t.mail[n + l].call = calls[l]
        BY <1>3, <1>5, <4>1
      <4> QED
        BY <4>1, <4>2, <4>3 DEF d
    <3>2. d \in 1..k
      BY <3>1
    <3> HIDE DEF l
    <3>3. ASSUME NEW c \in 1..(d - 1) PROVE c \in A \/ \E j \in 1..(i - 1) : t.mail[j].call = c
      <4>1. CASE c \in Range(calls)
        <5>1. PICK j \in 1..m : calls[j] = c /\ t.mail[n + j].call = c
          BY <1>7, <4>1
        <5>2. c < d
          BY <3>2
        <5>3. j < l
          <6>1. SUFFICES ASSUME ~(j < l) PROVE FALSE
            OBVIOUS
          <6>2. j = l \/ l < j
            BY <1>1, <3>1, <6>1
          <6>3. calls[l] < calls[j] \/ calls[l] = calls[j]
            BY <1>1, <3>1, <6>2 DEF Ascending
          <6> QED
            BY <3>2, <5>1, <5>2, <6>3
        <5>4. n + j \in 1..(i - 1)
          BY <1>1, <3>1, <5>3
        <5> QED
          BY <5>1, <5>4
      <4>2. CASE \E j \in 1..n : s.mail[j].call = c
        <5>1. PICK j \in 1..n : s.mail[j].call = c
          BY <4>2
        <5>2. j \in 1..(i - 1) /\ t.mail[j].call = c
          BY <1>1, <1>5, <3>1, <5>1
        <5> QED
          BY <5>2
      <4>3. c \in Range(calls) \/ Told(s, c, A)
        BY <3>1, <3>2
      <4> QED
        BY <4>1, <4>2, <4>3 DEF Told, n
    <3> QED
      BY <3>1, <3>2, <3>3
  <2> QED
    BY <2>1, <2>2
<1>11. \A c \in 1..k : c \in Range(t.listeners) \/ Told(t, c, A)
  BY <1>4, <1>6 DEF Ord
<1> QED
  BY <1>4, <1>5, <1>9, <1>10, <1>11 DEF Ord, t

-----------------------------------------------------------------------------
(* EventManager, QueryListener                                              *)

LEMMA ShapeOf ==
    ASSUME NEW s, Shape(s), NEW t, NEW F, Alters(s, t, F), "agg" \notin F, "view" \notin F
    PROVE  Shape(t)
BY DEF Shape, Alters, Fields

LEMMA RaiseToIs ==
    ASSUME NEW s, Shape(s), NEW calls
    PROVE  LET t == RaiseTo(s, calls)
           IN Alters(s, t, {"mail", "raised"}) /\ t.raised = s.raised \cup Range(calls)
BY DEF Shape, Alters, RaiseTo, Fields

\* The listeners of a set, told in their order.
LEMMA RaiseSome ==
    ASSUME NEW s, Shape(s), NEW k, NEW A, Ord(s, k, A), NEW set,
           \A c \in Range(s.listeners) \cap set : \A e \in 1..(c - 1) :
              e \in Range(s.listeners) \ set => Told(s, e, A)
    PROVE  LET t == RaiseTo(s, Only(s.listeners, set))
           IN Ord(t, k, A) /\ t.raised = s.raised \cup (Range(s.listeners) \cap set)
<1> DEFINE calls == Only(s.listeners, set)
<1>1. /\ k \in 0..MaxCalls /\ IsSeq(s.listeners) /\ Range(s.listeners) \subseteq 1..k
      /\ Ascending(s.listeners)
  BY DEF Ord
<1>2. k \in Nat /\ Range(s.listeners) \subseteq Nat
  BY <1>1, BoundsAssumption
<1>3. IsSeq(calls) /\ Range(calls) = Range(s.listeners) \cap set /\ Ascending(calls)
  BY <1>1, <1>2, OnlyIs
<1> HIDE DEF calls
<1>4. ASSUME NEW c \in Range(calls), NEW e \in 1..(c - 1) PROVE e \in Range(calls) \/ Told(s, e, A)
  <2>1. e \in 1..k
    BY <1>1, <1>2, <1>3
  <2>2. e \in Range(s.listeners) \/ Told(s, e, A)
    BY <2>1 DEF Ord
  <2> QED
    BY <1>3, <2>2
<1>5. Ord(RaiseTo(s, calls), k, A)
  BY <1>1, <1>2, <1>3, <1>4, RaiseOrd
<1> QED
  BY <1>3, <1>5, RaiseToIs DEF calls

LEMMA OnViewSnapshotsIs ==
    ASSUME NEW s, Shape(s)
    PROVE  LET t == OnViewSnapshots(s)
           IN /\ Shape(t) /\ Alters(s, t, {"mail", "raised"})
              /\ \A k, A : Ord(s, k, A) => Ord(t, k, A) /\ Ready(t)
<1> DEFINE t == OnViewSnapshots(s)
<1>1. Shape(t) /\ Alters(s, t, {"mail", "raised"})
  BY RaiseToIs, ShapeOf DEF OnViewSnapshots
<1>2. ASSUME NEW k, NEW A, Ord(s, k, A) PROVE Ord(t, k, A) /\ Ready(t)
  <2>1. CASE ShouldRaiseInitialEvent(s)
    <3>1. t = RaiseTo(s, s.listeners)
      BY <2>1 DEF OnViewSnapshots
    <3>2. k \in Nat /\ IsSeq(s.listeners) /\ Ascending(s.listeners) /\ Range(s.listeners) \subseteq 1..k
      BY <1>2, BoundsAssumption DEF Ord
    <3>3. \A c \in Range(s.listeners) : \A e \in 1..(c - 1) : e \in Range(s.listeners) \/ Told(s, e, A)
      <4> SUFFICES ASSUME NEW c \in Range(s.listeners), NEW e \in 1..(c - 1)
                   PROVE  e \in Range(s.listeners) \/ Told(s, e, A)
        OBVIOUS
      <4>1. e \in 1..k
        BY <3>2
      <4> QED
        BY <1>2, <4>1 DEF Ord
    <3>4. Ord(t, k, A)
      BY <1>2, <3>1, <3>2, <3>3, RaiseOrd
    <3>5. t.raised = s.raised \cup Range(s.listeners) /\ t.listeners = s.listeners
      BY <1>1, <3>1, RaiseToIs DEF Alters, Fields
    <3> QED
      BY <3>4, <3>5 DEF Ready
  <2>2. CASE ~ShouldRaiseInitialEvent(s)
    <3>1. t = RaiseTo(s, Only(s.listeners, s.raised))
      BY <2>2 DEF OnViewSnapshots
    <3>2. Ord(t, k, A)
      <4>1. \A c \in Range(s.listeners) \cap s.raised : \A e \in 1..(c - 1) :
               e \in Range(s.listeners) \ s.raised => Told(s, e, A)
        <5> SUFFICES ASSUME NEW c \in s.raised, NEW e \in 1..(c - 1) PROVE Told(s, e, A)
          OBVIOUS
        <5>1. c \in 1..k /\ k \in Nat /\ \A x \in 1..c : Told(s, x, A)
          BY <1>2, BoundsAssumption DEF Ord
        <5>2. e \in 1..c
          BY <5>1
        <5> QED
          BY <5>1, <5>2
      <4> QED
        BY <1>2, <3>1, <4>1, RaiseSome
    <3>3. ~ShouldRaiseInitialEvent(t)
      BY <1>1, <2>2 DEF ShouldRaiseInitialEvent, Alters, Fields
    <3> QED
      BY <3>2, <3>3 DEF Ready
  <2> QED
    BY <2>1, <2>2
<1> QED
  BY <1>1, <1>2

LEMMA OnOnlineStateChangedIs ==
    ASSUME NEW s, Shape(s)
    PROVE  LET t == OnOnlineStateChanged(s)
           IN /\ Shape(t) /\ Alters(s, t, {"mail", "raised"})
              /\ \A k, A : Ord(s, k, A) => Ord(t, k, A) /\ Ready(t)
<1> DEFINE t == OnOnlineStateChanged(s)
<1>1. CASE s.view = NoView \/ ~ShouldRaiseInitialEvent(s)
  <2>1. t = s
    BY <1>1 DEF OnOnlineStateChanged
  <2> HIDE DEF t
  <2>2. Alters(s, t, {"mail", "raised"})
    BY <2>1 DEF Alters, Shape
  <2> QED
    BY <1>1, <2>1, <2>2 DEF Ready, t
<1>2. CASE ~(s.view = NoView \/ ~ShouldRaiseInitialEvent(s))
  <2>1. t = RaiseTo(s, Only(s.listeners, Calls \ s.raised))
    BY <1>2 DEF OnOnlineStateChanged
  <2>2. Shape(t) /\ Alters(s, t, {"mail", "raised"})
    BY <2>1, RaiseToIs, ShapeOf
  <2>3. ASSUME NEW k, NEW A, Ord(s, k, A) PROVE Ord(t, k, A) /\ Ready(t)
    <3>1. k \in 0..MaxCalls /\ Range(s.listeners) \subseteq 1..k
      BY <2>3 DEF Ord
    <3>2. Range(s.listeners) \subseteq Calls
      BY <3>1, BoundsAssumption DEF Calls
    <3>3. \A c \in Range(s.listeners) \cap (Calls \ s.raised) : \A e \in 1..(c - 1) :
               e \in Range(s.listeners) \ (Calls \ s.raised) => Told(s, e, A)
      <4> SUFFICES ASSUME NEW e \in s.raised PROVE Told(s, e, A)
        BY <3>2
      <4>1. e \in 1..k /\ k \in Nat /\ \A x \in 1..e : Told(s, x, A)
        BY <2>3, <3>1, BoundsAssumption DEF Ord
      <4> QED
        BY <4>1
    <3> DEFINE set == Calls \ s.raised
    <3> HIDE DEF set, t
    <3>4. Ord(t, k, A) /\ t.raised = s.raised \cup (Range(s.listeners) \cap set)
      BY <2>1, <2>3, <3>3, RaiseSome DEF set
    <3>5. t.listeners = s.listeners
      BY <2>2 DEF Alters, Fields
    <3> QED
      BY <3>2, <3>4, <3>5 DEF Ready, set
  <2> QED
    BY <2>2, <2>3
<1> QED
  BY <1>1, <1>2

\* An error is told to all that wait: nobody is left.
LEMMA OnErrorIs ==
    ASSUME NEW s, Shape(s)
    PROVE  LET t == OnError(s)
           IN /\ Shape(t) /\ Alters(s, t, {"mail", "raised", "listeners"})
              /\ t.listeners = <<>> /\ t.raised = {}
              /\ \A k, A : Ord(s, k, A) => Ord(t, k, A)
<1> DEFINE t == OnError(s)
           new == [i \in DOMAIN s.listeners |-> [call |-> s.listeners[i], error |-> TRUE]]
<1>1. /\ Shape(t) /\ Alters(s, t, {"mail", "raised", "listeners"})
      /\ t.listeners = <<>> /\ t.raised = {} /\ t.mail = Joined(s.mail, new)
  BY DEF OnError, Joined, Shape, Alters, Fields
<1>2. ASSUME NEW k, NEW A, Ord(s, k, A) PROVE Ord(t, k, A)
  <2> DEFINE u == RaiseTo(s, s.listeners)
             calls == s.listeners
             n == Len(s.mail)
             m == Len(calls)
  <2>1. /\ k \in Nat /\ k \in 0..MaxCalls
        /\ IsSeq(calls) /\ Ascending(calls) /\ Range(calls) \subseteq 1..k
    BY <1>2, BoundsAssumption DEF Ord
  <2>2. Ord(u, k, A)
    <3>1. \A c \in Range(calls) : \A e \in 1..(c - 1) : e \in Range(calls) \/ Told(s, e, A)
      <4> SUFFICES ASSUME NEW c \in Range(calls), NEW e \in 1..(c - 1)
                   PROVE  e \in Range(calls) \/ Told(s, e, A)
        OBVIOUS
      <4>1. e \in 1..k
        BY <2>1
      <4> QED
        BY <1>2, <4>1 DEF Ord
    <3> QED
      BY <1>2, <2>1, <3>1, RaiseOrd
  <2>3. /\ IsSeq(s.mail) /\ n \in Nat /\ m \in Nat /\ DOMAIN calls = 1..m
        /\ IsSeq(new) /\ Len(new) = m /\ \A i \in 1..m : new[i].call = calls[i]
    <3>1. IsSeq(s.mail) /\ n \in Nat /\ m \in Nat /\ DOMAIN calls = 1..m
      BY <1>2, <2>1, SeqFacts DEF Ord
    <3> QED
      BY <3>1, SeqFun
  <2> DEFINE old == [i \in DOMAIN calls |-> Event(s, calls[i])]
  <2>4. IsSeq(old) /\ Len(old) = m /\ \A i \in 1..m : old[i].call = calls[i]
    BY <2>3, SeqFun DEF Event
  <2>5. u.mail = Joined(s.mail, old)
    BY DEF RaiseTo, Joined, Shape, Fields
  <2> HIDE DEF new, old, u, t, n, m
  <2>6. /\ IsSeq(t.mail) /\ Len(t.mail) = Len(u.mail) /\ Len(u.mail) \in Nat
        /\ \A i \in 1..Len(u.mail) : t.mail[i].call = u.mail[i].call
    <3>1. /\ IsSeq(t.mail) /\ Len(t.mail) = n + m
          /\ \A i \in 1..n : t.mail[i] = s.mail[i]
          /\ \A i \in 1..(n + m) : i \notin 1..n => i - n \in 1..m /\ t.mail[i] = new[i - n]
      <4> DEFINE first == s.mail
                 all == t.mail
      <4>1. IsSeq(first) /\ n = Len(first) /\ m = Len(new) /\ IsSeq(new)
        BY <2>3, <2>4 DEF n
      <4>2. all = Joined(first, new)
        BY <1>1, <2>5
      <4> HIDE DEF first, all
      <4>3. /\ IsSeq(all) /\ Len(all) = n + m
            /\ \A i \in 1..n : all[i] = first[i]
            /\ \A i \in 1..(n + m) : i \notin 1..n => i - n \in 1..m /\ all[i] = new[i - n]
        BY <4>1, <4>2, JoinedIs
      <4> QED
        BY <4>3 DEF first, all
    <3>2. /\ IsSeq(u.mail) /\ Len(u.mail) = n + m
          /\ \A i \in 1..n : u.mail[i] = s.mail[i]
          /\ \A i \in 1..(n + m) : i \notin 1..n => i - n \in 1..m /\ u.mail[i] = old[i - n]
      <4> DEFINE first == s.mail
                 all == u.mail
      <4>1. IsSeq(first) /\ n = Len(first) /\ m = Len(old) /\ IsSeq(old)
        BY <2>3, <2>4 DEF n
      <4>2. all = Joined(first, old)
        BY <1>1, <2>5
      <4> HIDE DEF first, all
      <4>3. /\ IsSeq(all) /\ Len(all) = n + m
            /\ \A i \in 1..n : all[i] = first[i]
            /\ \A i \in 1..(n + m) : i \notin 1..n => i - n \in 1..m /\ all[i] = old[i - n]
        BY <4>1, <4>2, JoinedIs
      <4> QED
        BY <4>3 DEF first, all
    <3>3. ASSUME NEW i \in 1..(n + m) PROVE t.mail[i].call = u.mail[i].call
      <4>1. CASE i \in 1..n
        BY <3>1, <3>2, <4>1
      <4>2. CASE i \notin 1..n
        <5>1. /\ i - n \in 1..m /\ t.mail[i] = new[i - n] /\ u.mail[i] = old[i - n]
          BY <3>1, <3>2, <4>2
        <5> QED
          BY <2>3, <2>4, <5>1
      <4> QED
        BY <4>1, <4>2
    <3> QED
      BY <2>3, <3>1, <3>2, <3>3
  <2>7. \A c : Told(u, c, A) => Told(t, c, A)
    BY <2>6 DEF Told
  <2>8. u.listeners = s.listeners /\ u.raised = s.raised \cup Range(calls)
    BY RaiseToIs DEF u, Alters, Fields
  <2>9. \A c \in 1..k : Told(t, c, A)
    <3> SUFFICES ASSUME NEW c \in 1..k PROVE Told(u, c, A)
      BY <2>7
    <3>1. CASE c \in Range(calls)
      <4>1. c \in u.raised /\ c \in 1..c
        BY <2>1, <2>8, <3>1
      <4> QED
        BY <2>2, <4>1 DEF Ord
    <3>2. CASE c \notin Range(calls)
      BY <2>2, <2>8, <3>2 DEF Ord
    <3> QED
      BY <3>1, <3>2
  <2>10. \A i \in 1..Len(t.mail) :
           /\ t.mail[i].call \in 1..k
           /\ \A c \in 1..(t.mail[i].call - 1) :
                 c \in A \/ \E j \in 1..(i - 1) : t.mail[j].call = c
    <3> SUFFICES ASSUME NEW i \in 1..Len(u.mail)
                 PROVE  /\ t.mail[i].call \in 1..k
                        /\ \A c \in 1..(t.mail[i].call - 1) :
                              c \in A \/ \E j \in 1..(i - 1) : t.mail[j].call = c
      BY <2>6
    <3>1. \A j \in 1..(i - 1) : j \in 1..Len(u.mail)
      BY <2>6
    <3>2. /\ u.mail[i].call \in 1..k
          /\ \A c \in 1..(u.mail[i].call - 1) :
                c \in A \/ \E j \in 1..(i - 1) : u.mail[j].call = c
      BY <2>2 DEF Ord
    <3>3. \A j \in 1..Len(u.mail) : t.mail[j].call = u.mail[j].call
      BY <2>6
    <3> QED
      BY <3>1, <3>2, <3>3
  <2>11. IsSeq(<<>>) /\ Range(<<>>) = {} /\ Ascending(<<>>)
    BY SeqEmpty DEF Ascending
  <2> QED
    BY <1>1, <2>1, <2>6, <2>9, <2>10, <2>11 DEF Ord
<1> QED
  BY <1>1, <1>2

-----------------------------------------------------------------------------
(* Views, and what is known of the backend                                  *)

LEMMA IsAView == ASSUME NEW v, DOMAIN v = ViewFields PROVE v # NoView
<1>1. "current" \notin DOMAIN NoView
  BY DEF NoView
<1> QED
  BY <1>1 DEF ViewFields

LimboOf(v) == {d \in Ads : ShouldBeInLimbo(v, d)}

LEMMA ApplyChangesIs ==
    ASSUME NEW view, DOMAIN view = ViewFields, NEW docs, NEW tc
    PROVE  LET v == ApplyChanges(view, docs, tc)
           IN /\ DOMAIN v = ViewFields /\ v # NoView
              /\ v.state \in {"Synced", "Local"}
              /\ v.docs = docs
              /\ v.synced = IF tc = NoChange THEN view.synced
                            ELSE (view.synced \cup tc.added) \ tc.removed
              /\ v.current = IF tc = NoChange THEN view.current ELSE tc.current
              /\ v.limbo = IF v.current THEN LimboOf(v) ELSE view.limbo
<1> DEFINE v1 == [view EXCEPT !.docs = docs]
           v2 == ApplyTargetChange(v1, tc)
           v3 == UpdateLimboDocuments(v2)
           v == [v3 EXCEPT !.state = SyncState(v3)]
<1>1. /\ DOMAIN v1 = ViewFields /\ v1.docs = docs /\ v1.synced = view.synced
      /\ v1.current = view.current /\ v1.limbo = view.limbo
  BY DEF ViewFields
<1> HIDE DEF v1
<1>2. /\ DOMAIN v2 = ViewFields /\ v2.docs = docs /\ v2.limbo = view.limbo
      /\ v2.synced = IF tc = NoChange THEN view.synced
                     ELSE (view.synced \cup tc.added) \ tc.removed
      /\ v2.current = IF tc = NoChange THEN view.current ELSE tc.current
  BY <1>1 DEF ApplyTargetChange, ViewFields
<1> HIDE DEF v2
<1>3. /\ DOMAIN v3 = ViewFields /\ v3.docs = docs /\ v3.synced = v2.synced
      /\ v3.current = v2.current
      /\ v3.limbo = IF v2.current THEN {d \in Ads : ShouldBeInLimbo(v2, d)} ELSE view.limbo
  BY <1>2 DEF UpdateLimboDocuments, ViewFields
<1> HIDE DEF v3
<1>4. /\ DOMAIN v = ViewFields /\ v.docs = docs /\ v.synced = v2.synced
      /\ v.current = v2.current /\ v.limbo = v3.limbo /\ v.state = SyncState(v3)
  BY <1>3 DEF ViewFields
<1> HIDE DEF v
<1>5. \A d : ShouldBeInLimbo(v, d) <=> ShouldBeInLimbo(v2, d)
  BY <1>2, <1>4 DEF ShouldBeInLimbo
<1>6. v.state \in {"Synced", "Local"}
  BY <1>4 DEF SyncState
<1>7. v = ApplyChanges(view, docs, tc)
  BY DEF ApplyChanges, v, v3, v2, v1
<1>8. v # NoView
  BY <1>4, IsAView
<1>9. v.limbo = IF v.current THEN LimboOf(v) ELSE view.limbo
  BY <1>3, <1>4, <1>5 DEF LimboOf
<1> QED
  BY <1>2, <1>4, <1>6, <1>7, <1>8, <1>9

LEMMA WithViewIs ==
    ASSUME NEW s, Shape(s), NEW view, DOMAIN view = ViewFields
    PROVE  LET t == WithView(s, view)
           IN /\ Shape(t) /\ Alters(s, t, {"view", "mail", "raised"}) /\ t.view = view
              /\ \A k, A : Ord(s, k, A) =>
                    /\ Ord(t, k, A)
                    /\ (s.view # NoView /\ Ready(s)) \/ view.state # s.view.state => Ready(t)
<1> DEFINE u == [s EXCEPT !.view = view]
           t == WithView(s, view)
<1>1. Shape(u) /\ Alters(s, u, {"view"}) /\ u.view = view /\ view # NoView
  BY IsAView DEF Shape, Alters, Fields
<1>2. ASSUME NEW k, NEW A, Ord(s, k, A) PROVE Ord(u, k, A)
  BY <1>1, <1>2 DEF Ord, Told, Alters, Fields
<1>3. CASE view.docs = s.view.docs /\ view.state = s.view.state
  <2>1. t = u
    BY <1>3 DEF WithView
  <2> HIDE DEF u, t
  <2>2. ASSUME Ready(s), s.view # NoView PROVE Ready(t)
    <3>1. /\ t.online = s.online /\ t.listeners = s.listeners /\ t.raised = s.raised
          /\ t.view.state = s.view.state
      BY <1>1, <1>3, <2>1 DEF Alters, Fields
    <3> QED
      BY <2>2, <3>1 DEF Ready, ShouldRaiseInitialEvent
  <2>3. Alters(s, t, {"view", "mail", "raised"})
    BY <1>1, <2>1 DEF Alters
  <2> QED
    BY <1>1, <1>2, <1>3, <2>1, <2>2, <2>3 DEF t
<1>4. CASE ~(view.docs = s.view.docs /\ view.state = s.view.state)
  <2>1. t = OnViewSnapshots(u)
    BY <1>4 DEF WithView
  <2> HIDE DEF u, t
  <2>2. Shape(t) /\ Alters(u, t, {"mail", "raised"})
    BY <1>1, <2>1, OnViewSnapshotsIs
  <2>3. \A k, A : Ord(s, k, A) => Ord(t, k, A) /\ Ready(t)
    BY <1>1, <1>2, <2>1, OnViewSnapshotsIs
  <2>4. Alters(s, t, {"view", "mail", "raised"}) /\ t.view = view
    BY <1>1, <2>2 DEF Alters, Fields
  <2> QED
    BY <2>2, <2>3, <2>4 DEF t
<1> QED
  BY <1>3, <1>4

-----------------------------------------------------------------------------
(* A step of the client that leaves the query alone: but for the fields of F, *)
(* only events are raised, and the view may be current no more.               *)

Broadcast == {"view", "mail", "raised", "online"}
SameView(v, w) == /\ v = NoView <=> w = NoView
                  /\ v # NoView => w.limbo = v.limbo /\ w.synced = v.synced /\ w.docs = v.docs
Quiet(s, t, F) ==
  /\ Shape(t) /\ Alters(s, t, F \cup Broadcast) /\ SameView(s.view, t.view)
  /\ \A k, A : Ord(s, k, A) /\ Ready(s) => Ord(t, k, A) /\ Ready(t)

LEMMA QuietFrame ==
    ASSUME NEW s, Shape(s), NEW t, NEW F, Alters(s, t, F), Shape(t),
           F \cap {"view", "mail", "raised", "online", "listeners"} = {}
    PROVE  Quiet(s, t, F)
<1>1. /\ t.view = s.view /\ t.mail = s.mail /\ t.raised = s.raised /\ t.online = s.online
      /\ t.listeners = s.listeners
  BY DEF Alters, Fields
<1> QED
  BY <1>1 DEF Quiet, Alters, SameView, Ord, Told, Ready, ShouldRaiseInitialEvent

LEMMA QuietThen ==
    ASSUME NEW s, NEW t, NEW u, NEW F, NEW G, Quiet(s, t, F), Quiet(t, u, F), F \subseteq G
    PROVE  Quiet(s, u, G)
<1>1. Alters(s, u, G \cup Broadcast)
  BY DEF Quiet, Alters
<1>2. SameView(s.view, u.view)
  BY DEF Quiet, SameView
<1>3. \A k, A : Ord(s, k, A) /\ Ready(s) => Ord(u, k, A) /\ Ready(u)
  BY DEF Quiet
<1> QED
  BY <1>1, <1>2, <1>3 DEF Quiet

LEMMA QuietMore ==
    ASSUME NEW s, NEW t, NEW F, NEW G, Quiet(s, t, F), F \subseteq G
    PROVE  Quiet(s, t, G)
BY DEF Quiet, Alters

LEMMA QuietSame == ASSUME NEW s, Shape(s), NEW F PROVE Quiet(s, s, F)
BY DEF Quiet, Alters, SameView, Shape

LEMMA SetAndBroadcastIs ==
    ASSUME NEW s, Shape(s), NEW state
    PROVE  LET t == SetAndBroadcast(s, state)
           IN Quiet(s, t, {}) /\ t.online = state
<1> DEFINE lost == s.view # NoView /\ s.view.current /\ state = "Offline"
           w == [s.view EXCEPT !.current = FALSE]
           v == ApplyChanges(w, s.view.docs, NoChange)
           u == IF lost THEN WithView(s, v) ELSE s
           u1 == [u EXCEPT !.online = state]
           t == OnOnlineStateChanged(u1)
<1>1. CASE s.online = state
  BY <1>1, QuietSame DEF SetAndBroadcast
<1>2. CASE s.online # state
  <2>1. SetAndBroadcast(s, state) = t
    BY <1>2 DEF SetAndBroadcast
  <2>2. /\ Shape(u) /\ Alters(s, u, {"view", "mail", "raised"})
        /\ SameView(s.view, u.view)
        /\ \A k, A : Ord(s, k, A) => Ord(u, k, A)
    <3>1. CASE lost
      <4>1. DOMAIN w = ViewFields /\ w.synced = s.view.synced /\ w.limbo = s.view.limbo
            /\ w.current = FALSE
        BY <3>1 DEF Shape, ViewFields
      <4> HIDE DEF w
      <4>2. /\ DOMAIN v = ViewFields /\ v # NoView /\ v.synced = s.view.synced
            /\ v.limbo = s.view.limbo /\ v.docs = s.view.docs
        <5>1. /\ DOMAIN v = ViewFields /\ v # NoView /\ v.synced = w.synced
              /\ v.docs = s.view.docs /\ v.current = w.current
              /\ v.limbo = IF v.current THEN LimboOf(v) ELSE w.limbo
          <6> DEFINE tc == NoChange
                     docs == s.view.docs
                     x == ApplyChanges(w, docs, tc)
          <6>1. tc = NoChange
            OBVIOUS
          <6> HIDE DEF tc, docs
          <6>2. /\ DOMAIN x = ViewFields /\ x # NoView
                /\ x.docs = docs
                /\ x.synced = IF tc = NoChange THEN w.synced ELSE (w.synced \cup tc.added) \ tc.removed
                /\ x.current = IF tc = NoChange THEN w.current ELSE tc.current
                /\ x.limbo = IF x.current THEN LimboOf(x) ELSE w.limbo
            BY <4>1, ApplyChangesIs
          <6> HIDE DEF x
          <6>3. v = x
            BY DEF x, tc, docs
          <6> QED
            BY <6>1, <6>2, <6>3 DEF docs
        <5> QED
          BY <4>1, <5>1
      <4>3. u = WithView(s, v)
        BY <3>1
      <4> HIDE DEF v
      <4>4. /\ Shape(u) /\ Alters(s, u, {"view", "mail", "raised"}) /\ u.view = v
            /\ \A k, A : Ord(s, k, A) => Ord(u, k, A)
        BY <4>2, <4>3, WithViewIs
      <4> QED
        BY <3>1, <4>2, <4>4 DEF SameView
    <3>2. CASE ~lost
      <4>1. u = s
        BY <3>2
      <4> HIDE DEF u
      <4> QED
        BY <4>1 DEF Shape, Alters, SameView
    <3> QED
      BY <3>1, <3>2
  <2> HIDE DEF u
  <2>3. Shape(u1) /\ Alters(u, u1, {"online"}) /\ u1.online = state
    BY <2>2 DEF Shape, Alters, Fields
  <2> HIDE DEF u1
  <2>4. \A k, A : Ord(u, k, A) => Ord(u1, k, A)
    <3>1. u1.listeners = u.listeners /\ u1.mail = u.mail /\ u1.raised = u.raised
      BY <2>3 DEF Alters, Fields
    <3> QED
      BY <3>1 DEF Ord, Told
  <2>5. /\ Shape(t) /\ Alters(u1, t, {"mail", "raised"})
        /\ \A k, A : Ord(u1, k, A) => Ord(t, k, A) /\ Ready(t)
    BY <2>3, OnOnlineStateChangedIs
  <2> HIDE DEF t
  <2>6. Alters(s, t, Broadcast) /\ t.view = u.view /\ t.online = state
    BY <2>2, <2>3, <2>5 DEF Alters, Fields, Broadcast
  <2>7. Quiet(s, t, {})
    BY <2>2, <2>4, <2>5, <2>6 DEF Quiet
  <2> QED
    BY <2>1, <2>6, <2>7
<1> QED
  BY <1>1, <1>2

-----------------------------------------------------------------------------
(* OnlineStateTracker                                                       *)

LEMMA CheckIs ==
    ASSUME NEW s, Shape(s), NEW condition
    PROVE  LET t == Check(s, condition)
           IN Shape(t) /\ Alters(s, t, {"aborted"}) /\ (condition => t = s)
BY DEF Check, Shape, Alters, Fields

LEMMA UpdateStateIs ==
    ASSUME NEW s, Shape(s), NEW state
    PROVE  LET t == UpdateState(s, state)
           IN /\ Quiet(s, t, {"timer", "failed"})
              /\ t.online = state /\ t.timer = FALSE /\ t.failed = FALSE
<1> DEFINE u == [s EXCEPT !.timer = FALSE, !.failed = FALSE]
           t == SetAndBroadcast(u, state)
<1>1. Shape(u) /\ Alters(s, u, {"timer", "failed"}) /\ u.timer = FALSE /\ u.failed = FALSE
  BY DEF Shape, Alters, Fields
<1>2. t = UpdateState(s, state)
  BY DEF UpdateState
<1> HIDE DEF u
<1>3. Quiet(u, t, {}) /\ t.online = state
  BY <1>1, SetAndBroadcastIs
<1>4. Quiet(s, u, {"timer", "failed"})
  BY <1>1, QuietFrame
<1> HIDE DEF t
<1>5. Quiet(u, t, {"timer", "failed"}) /\ Quiet(s, t, {"timer", "failed"})
  BY <1>3, <1>4, QuietThen, QuietMore
<1>6. t.timer = FALSE /\ t.failed = FALSE
  BY <1>1, <1>3 DEF Quiet, Alters, Fields, Broadcast
<1> QED
  BY <1>2, <1>3, <1>5, <1>6

LEMMA HandleWatchStreamStartIs ==
    ASSUME NEW s, Shape(s)
    PROVE  LET t == HandleWatchStreamStart(s)
           IN /\ Quiet(s, t, {"timer", "aborted"})
              /\ s.failed => t = s
              /\ ~s.failed => t.timer = TRUE /\ t.online = "Unknown"
              /\ ~s.timer => t.aborted = s.aborted
<1> DEFINE t == HandleWatchStreamStart(s)
<1>1. CASE s.failed
  BY <1>1, QuietSame DEF HandleWatchStreamStart
<1>2. CASE ~s.failed
  <2> DEFINE u == SetAndBroadcast(s, "Unknown")
             c == Check(u, ~u.timer)
  <2>1. Quiet(s, u, {}) /\ u.online = "Unknown"
    BY SetAndBroadcastIs
  <2>2. t = [c EXCEPT !.timer = TRUE]
    BY <1>2 DEF HandleWatchStreamStart
  <2> HIDE DEF u, t
  <2>3. Shape(u) /\ u.timer = s.timer /\ u.aborted = s.aborted
    BY <2>1 DEF Quiet, Alters, Fields, Broadcast
  <2>4. Shape(c) /\ Alters(u, c, {"aborted"}) /\ (~u.timer => c = u)
    BY <2>3, CheckIs
  <2> HIDE DEF c
  <2>5. /\ Shape(t) /\ Alters(u, t, {"timer", "aborted"}) /\ t.timer = TRUE
        /\ t.aborted = c.aborted /\ t.online = u.online
    BY <2>2, <2>4 DEF Shape, Alters, Fields
  <2>6. Quiet(u, t, {"timer", "aborted"})
    BY <2>3, <2>5, QuietFrame
  <2>7. Quiet(s, u, {"timer", "aborted"})
    BY <2>1, QuietMore
  <2>8. Quiet(s, t, {"timer", "aborted"})
    BY <2>6, <2>7, QuietThen
  <2> QED
    BY <1>2, <2>1, <2>3, <2>4, <2>5, <2>8 DEF t
<1> QED
  BY <1>1, <1>2

LEMMA HandleWatchStreamFailureIs ==
    ASSUME NEW s, Shape(s)
    PROVE  LET t == HandleWatchStreamFailure(s)
           IN /\ Quiet(s, t, {"timer", "failed", "aborted"})
              /\ s.online = "Online" => t.online = "Unknown" /\ t.timer = s.timer /\ t.failed = s.failed
              /\ s.online # "Online" => t.online = "Offline" /\ t.timer = FALSE /\ t.failed = TRUE
              /\ s.online = "Online" /\ ~s.timer /\ ~s.failed => t.aborted = s.aborted
              /\ s.online # "Online" => t.aborted = s.aborted
<1> DEFINE t == HandleWatchStreamFailure(s)
           F == {"timer", "failed", "aborted"}
<1>1. CASE s.online = "Online"
  <2> DEFINE u == SetAndBroadcast(s, "Unknown")
             c == Check(u, ~u.failed /\ ~u.timer)
  <2>1. Quiet(s, u, {}) /\ u.online = "Unknown"
    BY SetAndBroadcastIs
  <2>2. t = c
    BY <1>1 DEF HandleWatchStreamFailure
  <2> HIDE DEF u, t
  <2>3. /\ Shape(u) /\ u.timer = s.timer /\ u.aborted = s.aborted
        /\ u.failed = s.failed
    BY <2>1 DEF Quiet, Alters, Fields, Broadcast
  <2>4. Shape(c) /\ Alters(u, c, {"aborted"}) /\ (~u.failed /\ ~u.timer => c = u)
    BY <2>3, CheckIs
  <2> HIDE DEF c
  <2>5. Quiet(u, c, {"aborted"})
    BY <2>3, <2>4, QuietFrame
  <2>6. Quiet(u, c, F) /\ Quiet(s, u, F)
    BY <2>1, <2>5, QuietMore
  <2>7. Quiet(s, c, F)
    BY <2>6, QuietThen
  <2>8. c.online = u.online /\ c.timer = u.timer /\ c.failed = u.failed
    BY <2>4 DEF Alters, Fields
  <2> QED
    BY <1>1, <2>1, <2>2, <2>3, <2>4, <2>7, <2>8 DEF t
<1>2. CASE s.online # "Online"
  <2> DEFINE u == [s EXCEPT !.failed = TRUE, !.timer = FALSE]
  <2>1. /\ Shape(u) /\ Alters(s, u, F) /\ u.timer = FALSE /\ u.failed = TRUE
        /\ u.aborted = s.aborted
    BY DEF Shape, Alters, Fields
  <2>2. t = SetAndBroadcast(u, "Offline")
    BY <1>2 DEF HandleWatchStreamFailure
  <2> HIDE DEF u, t
  <2>3. Quiet(u, t, {}) /\ t.online = "Offline"
    BY <2>1, <2>2, SetAndBroadcastIs
  <2>4. Quiet(s, u, F)
    BY <2>1, QuietFrame
  <2>5. Quiet(u, t, F)
    BY <2>3, QuietMore
  <2>6. Quiet(s, t, F)
    BY <2>4, <2>5, QuietThen
  <2>7. t.timer = FALSE /\ t.failed = TRUE /\ t.aborted = s.aborted
    BY <2>1, <2>3 DEF Quiet, Alters, Fields, Broadcast
  <2> QED
    BY <1>2, <2>3, <2>6, <2>7 DEF t
<1> QED
  BY <1>1, <1>2

-----------------------------------------------------------------------------
(* RemoteStore                                                              *)

LEMMA StartWatchStreamIs ==
    ASSUME NEW s, Shape(s), ShouldStartWatchStream(s)
    PROVE  LET t == StartWatchStream(s)
           IN /\ Quiet(s, t, {"timer", "aborted", "agg", "stream"})
              /\ t.agg = NewAggregator /\ t.stream \in {"Starting", "Backoff"}
              /\ s.failed => t.timer = s.timer /\ t.online = s.online
              /\ ~s.failed => t.timer = TRUE /\ t.online = "Unknown"
              /\ ~s.timer => t.aborted = s.aborted
<1> DEFINE F == {"timer", "aborted", "agg", "stream"}
           u == [s EXCEPT !.agg = NewAggregator,
                          !.stream = IF @ = "Error" THEN "Backoff" ELSE "Starting"]
           t == HandleWatchStreamStart(u)
<1>1. StartWatchStream(s) = t
  BY DEF StartWatchStream, Check
<1>2. /\ Shape(u) /\ Alters(s, u, {"agg", "stream"}) /\ u.agg = NewAggregator
      /\ u.stream \in {"Starting", "Backoff"}
  BY DEF Shape, Alters, Fields, NewAggregator
<1> HIDE DEF u
<1>3. u.failed = s.failed /\ u.timer = s.timer /\ u.aborted = s.aborted /\ u.online = s.online
  BY <1>2 DEF Alters, Fields
<1>4. /\ Quiet(u, t, {"timer", "aborted"})
      /\ u.failed => t = u
      /\ ~u.failed => t.timer = TRUE /\ t.online = "Unknown"
      /\ ~u.timer => t.aborted = u.aborted
  BY <1>2, HandleWatchStreamStartIs
<1> HIDE DEF t
<1>5. Quiet(s, u, {"agg", "stream"})
  BY <1>2, QuietFrame
<1>6. Quiet(s, u, F) /\ Quiet(u, t, F)
  BY <1>4, <1>5, QuietMore
<1>7. Quiet(s, t, F)
  BY <1>6, QuietThen
<1>8. t.agg = u.agg /\ t.stream = u.stream
  BY <1>4 DEF Quiet, Alters, Fields, Broadcast
<1> QED
  BY <1>1, <1>2, <1>3, <1>4, <1>7, <1>8

\* A request: one answer more is awaited for the target.
OneMore(state) == [state EXCEPT !.pending = @ + 1]
Sent(s, t, m) == Write(RecordPendingTargetRequest(s, t), m)

IsSent(s, t, x, m) ==
  /\ Shape(t) /\ Alters(s, t, {"agg", "up", "idle"})
  /\ t.agg.states = Put(s.agg.states, x, OneMore(TargetState(s, x)))
  /\ DOMAIN t.agg.states = DOMAIN s.agg.states \cup {x}
  /\ t.agg.docs = s.agg.docs /\ t.agg.resets = s.agg.resets
  /\ t.up = Grown(s.up, m) /\ t.idle = FALSE

LEMMA SentIs ==
    ASSUME NEW s, Shape(s), NEW x, NEW m
    PROVE  IsSent(s, Sent(s, x, m), x, m)
<1> DEFINE t == Sent(s, x, m)
           states == Put(s.agg.states, x, OneMore(TargetState(s, x)))
<1>1. /\ Shape(t) /\ Alters(s, t, {"agg", "up", "idle"})
      /\ t.agg.states = states
      /\ t.agg.docs = s.agg.docs /\ t.agg.resets = s.agg.resets
      /\ t.up = Grown(s.up, m) /\ t.idle = FALSE
  BY DEF Sent, Grown, OneMore, Write, RecordPendingTargetRequest, SetTargetState, Shape, Alters, Fields
<1>2. DOMAIN states = DOMAIN s.agg.states \cup {x}
  BY PutDomain
<1> HIDE DEF t, states
<1>3. DOMAIN t.agg.states = DOMAIN s.agg.states \cup {x}
  BY <1>1, <1>2
<1>4. IsSent(s, t, x, m)
  BY <1>1, <1>3 DEF IsSent, states
<1> QED
  BY <1>4 DEF t

MessageTypes == {"added", "removed", "current", "reset", "rejected", "filter", "docs", "snapshot"}
MessageOk(m) == m.type \in MessageTypes /\ (m.type = "docs" => IsFiniteSet(DOMAIN m.docs))

\* The connection: it is tried while there is something to listen to, the timer runs
\* only while nothing is known, and what was under way went with the stream. r is that
\* a listener has reused a stream.
Conn(s, r) ==
  /\ IsSeq(s.up) /\ IsSeq(s.down)
  /\ \A m \in Range(s.down) : MessageOk(m)
  /\ s.agg.resets \subseteq {Query}
  /\ IsFiniteSet(DOMAIN s.listen) /\ IsFiniteSet(DOMAIN s.agg.states)
  /\ s.network
  /\ s.failed => s.online = "Offline"
  /\ s.timer => s.online = "Unknown" /\ IsStarted(s)
  /\ Query \in DOMAIN s.listen /\ s.online = "Unknown" => s.timer \/ r
  /\ s.idle => DOMAIN s.listen = {} /\ s.stream = "Open"
  /\ DOMAIN s.listen # {} => IsStarted(s)
  /\ s.stream # "Open" => s.up = <<>> /\ s.down = <<>> /\ s.agg = NewAggregator
  /\ s.stream \in {"Initial", "Starting", "Open", "Error", "Backoff"}
  /\ s.online \in {"Unknown", "Online", "Offline"}
  /\ {s.network, s.idle, s.failed, s.timer} \subseteq BOOLEAN

LEMMA NoStatesIs ==
  /\ DOMAIN NoStates = {} /\ IsFiniteSet({})
  /\ DOMAIN NewAggregator.states = {} /\ NewAggregator.resets = {}
BY FS_EmptySet DEF NoStates, NewAggregator

LEMMA SentConn ==
    ASSUME NEW s, Shape(s), NEW r, Conn(s, r), s.stream = "Open", NEW x, NEW m
    PROVE  Conn(Sent(s, x, m), r)
<1> DEFINE t == Sent(s, x, m)
<1>1. /\ Alters(s, t, {"agg", "up", "idle"})
      /\ DOMAIN t.agg.states = DOMAIN s.agg.states \cup {x}
      /\ t.up = Grown(s.up, m) /\ t.idle = FALSE
      /\ t.agg.resets = s.agg.resets
  <2>1. IsSent(s, t, x, m)
    BY SentIs
  <2> HIDE DEF t
  <2> QED
    BY <2>1 DEF IsSent
<1> HIDE DEF t
<1>2. DOMAIN t.agg.states = DOMAIN s.agg.states \cup {x}
  BY <1>1
<1>3. IsFiniteSet(DOMAIN t.agg.states)
  BY <1>2, FS_AddElement DEF Conn
<1>4. IsSeq(t.up)
  BY <1>1, GrownIs DEF Conn
<1>5. /\ t.down = s.down /\ t.listen = s.listen /\ t.network = s.network /\ t.failed = s.failed
      /\ t.online = s.online /\ t.timer = s.timer /\ t.stream = s.stream
  BY <1>1 DEF Alters, Fields
<1> QED
  BY <1>1, <1>3, <1>4, <1>5 DEF Conn, IsStarted, t

LEMMA RemoteListenIs ==
    ASSUME NEW s, Shape(s), NEW r, Conn(s, r),
           NEW x, x \notin DOMAIN s.listen, NEW ad, NEW token
    PROVE  LET t == RemoteListen(s, x, ad, token)
           IN /\ Quiet(s, t, {"listen", "timer", "aborted", "agg", "stream", "up", "idle"})
              /\ t.listen = Put(s.listen, x, [ad |-> ad, token |-> token])
              /\ t.aborted = s.aborted
              /\ Conn(t, r \/ (x = Query /\ IsStarted(s) /\ s.online = "Unknown" /\ ~s.timer))
<1> DEFINE F == {"listen", "timer", "aborted", "agg", "stream", "up", "idle"}
           entry == [ad |-> ad, token |-> token]
           u == [s EXCEPT !.listen = Put(@, x, entry)]
           t == RemoteListen(s, x, ad, token)
           q == r \/ (x = Query /\ IsStarted(s) /\ s.online = "Unknown" /\ ~s.timer)
<1>1. /\ Shape(u) /\ Alters(s, u, {"listen"}) /\ u.listen = Put(s.listen, x, entry)
      /\ u.agg = s.agg
  BY DEF Shape, Alters, Fields
<1>2. t = IF ShouldStartWatchStream(u) THEN StartWatchStream(u)
          ELSE IF s.stream = "Open" THEN SendWatchRequest(u, x, token) ELSE u
  BY DEF RemoteListen
<1> HIDE DEF entry, u, t
<1>3. /\ u.up = s.up /\ u.down = s.down /\ u.network = s.network
      /\ u.failed = s.failed /\ u.timer = s.timer /\ u.online = s.online /\ u.idle = s.idle
      /\ u.stream = s.stream /\ u.aborted = s.aborted
  BY <1>1 DEF Alters, Fields
<1>4. DOMAIN u.listen = DOMAIN s.listen \cup {x} /\ IsFiniteSet(DOMAIN u.listen)
  <2>1. DOMAIN u.listen = DOMAIN s.listen \cup {x}
    BY <1>1, PutDomain
  <2> QED
    BY <2>1, FS_AddElement DEF Conn
<1>5. Quiet(s, u, {"listen"})
  BY <1>1, QuietFrame
<1>6. CASE ShouldStartWatchStream(u)
  <2>1. t = StartWatchStream(u)
    BY <1>2, <1>6
  <2>2. /\ Quiet(u, t, {"timer", "aborted", "agg", "stream"})
        /\ t.agg = NewAggregator /\ t.stream \in {"Starting", "Backoff"}
        /\ u.failed => t.timer = u.timer /\ t.online = u.online
        /\ ~u.failed => t.timer = TRUE /\ t.online = "Unknown"
        /\ ~u.timer => t.aborted = u.aborted
    BY <1>1, <1>6, <2>1, StartWatchStreamIs
  <2>3. ~IsStarted(s) /\ ~s.timer /\ ~s.idle /\ s.stream # "Open"
    BY <1>3, <1>6 DEF Conn, ShouldStartWatchStream, IsStarted
  <2>4. /\ t.up = u.up /\ t.down = u.down /\ t.network = u.network /\ t.failed = u.failed
        /\ t.idle = u.idle /\ t.listen = u.listen
    BY <2>2 DEF Quiet, Alters, Fields, Broadcast
  <2>5. Quiet(u, t, F) /\ Quiet(s, u, F)
    BY <1>5, <2>2, QuietMore
  <2>6. Quiet(s, t, F)
    BY <2>5, QuietThen
  <2>7. Conn(t, q)
    BY <1>3, <1>4, <2>2, <2>3, <2>4, NoStatesIs DEF Conn, IsStarted
  <2> QED
    BY <1>1, <1>3, <2>2, <2>3, <2>4, <2>6, <2>7 DEF t, entry
<1>7. CASE ~ShouldStartWatchStream(u)
  <2>1. IsStarted(s)
    BY <1>3, <1>4, <1>7 DEF Conn, ShouldStartWatchStream, IsStarted
  <2>2. CASE s.stream = "Open"
    <3> DEFINE m == [type |-> "watch", target |-> x, ad |-> u.listen[x].ad, token |-> token]
    <3>1. t = Sent(u, x, m)
      BY <1>2, <1>7, <2>2 DEF SendWatchRequest, Sent
    <3> HIDE DEF m
    <3>2. /\ Shape(t) /\ Alters(u, t, {"agg", "up", "idle"}) /\ t.idle = FALSE
          /\ DOMAIN t.agg.states = DOMAIN u.agg.states \cup {x}
          /\ t.up = Grown(u.up, m) /\ t.agg.resets = u.agg.resets
      <4>1. IsSent(u, t, x, m)
        BY <1>1, <3>1, SentIs
      <4> QED
        BY <4>1 DEF IsSent
    <3>3. Quiet(u, t, {"agg", "up", "idle"})
      BY <1>1, <3>2, QuietFrame
    <3>4. Quiet(u, t, F) /\ Quiet(s, u, F)
      BY <1>5, <3>3, QuietMore
    <3>5. Quiet(s, t, F)
      BY <3>4, QuietThen
    <3>6. /\ t.down = u.down /\ t.listen = u.listen /\ t.network = u.network
          /\ t.failed = u.failed /\ t.online = u.online /\ t.timer = u.timer
          /\ t.stream = u.stream /\ t.aborted = u.aborted
      BY <3>2 DEF Alters, Fields
    <3>7. DOMAIN t.agg.states = DOMAIN s.agg.states \cup {x}
      BY <1>1, <3>2
    <3>8. IsFiniteSet(DOMAIN t.agg.states)
      BY <3>7, FS_AddElement DEF Conn
    <3>9. IsSeq(t.up)
      BY <1>3, <3>2, GrownIs DEF Conn
    <3>10. Conn(t, q)
      BY <1>1, <1>3, <1>4, <2>1, <2>2, <3>2, <3>6, <3>8, <3>9 DEF Conn, IsStarted
    <3> QED
      BY <1>1, <1>3, <3>5, <3>6, <3>10 DEF t, entry
  <2>3. CASE s.stream # "Open"
    <3>1. t = u
      BY <1>2, <1>7, <2>3
    <3>2. Quiet(s, t, F)
      BY <1>5, <3>1, QuietMore
    <3>3. Conn(t, q)
      BY <1>1, <1>3, <1>4, <2>1, <2>3, <3>1 DEF Conn, IsStarted
    <3> QED
      BY <1>1, <1>3, <3>1, <3>2, <3>3 DEF t, entry
  <2> QED
    BY <2>2, <2>3
<1> QED
  BY <1>6, <1>7

-----------------------------------------------------------------------------
(* The loops over sets (see FoldLemmas)                                     *)

LEMMA CanBeListed ==
    ASSUME NEW S, IsFiniteSet(S)
    PROVE  \E n \in Nat : \E f \in [1..n -> S] : \A x \in S : \E i \in 1..n : f[i] = x
<1>1. PICK n \in Nat : ExistsSurjection(1..n, S)
  BY FS_NatSurjection
<1> QED
  BY <1>1 DEF ExistsSurjection, Surjection

Sending == INSTANCE FoldLemmas WITH
             Step <- LAMBDA p, t, acc : SendWatchRequest(acc, t, acc.listen[t].token)

LEMMA SendWatchRequestsLoop ==
    ASSUME NEW s, NEW S
    PROVE  SendWatchRequests(s, S) = Sending!Loop(0, s, S)
BY DEF SendWatchRequests, Sending!Loop, FoldSet, MapThenFoldSet, Sending!FoldSet,
       Sending!MapThenFoldSet

SendOne(s, t) == SendWatchRequest(s, t, s.listen[t].token)
LEMMA SendWatchRequestsKeep ==
    ASSUME NEW s, NEW S, IsFiniteSet(S)
    PROVE  \E R : /\ <<{}, s>> \in R
                  /\ \A V : /\ <<{}, s>> \in V
                            /\ \A done, acc, x :
                                  /\ <<done, acc>> \in V /\ done \subseteq S /\ x \in S \ done
                                  /\ <<done \cup {x}, SendOne(acc, x)>> \in R
                                  => <<done \cup {x}, SendOne(acc, x)>> \in V
                            => <<S, SendWatchRequests(s, S)>> \in V
<1>1. \E n \in Nat : \E f \in [1..n -> S] : \A x \in S : \E i \in 1..n : f[i] = x
  BY CanBeListed
<1>2. \E R : /\ <<{}, s>> \in R
             /\ \A V : /\ <<{}, s>> \in V
                       /\ \A done, acc, x :
                             /\ <<done, acc>> \in V /\ done \subseteq S /\ x \in S \ done
                             /\ <<done \cup {x}, SendOne(acc, x)>> \in R
                             => <<done \cup {x}, SendOne(acc, x)>> \in V
                       => <<S, Sending!Loop(0, s, S)>> \in V
  BY <1>1, Sending!LoopKeeps DEF SendOne
<1> QED
  BY <1>2, SendWatchRequestsLoop


-----------------------------------------------------------------------------
(* The stream opens, a target is given up                                   *)

LEMMA SendOneIs ==
    ASSUME NEW s, Shape(s), NEW r, Conn(s, r), s.stream = "Open", NEW x
    PROVE  LET t == SendOne(s, x)
           IN Quiet(s, t, {"agg", "up", "idle"}) /\ Conn(t, r) /\ t.stream = "Open"
<1> DEFINE m == [type |-> "watch", target |-> x, ad |-> s.listen[x].ad, token |-> s.listen[x].token]
           t == Sent(s, x, m)
<1>1. SendOne(s, x) = t
  BY DEF SendOne, SendWatchRequest, Sent
<1> HIDE DEF m
<1>2. IsSent(s, t, x, m)
  BY SentIs
<1>3. Conn(t, r)
  BY SentConn
<1> HIDE DEF t
<1>4. Shape(t) /\ Alters(s, t, {"agg", "up", "idle"})
  BY <1>2 DEF IsSent
<1>5. Quiet(s, t, {"agg", "up", "idle"}) /\ t.stream = "Open"
  BY <1>4, QuietFrame DEF Alters, Fields
<1> QED
  BY <1>1, <1>3, <1>5

LEMMA SendWatchRequestsIs ==
    ASSUME NEW s, Shape(s), NEW r, Conn(s, r), s.stream = "Open", NEW S, IsFiniteSet(S)
    PROVE  LET t == SendWatchRequests(s, S)
           IN Quiet(s, t, {"agg", "up", "idle"}) /\ Conn(t, r) /\ t.stream = "Open"
<1> DEFINE F == {"agg", "up", "idle"}
           Fine(t) == Quiet(s, t, F) /\ Conn(t, r) /\ t.stream = "Open"
           after == SendWatchRequests(s, S)
<1>1. PICK R : /\ <<{}, s>> \in R
               /\ \A V : /\ <<{}, s>> \in V
                         /\ \A done, acc, x :
                               /\ <<done, acc>> \in V /\ done \subseteq S /\ x \in S \ done
                               /\ <<done \cup {x}, SendOne(acc, x)>> \in R
                               => <<done \cup {x}, SendOne(acc, x)>> \in V
                         => <<S, after>> \in V
  BY SendWatchRequestsKeep
<1> HIDE DEF after
<1> DEFINE V == {v \in R : Fine(v[2])}
<1>2. Fine(s)
  BY QuietSame
<1>3. \A acc, x : Fine(acc) => Fine(SendOne(acc, x))
  <2> SUFFICES ASSUME NEW acc, NEW x, Fine(acc) PROVE Fine(SendOne(acc, x))
    OBVIOUS
  <2> DEFINE t == SendOne(acc, x)
  <2>1. Shape(acc)
    BY DEF Quiet
  <2>2. Quiet(acc, t, F) /\ Conn(t, r) /\ t.stream = "Open"
    BY <2>1, SendOneIs
  <2> HIDE DEF t
  <2>3. Quiet(s, t, F)
    BY <2>2, QuietThen
  <2> QED
    BY <2>2, <2>3 DEF t
<1> HIDE DEF Fine
<1>4. <<S, after>> \in V
  BY <1>1, <1>2, <1>3
<1>5. Fine(after)
  BY <1>4
<1> QED
  BY <1>5 DEF Fine, after

LEMMA OnWatchStreamOpenIs ==
    ASSUME NEW s, Shape(s), NEW r, Conn(s, r), s.stream = "Starting"
    PROVE  LET t == OnWatchStreamOpen(s)
           IN /\ Quiet(s, t, {"stream", "agg", "up", "idle"})
              /\ Conn(t, r) /\ t.stream = "Open"
<1> DEFINE F == {"stream", "agg", "up", "idle"}
           u == [s EXCEPT !.stream = "Open"]
           t == SendWatchRequests(u, DOMAIN s.listen)
<1>1. OnWatchStreamOpen(s) = t
  BY DEF OnWatchStreamOpen
<1>2. Shape(u) /\ Alters(s, u, {"stream"}) /\ u.stream = "Open"
  BY DEF Shape, Alters, Fields
<1> HIDE DEF u
<1>3. /\ u.up = s.up /\ u.down = s.down /\ u.network = s.network /\ u.agg = s.agg
      /\ u.failed = s.failed /\ u.timer = s.timer /\ u.online = s.online /\ u.idle = s.idle
      /\ u.listen = s.listen
  BY <1>2 DEF Alters, Fields
<1>4. Conn(u, r)
  BY <1>2, <1>3 DEF Conn, IsStarted
<1>5. Quiet(u, t, {"agg", "up", "idle"}) /\ Conn(t, r) /\ t.stream = "Open"
  <2>1. IsFiniteSet(DOMAIN s.listen)
    BY DEF Conn
  <2> QED
    BY <1>2, <1>4, <2>1, SendWatchRequestsIs
<1> HIDE DEF t
<1>6. Quiet(s, u, {"stream"})
  BY <1>2, QuietFrame
<1>7. Quiet(s, u, F) /\ Quiet(u, t, F)
  BY <1>5, <1>6, QuietMore
<1>8. Quiet(s, t, F)
  BY <1>7, QuietThen
<1> QED
  BY <1>1, <1>5, <1>8

LEMMA RemoteStopListeningIs ==
    ASSUME NEW s, Shape(s), NEW r, Conn(s, r), NEW x
    PROVE  LET t == RemoteStopListening(s, x)
           IN /\ Quiet(s, t, {"listen", "timer", "failed", "aborted", "agg", "up", "idle"})
              /\ t.listen = Drop(s.listen, x)
              /\ x \in DOMAIN s.listen => t.aborted = s.aborted
              /\ Conn(t, r)
<1> DEFINE F == {"listen", "timer", "failed", "aborted", "agg", "up", "idle"}
           c == Check(s, x \in DOMAIN s.listen)
           u == [c EXCEPT !.listen = Drop(@, x)]
           w == IF s.stream = "Open" THEN SendUnwatchRequest(u, x) ELSE u
           t == RemoteStopListening(s, x)
<1>1. t = IF DOMAIN w.listen # {} THEN w
          ELSE IF s.stream = "Open" THEN [w EXCEPT !.idle = TRUE]
          ELSE IF s.network THEN UpdateState(w, "Unknown") ELSE w
  BY DEF RemoteStopListening
<1>2. Shape(c) /\ Alters(s, c, {"aborted"}) /\ (x \in DOMAIN s.listen => c = s)
  BY CheckIs
<1> HIDE DEF c
<1>3. Shape(u) /\ Alters(s, u, {"listen", "aborted"}) /\ u.listen = Drop(s.listen, x)
  BY <1>2 DEF Shape, Alters, Fields
<1>4. x \in DOMAIN s.listen => u.aborted = s.aborted
  BY <1>2 DEF Shape, Alters, Fields
<1> HIDE DEF u, t
<1>5. /\ u.up = s.up /\ u.down = s.down /\ u.network = s.network /\ u.agg = s.agg
      /\ u.failed = s.failed /\ u.timer = s.timer /\ u.online = s.online /\ u.idle = s.idle
      /\ u.stream = s.stream
  BY <1>3 DEF Alters, Fields
<1>6. DOMAIN u.listen = DOMAIN s.listen \ {x} /\ IsFiniteSet(DOMAIN u.listen)
  <2>1. DOMAIN u.listen = DOMAIN s.listen \ {x}
    BY <1>3, DropIs
  <2> QED
    BY <2>1, FS_RemoveElement DEF Conn
<1>7. Conn(u, r)
  BY <1>5, <1>6 DEF Conn, IsStarted
<1>8. /\ Shape(w) /\ Alters(u, w, {"agg", "up", "idle"}) /\ Conn(w, r)
      /\ s.stream = "Open" => w.idle = FALSE
  <2>1. CASE s.stream = "Open"
    <3> DEFINE m == [type |-> "unwatch", target |-> x]
    <3>1. w = Sent(u, x, m)
      BY <2>1 DEF SendUnwatchRequest, Sent
    <3> HIDE DEF m, w
    <3>2. IsSent(u, w, x, m)
      BY <1>3, <3>1, SentIs
    <3>3. Conn(w, r)
      BY <1>3, <1>5, <1>7, <2>1, <3>1, SentConn
    <3> QED
      BY <3>2, <3>3 DEF IsSent
  <2>2. CASE s.stream # "Open"
    BY <1>3, <1>7, <2>2 DEF Alters, Shape
  <2> QED
    BY <2>1, <2>2
<1> HIDE DEF w
<1>9. /\ w.down = u.down /\ w.network = u.network /\ w.listen = u.listen
      /\ w.failed = u.failed /\ w.timer = u.timer /\ w.online = u.online
      /\ w.stream = u.stream /\ w.aborted = u.aborted
  BY <1>8 DEF Alters, Fields
<1>10. Quiet(s, w, F)
  <2>1. Quiet(s, u, F) /\ Quiet(u, w, F)
    <3>1. Quiet(s, u, {"listen", "aborted"}) /\ Quiet(u, w, {"agg", "up", "idle"})
      BY <1>3, <1>8, QuietFrame
    <3> QED
      BY <3>1, QuietMore
  <2> QED
    BY <2>1, QuietThen
<1>11. CASE DOMAIN w.listen # {}
  BY <1>1, <1>3, <1>4, <1>8, <1>9, <1>10, <1>11 DEF t
<1>12. CASE DOMAIN w.listen = {} /\ s.stream = "Open"
  <2>1. t = [w EXCEPT !.idle = TRUE]
    BY <1>1, <1>12
  <2>2. Shape(t) /\ Alters(w, t, {"idle"}) /\ t.idle = TRUE
    BY <1>8, <2>1 DEF Shape, Alters, Fields
  <2>3. /\ t.down = w.down /\ t.network = w.network /\ t.listen = w.listen /\ t.agg = w.agg
        /\ t.failed = w.failed /\ t.timer = w.timer /\ t.online = w.online /\ t.up = w.up
        /\ t.stream = w.stream /\ t.aborted = w.aborted
    BY <2>2 DEF Alters, Fields
  <2>4. Conn(t, r)
    BY <1>5, <1>8, <1>9, <1>12, <2>2, <2>3 DEF Conn, IsStarted
  <2>5. Quiet(s, t, F)
    <3>1. Quiet(w, t, {"idle"})
      BY <1>8, <2>2, QuietFrame
    <3>2. Quiet(w, t, F)
      BY <3>1, QuietMore
    <3> QED
      BY <1>10, <3>2, QuietThen
  <2> QED
    BY <1>3, <1>4, <1>9, <2>3, <2>4, <2>5 DEF t
<1>13. CASE DOMAIN w.listen = {} /\ s.stream # "Open"
  <2>1. t = UpdateState(w, "Unknown")
    BY <1>1, <1>13 DEF Conn
  <2>2. /\ Quiet(w, t, {"timer", "failed"}) /\ t.online = "Unknown"
        /\ t.timer = FALSE /\ t.failed = FALSE
    BY <1>8, <2>1, UpdateStateIs
  <2>3. /\ t.down = w.down /\ t.network = w.network /\ t.listen = w.listen /\ t.agg = w.agg
        /\ t.up = w.up /\ t.idle = w.idle /\ t.stream = w.stream /\ t.aborted = w.aborted
    BY <2>2 DEF Quiet, Alters, Fields, Broadcast
  <2>4. Conn(t, r)
    BY <1>8, <1>13, <2>2, <2>3 DEF Conn, IsStarted
  <2>5. Quiet(s, t, F)
    <3>1. Quiet(w, t, F)
      BY <2>2, QuietMore
    <3> QED
      BY <1>10, <3>1, QuietThen
  <2> QED
    BY <1>3, <1>4, <1>9, <2>3, <2>4, <2>5 DEF t
<1> QED
  BY <1>11, <1>12, <1>13

-----------------------------------------------------------------------------
(* The stream ends                                                          *)

\* Nothing is under way, and no timer runs.
Still(s, online) ==
  /\ s.up = <<>> /\ s.down = <<>> /\ s.agg = NewAggregator /\ s.idle = FALSE
  /\ s.timer = FALSE /\ s.failed = FALSE /\ s.online = online

LEMMA ClosedIs ==
    ASSUME NEW s, Shape(s), NEW state
    PROVE  LET t == Closed(s, state)
           IN /\ Shape(t) /\ Alters(s, t, {"stream", "idle", "up", "down", "agg"})
              /\ t.stream = state /\ t.idle = FALSE
              /\ t.up = <<>> /\ t.down = <<>> /\ t.agg = NewAggregator
BY DEF Closed, Shape, Alters, Fields, NewAggregator

LEMMA CloseGracefullyIs ==
    ASSUME NEW s, Shape(s), IsStarted(s)
    PROVE  LET t == CloseGracefully(s)
           IN /\ Quiet(s, t, {"stream", "idle", "up", "down", "agg", "timer", "failed", "aborted"})
              /\ t.stream = "Initial" /\ Still(t, "Unknown")
              /\ ~s.network \/ DOMAIN s.listen = {} => t.aborted = s.aborted
<1> DEFINE F == {"stream", "idle", "up", "down", "agg", "timer", "failed", "aborted"}
           u == Closed(s, "Initial")
           c == Check(u, ~ShouldStartWatchStream(u))
           t == UpdateState(c, "Unknown")
<1>1. CloseGracefully(s) = t
  BY DEF CloseGracefully
<1>2. /\ Shape(u) /\ Alters(s, u, {"stream", "idle", "up", "down", "agg"})
      /\ u.stream = "Initial" /\ u.idle = FALSE
      /\ u.up = <<>> /\ u.down = <<>> /\ u.agg = NewAggregator
  BY ClosedIs
<1> HIDE DEF u
<1>3. Shape(c) /\ Alters(u, c, {"aborted"}) /\ (~ShouldStartWatchStream(u) => c = u)
  BY <1>2, CheckIs
<1> HIDE DEF c
<1>4. /\ Quiet(c, t, {"timer", "failed"})
      /\ t.online = "Unknown" /\ t.timer = FALSE /\ t.failed = FALSE
  BY <1>3, UpdateStateIs
<1> HIDE DEF t
<1>5. Quiet(s, t, F)
  <2>1. Quiet(s, u, F) /\ Quiet(u, c, F) /\ Quiet(c, t, F)
    <3>1. Quiet(s, u, {"stream", "idle", "up", "down", "agg"}) /\ Quiet(u, c, {"aborted"})
      BY <1>2, <1>3, QuietFrame
    <3> QED
      BY <1>4, <3>1, QuietMore
  <2>2. Quiet(s, c, F)
    BY <2>1, QuietThen
  <2> QED
    BY <2>1, <2>2, QuietThen
<1>6. /\ c.up = u.up /\ c.down = u.down /\ c.agg = u.agg /\ c.idle = u.idle /\ c.stream = u.stream
  BY <1>3 DEF Alters, Fields
<1>7. /\ t.up = c.up /\ t.down = c.down /\ t.agg = c.agg /\ t.idle = c.idle /\ t.stream = c.stream
      /\ t.aborted = c.aborted
  BY <1>4 DEF Quiet, Alters, Fields, Broadcast
<1>8. u.aborted = s.aborted /\ u.listen = s.listen /\ u.network = s.network
  BY <1>2 DEF Alters, Fields
<1>9. ~s.network \/ DOMAIN s.listen = {} => t.aborted = s.aborted
  BY <1>3, <1>7, <1>8 DEF ShouldStartWatchStream
<1> QED
  BY <1>1, <1>2, <1>4, <1>5, <1>6, <1>7, <1>9 DEF Still

LEMMA CloseWithErrorIs ==
    ASSUME NEW s, Shape(s), NEW r, Conn(s, r), IsStarted(s)
    PROVE  LET t == CloseWithError(s)
           IN /\ Quiet(s, t, {"stream", "idle", "up", "down", "agg", "timer", "failed", "aborted"})
              /\ t.aborted = s.aborted /\ t.stream # "Open"
              /\ Conn(t, r)
<1> DEFINE F == {"stream", "idle", "up", "down", "agg", "timer", "failed", "aborted"}
           c == Check(s, IsStarted(s))
           u == Closed(c, "Error")
           h == HandleWatchStreamFailure(u)
           t == CloseWithError(s)
<1>1. t = IF ShouldStartWatchStream(u) THEN StartWatchStream(h) ELSE UpdateState(u, "Unknown")
  BY DEF CloseWithError
<1>2. c = s
  BY CheckIs
<1> HIDE DEF t, c
<1>3. /\ Shape(u) /\ Alters(s, u, {"stream", "idle", "up", "down", "agg"})
      /\ u.stream = "Error" /\ u.idle = FALSE
      /\ u.up = <<>> /\ u.down = <<>> /\ u.agg = NewAggregator
  BY <1>2, ClosedIs
<1> HIDE DEF u
<1>4. /\ u.network = s.network /\ u.failed = s.failed /\ u.timer = s.timer
      /\ u.online = s.online /\ u.listen = s.listen /\ u.aborted = s.aborted
  BY <1>3 DEF Alters, Fields
<1>5. Quiet(s, u, F)
  <2>1. Quiet(s, u, {"stream", "idle", "up", "down", "agg"})
    BY <1>3, QuietFrame
  <2> QED
    BY <2>1, QuietMore
<1>6. CASE ShouldStartWatchStream(u)
  <2>1. /\ Quiet(u, h, {"timer", "failed", "aborted"})
        /\ u.online = "Online" => h.online = "Unknown" /\ h.timer = u.timer /\ h.failed = u.failed
        /\ u.online # "Online" => h.online = "Offline" /\ h.timer = FALSE /\ h.failed = TRUE
        /\ u.online = "Online" /\ ~u.timer /\ ~u.failed => h.aborted = u.aborted
        /\ u.online # "Online" => h.aborted = u.aborted
    BY <1>3, HandleWatchStreamFailureIs
  <2>2. t = StartWatchStream(h)
    BY <1>1, <1>6
  <2> HIDE DEF h
  <2>3. /\ h.up = u.up /\ h.down = u.down /\ h.agg = u.agg /\ h.idle = u.idle
        /\ h.stream = u.stream /\ h.network = u.network /\ h.listen = u.listen
    BY <2>1 DEF Quiet, Alters, Fields, Broadcast
  <2>4. /\ ~h.timer /\ h.aborted = s.aborted
        /\ h.timer \in BOOLEAN /\ h.failed \in BOOLEAN
    BY <1>4, <2>1 DEF Conn
  <2>5. Shape(h) /\ ShouldStartWatchStream(h)
    BY <1>6, <2>1, <2>3 DEF Quiet, ShouldStartWatchStream, IsStarted
  <2>6. /\ Quiet(h, t, {"timer", "aborted", "agg", "stream"})
        /\ t.agg = NewAggregator /\ t.stream \in {"Starting", "Backoff"}
        /\ h.failed => t.timer = h.timer /\ t.online = h.online
        /\ ~h.failed => t.timer = TRUE /\ t.online = "Unknown"
        /\ ~h.timer => t.aborted = h.aborted
    BY <2>2, <2>5, StartWatchStreamIs
  <2>7. /\ t.up = h.up /\ t.down = h.down /\ t.idle = h.idle /\ t.network = h.network
        /\ t.listen = h.listen /\ t.failed = h.failed
    BY <2>6 DEF Quiet, Alters, Fields, Broadcast
  <2>8. Quiet(s, t, F)
    <3>1. Quiet(u, h, F) /\ Quiet(h, t, F)
      BY <2>1, <2>6, QuietMore
    <3>2. Quiet(s, h, F)
      BY <1>5, <3>1, QuietThen
    <3> QED
      BY <3>1, <3>2, QuietThen
  <2>9. h.failed => h.online = "Offline"
    BY <1>4, <2>1 DEF Conn
  <2>10. /\ t.timer \in BOOLEAN /\ t.failed \in BOOLEAN
         /\ t.timer => t.online = "Unknown"
         /\ t.failed => t.online = "Offline"
         /\ t.online \in {"Unknown", "Offline"}
         /\ t.online = "Unknown" => t.timer
    <3>1. CASE h.failed
      BY <2>4, <2>6, <2>7, <2>9, <3>1
    <3>2. CASE ~h.failed
      BY <2>4, <2>6, <2>7, <3>2
    <3> QED
      BY <3>1, <3>2
  <2>11. /\ t.network = s.network /\ t.idle = FALSE /\ t.listen = s.listen
         /\ t.up = <<>> /\ t.down = <<>> /\ t.agg = NewAggregator
         /\ t.stream \in {"Starting", "Backoff"}
    BY <1>3, <1>4, <2>3, <2>6, <2>7
  <2>12. Conn(t, r)
    BY <1>4, <2>10, <2>11, SeqEmpty, NoStatesIs DEF Conn, IsStarted
  <2> QED
    BY <2>4, <2>6, <2>8, <2>12 DEF t
<1>7. CASE ~ShouldStartWatchStream(u)
  <2>1. t = UpdateState(u, "Unknown")
    BY <1>1, <1>7
  <2>2. /\ Quiet(u, t, {"timer", "failed"})
        /\ t.online = "Unknown" /\ t.timer = FALSE /\ t.failed = FALSE
    BY <1>3, <2>1, UpdateStateIs
  <2>3. /\ t.up = u.up /\ t.down = u.down /\ t.agg = u.agg /\ t.idle = u.idle
        /\ t.stream = u.stream /\ t.network = u.network /\ t.listen = u.listen
        /\ t.aborted = u.aborted
    BY <2>2 DEF Quiet, Alters, Fields, Broadcast
  <2>4. DOMAIN t.listen = {}
    BY <1>3, <1>4, <1>7, <2>3 DEF ShouldStartWatchStream, IsStarted, Conn
  <2>5. Quiet(s, t, F)
    <3>1. Quiet(u, t, F)
      BY <2>2, QuietMore
    <3> QED
      BY <1>5, <3>1, QuietThen
  <2>6. Conn(t, r)
    <3>1. /\ t.up = <<>> /\ t.down = <<>> /\ t.agg = NewAggregator /\ t.idle = FALSE
          /\ t.stream = "Error" /\ t.network = s.network
      BY <1>3, <1>4, <2>3
    <3>2. s.network /\ s.network \in BOOLEAN
      BY DEF Conn
    <3> QED
      BY <2>2, <2>4, <3>1, <3>2, SeqEmpty, NoStatesIs DEF Conn, IsStarted
  <2> QED
    BY <1>3, <1>4, <2>3, <2>5, <2>6 DEF t
<1> QED
  BY <1>6, <1>7

LEMMA EnableNetworkIs ==
    ASSUME NEW s, Shape(s), ~IsStarted(s), Still(s, "Unknown"), IsFiniteSet(DOMAIN s.listen),
           s.stream = "Initial", NEW r
    PROVE  LET t == EnableNetwork(s)
           IN /\ Quiet(s, t, {"network", "timer", "failed", "aborted", "agg", "stream"})
              /\ t.aborted = s.aborted /\ t.stream # "Open"
              /\ Conn(t, r)
<1> DEFINE F == {"network", "timer", "failed", "aborted", "agg", "stream"}
           u == [s EXCEPT !.network = TRUE]
           t == EnableNetwork(s)
<1>1. t = IF ShouldStartWatchStream(u) THEN StartWatchStream(u) ELSE UpdateState(u, "Unknown")
  BY DEF EnableNetwork
<1>2. Shape(u) /\ Alters(s, u, {"network"}) /\ u.network = TRUE
  BY DEF Shape, Alters, Fields
<1> HIDE DEF u, t
<1>3. /\ u.up = s.up /\ u.down = s.down /\ u.agg = s.agg /\ u.idle = s.idle
      /\ u.stream = s.stream /\ u.listen = s.listen /\ u.aborted = s.aborted
      /\ u.failed = s.failed /\ u.timer = s.timer /\ u.online = s.online
  BY <1>2 DEF Alters, Fields
<1>4. Quiet(s, u, F)
  <2>1. Quiet(s, u, {"network"})
    BY <1>2, QuietFrame
  <2> QED
    BY <2>1, QuietMore
<1>5. CASE ShouldStartWatchStream(u)
  <2>1. /\ Quiet(u, t, {"timer", "aborted", "agg", "stream"})
        /\ t.agg = NewAggregator /\ t.stream \in {"Starting", "Backoff"}
        /\ ~u.failed => t.timer = TRUE /\ t.online = "Unknown"
        /\ ~u.timer => t.aborted = u.aborted
    BY <1>1, <1>2, <1>5, StartWatchStreamIs
  <2>2. /\ t.up = u.up /\ t.down = u.down /\ t.idle = u.idle /\ t.network = u.network
        /\ t.listen = u.listen /\ t.failed = u.failed
    BY <2>1 DEF Quiet, Alters, Fields, Broadcast
  <2>3. Quiet(s, t, F)
    <3>1. Quiet(u, t, F)
      BY <2>1, QuietMore
    <3> QED
      BY <1>4, <3>1, QuietThen
  <2>4. Conn(t, r)
    BY <1>2, <1>3, <2>1, <2>2, SeqEmpty, NoStatesIs DEF Conn, IsStarted, Still
  <2> QED
    BY <1>3, <2>1, <2>3, <2>4 DEF Still, t
<1>6. CASE ~ShouldStartWatchStream(u)
  <2>1. t = UpdateState(u, "Unknown")
    BY <1>1, <1>6
  <2>2. /\ Quiet(u, t, {"timer", "failed"})
        /\ t.online = "Unknown" /\ t.timer = FALSE /\ t.failed = FALSE
    BY <1>2, <2>1, UpdateStateIs
  <2>3. /\ t.up = u.up /\ t.down = u.down /\ t.agg = u.agg /\ t.idle = u.idle
        /\ t.stream = u.stream /\ t.network = u.network /\ t.listen = u.listen
        /\ t.aborted = u.aborted
    BY <2>2 DEF Quiet, Alters, Fields, Broadcast
  <2>4. DOMAIN t.listen = {}
    BY <1>2, <1>3, <1>6, <2>3 DEF ShouldStartWatchStream, IsStarted
  <2>5. Quiet(s, t, F)
    <3>1. Quiet(u, t, F)
      BY <2>2, QuietMore
    <3> QED
      BY <1>4, <3>1, QuietThen
  <2>6. Conn(t, r)
    BY <1>2, <1>3, <2>2, <2>3, <2>4, SeqEmpty, NoStatesIs DEF Conn, IsStarted, Still
  <2>7. t.stream # "Open"
    BY <1>3, <2>3 DEF IsStarted
  <2> QED
    BY <1>3, <2>3, <2>5, <2>6, <2>7 DEF t
<1> QED
  BY <1>5, <1>6

LEMMA RestartNetworkIs ==
    ASSUME NEW s, Shape(s), NEW r, Conn(s, r)
    PROVE  LET t == RestartNetwork(s)
           IN /\ Quiet(s, t, {"network", "stream", "idle", "up", "down", "agg", "timer", "failed",
                              "aborted"})
              /\ t.aborted = s.aborted /\ t.stream # "Open"
              /\ Conn(t, r)
<1> DEFINE F == {"network", "stream", "idle", "up", "down", "agg", "timer", "failed", "aborted"}
           a == [s EXCEPT !.network = FALSE]
           b == CloseGracefully(a)
           d == UpdateState(b, "Unknown")
           c == Check(d, ~IsStarted(d))
           u == [c EXCEPT !.stream = "Initial", !.agg = NewAggregator]
           t == EnableNetwork(u)
<1>1. RestartNetwork(s) = t
  BY DEF RestartNetwork
<1>2. Shape(a) /\ Alters(s, a, {"network"}) /\ a.network = FALSE
  BY DEF Shape, Alters, Fields
<1> HIDE DEF a
<1>3. /\ a.up = s.up /\ a.down = s.down /\ a.agg = s.agg /\ a.idle = s.idle
      /\ a.stream = s.stream /\ a.listen = s.listen /\ a.aborted = s.aborted
  BY <1>2 DEF Alters, Fields
<1>4. Quiet(s, a, F)
  <2>1. Quiet(s, a, {"network"})
    BY <1>2, QuietFrame
  <2> QED
    BY <2>1, QuietMore
<1>5. /\ Quiet(a, b, F) /\ b.aborted = a.aborted /\ ~IsStarted(b)
      /\ b.up = <<>> /\ b.down = <<>> /\ b.agg = NewAggregator /\ b.idle = FALSE
  <2>1. CASE IsStarted(a)
    <3>1. /\ Quiet(a, b, {"stream", "idle", "up", "down", "agg", "timer", "failed", "aborted"})
          /\ b.stream = "Initial" /\ Still(b, "Unknown")
          /\ ~a.network => b.aborted = a.aborted
      BY <1>2, <2>1, CloseGracefullyIs
    <3> HIDE DEF b
    <3>2. Quiet(a, b, F)
      BY <3>1, QuietMore
    <3> QED
      BY <1>2, <3>1, <3>2 DEF Still, IsStarted
  <2>2. CASE ~IsStarted(a)
    <3>1. b = a
      BY <2>2 DEF CloseGracefully
    <3> HIDE DEF b
    <3>2. s.stream # "Open" /\ s.idle \in {FALSE, s.idle} /\ ~s.idle
      BY <1>3, <2>2 DEF Conn, IsStarted
    <3>3. Quiet(a, b, F)
      BY <1>2, <3>1, QuietSame
    <3> QED
      BY <1>3, <2>2, <3>1, <3>2, <3>3 DEF Conn
  <2> QED
    BY <2>1, <2>2
<1> HIDE DEF b
<1>6. Shape(b)
  BY <1>5 DEF Quiet
<1>7. /\ Quiet(b, d, {"timer", "failed"})
      /\ d.online = "Unknown" /\ d.timer = FALSE /\ d.failed = FALSE
  BY <1>6, UpdateStateIs
<1> HIDE DEF d
<1>8. /\ d.up = b.up /\ d.down = b.down /\ d.agg = b.agg /\ d.idle = b.idle
      /\ d.stream = b.stream /\ d.aborted = b.aborted /\ Shape(d)
  BY <1>7 DEF Quiet, Alters, Fields, Broadcast
<1>9. c = d
  BY <1>5, <1>8, CheckIs DEF IsStarted
<1> HIDE DEF c
<1>10. /\ Shape(u) /\ Alters(d, u, {"stream", "agg"}) /\ u.stream = "Initial"
       /\ u.agg = NewAggregator
  BY <1>8, <1>9 DEF Shape, Alters, Fields, NewAggregator
<1> HIDE DEF u
<1>11. /\ u.up = d.up /\ u.down = d.down /\ u.idle = d.idle /\ u.aborted = d.aborted
       /\ u.timer = d.timer /\ u.failed = d.failed /\ u.online = d.online
  BY <1>10 DEF Alters, Fields
<1>12. Quiet(s, u, F)
  <2>1. Quiet(d, u, {"stream", "agg"})
    BY <1>8, <1>10, QuietFrame
  <2>2. Quiet(b, d, F) /\ Quiet(d, u, F)
    BY <1>7, <2>1, QuietMore
  <2>3. Quiet(s, b, F)
    BY <1>4, <1>5, QuietThen
  <2>4. Quiet(s, d, F)
    BY <2>2, <2>3, QuietThen
  <2> QED
    BY <2>2, <2>4, QuietThen
<1>13. u.listen = s.listen
  BY <1>12 DEF Quiet, Alters, Fields, Broadcast
<1>14. ~IsStarted(u) /\ Still(u, "Unknown") /\ IsFiniteSet(DOMAIN u.listen)
  BY <1>5, <1>7, <1>8, <1>10, <1>11, <1>13 DEF IsStarted, Still, Conn
<1>15. /\ Quiet(u, t, {"network", "timer", "failed", "aborted", "agg", "stream"})
       /\ t.aborted = u.aborted /\ t.stream # "Open"
       /\ Conn(t, r)
  BY <1>10, <1>14, EnableNetworkIs
<1> HIDE DEF t
<1>16. Quiet(s, t, F)
  <2>1. Quiet(u, t, F)
    BY <1>15, QuietMore
  <2> QED
    BY <1>12, <2>1, QuietThen
<1> QED
  BY <1>1, <1>3, <1>5, <1>8, <1>11, <1>15, <1>16

-----------------------------------------------------------------------------
(* Looking up the documents in limbo                                        *)

LEMMA ValuesFinite ==
    ASSUME NEW S, IsFiniteSet(S), NEW f, DOMAIN f = S, f = [x \in S |-> f[x]]
    PROVE  IsFiniteSet({f[x] : x \in S})
<1> DEFINE T == {f[x] : x \in S}
<1>1. f \in Surjection(S, T)
  BY DEF Surjection
<1> HIDE DEF T
<1> QED
  BY <1>1, FS_Surjection DEF T

UsedIds(s) == DOMAIN s.listen \cup DOMAIN s.agg.states \cup {s.up[i].target : i \in DOMAIN s.up}
              \cup {s.down[i].target : i \in {j \in DOMAIN s.down : s.down[j].type # "snapshot"}}

LEMMA UsedIdsFinite == ASSUME NEW s, NEW r, Conn(s, r) PROVE IsFiniteSet(UsedIds(s))
<1> DEFINE U == {s.up[i].target : i \in DOMAIN s.up}
           J == {j \in DOMAIN s.down : s.down[j].type # "snapshot"}
           D == {s.down[i].target : i \in J}
<1>1. IsFiniteSet(DOMAIN s.up) /\ IsFiniteSet(DOMAIN s.down)
  <2>1. /\ Len(s.up) \in Nat /\ DOMAIN s.up = 1..Len(s.up)
        /\ Len(s.down) \in Nat /\ DOMAIN s.down = 1..Len(s.down)
    BY SeqFacts DEF Conn
  <2> QED
    BY <2>1, FS_Interval
<1>2. IsFiniteSet(U)
  <2> DEFINE S == DOMAIN s.up
             f == [i \in S |-> s.up[i].target]
  <2>1. DOMAIN f = S /\ f = [x \in S |-> f[x]]
    OBVIOUS
  <2>2. \A x \in S : f[x] = s.up[x].target
    OBVIOUS
  <2> HIDE DEF f
  <2>3. IsFiniteSet({f[x] : x \in S})
    BY <1>1, <2>1, ValuesFinite
  <2>4. U = {f[x] : x \in S}
    BY <2>2
  <2> QED
    BY <2>3, <2>4
<1>3. IsFiniteSet(J)
  BY <1>1, FS_Subset
<1>4. IsFiniteSet(D)
  <2> DEFINE f == [i \in J |-> s.down[i].target]
  <2> HIDE DEF J
  <2>1. DOMAIN f = J /\ f = [x \in J |-> f[x]]
    OBVIOUS
  <2>2. \A x \in J : f[x] = s.down[x].target
    OBVIOUS
  <2> HIDE DEF f
  <2>3. IsFiniteSet({f[x] : x \in J})
    BY <1>3, <2>1, ValuesFinite
  <2>4. D = {f[x] : x \in J}
    BY <2>2
  <2> QED
    BY <2>3, <2>4
<1> HIDE DEF U, J, D
<1>5. IsFiniteSet(DOMAIN s.listen \cup DOMAIN s.agg.states)
  BY FS_Union DEF Conn
<1>6. IsFiniteSet((DOMAIN s.listen \cup DOMAIN s.agg.states) \cup U)
  BY <1>2, <1>5, FS_Union
<1>7. IsFiniteSet(((DOMAIN s.listen \cup DOMAIN s.agg.states) \cup U) \cup D)
  BY <1>4, <1>6, FS_Union
<1> QED
  BY <1>7 DEF UsedIds, U, D, J

\* There is an id that nothing uses: there are more ids than uses.
LEMMA FreshIdIs ==
    ASSUME NEW s, NEW r, Conn(s, r)
    PROVE  FreshId(s) \in Nat \ {0} /\ FreshId(s) \notin UsedIds(s)
<1> DEFINE used == UsedIds(s)
           c == Cardinality(used)
           free == (1..(c + 1)) \ used
           Least(n) == n \in 1..(c + 1) /\ n \notin used /\ \A k \in 1..(n - 1) : k \in used
<1>1. IsFiniteSet(used) /\ c \in Nat
  BY UsedIdsFinite, FS_CardinalityType
<1>2. FreshId(s) = CHOOSE n \in 1..(c + 1) : n \notin used /\ \A k \in 1..(n - 1) : k \in used
  BY DEF FreshId, UsedIds
<1> HIDE DEF used
<1>3. free # {}
  <2>1. SUFFICES ASSUME free = {} PROVE FALSE
    OBVIOUS
  <2>2. 1..(c + 1) \subseteq used
    BY <2>1
  <2>3. Cardinality(1..(c + 1)) <= c
    BY <1>1, <2>2, FS_Subset
  <2>4. Cardinality(1..(c + 1)) = c + 1
    <3>1. Cardinality(1..(c + 1)) = IF 1 > c + 1 THEN 0 ELSE (c + 1) - 1 + 1
      BY <1>1, FS_Interval
    <3> QED
      BY <1>1, <3>1
  <2> QED
    BY <1>1, <2>3, <2>4
<1>4. \E n \in free : \A m \in free : n <= m
  <2>1. free \in SUBSET Nat
    BY <1>1
  <2> HIDE DEF free
  <2>2. PICK n \in free : TRUE
    BY <1>3
  <2> QED
    BY <2>1, <2>2, Numbers!LeastNatural
<1>5. PICK n \in free : \A m \in free : n <= m
  BY <1>4
<1>6. Least(n)
  <2>1. ASSUME NEW k \in 1..(n - 1), k \notin used PROVE FALSE
    <3>1. k \in free /\ k < n
      BY <1>1, <1>5, <2>1
    <3> QED
      BY <1>1, <1>5, <3>1
  <2> QED
    BY <1>5, <2>1
<1>7. FreshId(s) \in 1..(c + 1) /\ FreshId(s) \notin used
  <2> HIDE DEF c
  <2> QED
    BY <1>2, <1>6
<1> QED
  BY <1>1, <1>7 DEF used

\* active and lookups: the lookup of a document is the target of that document, and
\* (with room for every document) the only one.
Paired(a, l) == /\ \A d \in DOMAIN a : a[d] \in DOMAIN l /\ l[a[d]].ad = d
                /\ \A t \in DOMAIN l : DOMAIN l[t] = {"ad", "received"}
Matched(a, l) == \A t \in DOMAIN l : l[t].ad \in DOMAIN a /\ a[l[t].ad] = t

LEMMA PutPair ==
    ASSUME NEW a, NEW l, Paired(a, l), NEW d, NEW t, t \notin DOMAIN l
    PROVE  LET b == IF d \in DOMAIN a THEN a ELSE Put(a, d, t)
               m == Put(l, t, [ad |-> d, received |-> FALSE])
           IN /\ Paired(b, m) /\ DOMAIN m = DOMAIN l \cup {t}
              /\ d \notin DOMAIN a /\ Matched(a, l) =>
                    Matched(b, m) /\ DOMAIN b = DOMAIN a \cup {d}
<1> DEFINE b == IF d \in DOMAIN a THEN a ELSE Put(a, d, t)
           entry == [ad |-> d, received |-> FALSE]
           m == Put(l, t, entry)
<1>1. entry.ad = d /\ DOMAIN entry = {"ad", "received"}
  OBVIOUS
<1> HIDE DEF entry
<1>2. DOMAIN m = DOMAIN l \cup {t} /\ m[t] = entry /\ \A x \in DOMAIN l : x # t => m[x] = l[x]
  BY DEF Put
<1>3. d \in DOMAIN a => b = a
  OBVIOUS
<1>4. d \notin DOMAIN a => /\ DOMAIN b = DOMAIN a \cup {d} /\ b[d] = t
                           /\ \A x \in DOMAIN a : x # d => b[x] = a[x]
  <2> SUFFICES ASSUME d \notin DOMAIN a
               PROVE  /\ DOMAIN b = DOMAIN a \cup {d} /\ b[d] = t
                      /\ \A x \in DOMAIN a : x # d => b[x] = a[x]
    OBVIOUS
  <2>1. b = Put(a, d, t)
    OBVIOUS
  <2> HIDE DEF b
  <2> QED
    BY <2>1 DEF Put
<1> HIDE DEF b, m
<1>5. Paired(b, m)
  BY <1>1, <1>2, <1>3, <1>4 DEF Paired
<1>6. ASSUME d \notin DOMAIN a, Matched(a, l) PROVE Matched(b, m)
  BY <1>1, <1>2, <1>4, <1>6 DEF Matched
<1> QED
  BY <1>2, <1>4, <1>5, <1>6 DEF b, m, entry

AdOf(l, t) == l[t].ad

LEMMA DropPair ==
    ASSUME NEW a, NEW l, Paired(a, l), NEW t, t \in DOMAIN l
    PROVE  /\ Paired(Drop(a, AdOf(l, t)), Drop(l, t)) /\ DOMAIN Drop(l, t) = DOMAIN l \ {t}
           /\ Matched(a, l) => Matched(Drop(a, AdOf(l, t)), Drop(l, t))
           /\ DOMAIN Drop(a, AdOf(l, t)) = DOMAIN a \ {AdOf(l, t)}
<1> DEFINE d == AdOf(l, t)
           b == Drop(a, d)
           m == Drop(l, t)
<1>1. /\ DOMAIN m = DOMAIN l \ {t} /\ \A x \in DOMAIN l : x # t => m[x] = l[x]
      /\ DOMAIN b = DOMAIN a \ {d} /\ \A x \in DOMAIN a : x # d => b[x] = a[x]
  BY DropIs
<1> HIDE DEF b, m
<1>2. Paired(b, m)
  BY <1>1 DEF Paired, AdOf
<1>3. ASSUME Matched(a, l) PROVE Matched(b, m)
  BY <1>1, <1>3 DEF Matched, AdOf
<1> QED
  BY <1>1, <1>2, <1>3 DEF b, m

\* The targets: the query, and one for each lookup.
Look(s) ==
  /\ IsSeq(s.enqueued)
  /\ Paired(s.active, s.lookups)
  /\ DOMAIN s.listen \ {Query} = DOMAIN s.lookups /\ Query \notin DOMAIN s.lookups
  /\ s.view # NoView => s.view.limbo \subseteq Ads

\* With room for every document nothing waits to be looked up.
RoomEnough == Cardinality(Ads) <= MaxConcurrentLimboResolutions
Room(s) == s.enqueued = <<>> /\ Matched(s.active, s.lookups)

LimboF == {"listen", "timer", "failed", "aborted", "agg", "stream", "up", "idle",
           "enqueued", "active", "lookups"}

\* What the bookkeeping of the limbo documents never does.
Limbo(s, t, r) ==
  /\ Quiet(s, t, LimboF) /\ Conn(t, r) /\ Look(t) /\ t.aborted = s.aborted
  /\ Query \in DOMAIN t.listen <=> Query \in DOMAIN s.listen

LEMMA LimboSame ==
    ASSUME NEW s, NEW r, Shape(s), Conn(s, r), Look(s)
    PROVE  Limbo(s, s, r)
BY QuietSame DEF Limbo

LEMMA LimboThen ==
    ASSUME NEW s, NEW t, NEW u, NEW r, Limbo(s, t, r), Limbo(t, u, r)
    PROVE  Limbo(s, u, r)
<1>1. Quiet(s, u, LimboF)
  BY QuietThen DEF Limbo
<1> QED
  BY <1>1 DEF Limbo

LEMMA ConnSame ==
    ASSUME NEW s, NEW t, NEW r, NEW F, Conn(s, r), Alters(s, t, F),
           F \cap {"stream", "network", "idle", "up", "down", "agg", "listen", "online", "failed",
                   "timer"} = {}
    PROVE  Conn(t, r)
<1>1. /\ t.stream = s.stream /\ t.network = s.network /\ t.idle = s.idle /\ t.up = s.up
      /\ t.down = s.down /\ t.agg = s.agg /\ t.listen = s.listen /\ t.online = s.online
      /\ t.failed = s.failed /\ t.timer = s.timer
  BY DEF Alters, Fields
<1> QED
  BY <1>1 DEF Conn, IsStarted

LEMMA PumpOneIs ==
    ASSUME NEW s, NEW r, Shape(s), Conn(s, r), Look(s)
    PROVE  LET t == PumpOne(s)
           IN /\ Limbo(s, t, r)
              /\ \A d : s.enqueued = <<d>> /\ d \notin DOMAIN s.active /\ Matched(s.active, s.lookups)
                        /\ ~(Cardinality(DOMAIN s.active) >= MaxConcurrentLimboResolutions)
                        => Room(t) /\ DOMAIN t.active = DOMAIN s.active \cup {d}
<1> DEFINE full == s.enqueued = <<>>
                   \/ Cardinality(DOMAIN s.active) >= MaxConcurrentLimboResolutions
           t == PumpOne(s)
<1>1. CASE full
  <2>1. t = s
    BY <1>1 DEF PumpOne
  <2>2. \A d : <<d>> # <<>>
    BY SeqOne, SeqEmpty
  <2> QED
    BY <1>1, <2>1, <2>2, LimboSame
<1>2. CASE ~full
  <2> DEFINE d == Head(s.enqueued)
             x == FreshId(s)
             active == IF d \in DOMAIN s.active THEN s.active ELSE Put(s.active, d, x)
             lookups == Put(s.lookups, x, [ad |-> d, received |-> FALSE])
             u == [s EXCEPT !.enqueued = Tail(@), !.active = active, !.lookups = lookups]
  <2>1. t = RemoteListen(u, x, d, 0)
    BY <1>2 DEF PumpOne
  <2>2. /\ Shape(u) /\ Alters(s, u, {"enqueued", "active", "lookups"})
        /\ u.enqueued = Tail(s.enqueued) /\ u.active = active /\ u.lookups = lookups
    BY DEF Shape, Alters, Fields
  <2>3. IsSeq(u.enqueued)
    BY <1>2, <2>2, SeqTail DEF Look
  <2>4. x \in Nat \ {0} /\ x \notin UsedIds(s)
    BY FreshIdIs
  <2>5. x # Query /\ x \notin DOMAIN s.listen /\ x \notin DOMAIN s.lookups
    BY <2>4 DEF UsedIds, Look, Query
  <2>6. /\ Paired(active, lookups) /\ DOMAIN lookups = DOMAIN s.lookups \cup {x}
        /\ d \notin DOMAIN s.active /\ Matched(s.active, s.lookups) =>
              Matched(active, lookups) /\ DOMAIN active = DOMAIN s.active \cup {d}
    <3> HIDE DEF d, x
    <3>1. Paired(s.active, s.lookups)
      BY DEF Look
    <3> QED
      BY <2>5, <3>1, PutPair
  <2> HIDE DEF t, u, active, lookups, d, x
  <2>7. Conn(u, r) /\ u.listen = s.listen /\ u.view = s.view /\ u.aborted = s.aborted
    <3>1. Conn(u, r)
      BY <2>2, ConnSame
    <3> QED
      BY <2>2, <3>1 DEF Alters, Fields
  <2> DEFINE q == r \/ (x = Query /\ IsStarted(u) /\ u.online = "Unknown" /\ ~u.timer)
  <2>8. /\ Quiet(u, t, {"listen", "timer", "aborted", "agg", "stream", "up", "idle"})
        /\ t.listen = Put(u.listen, x, [ad |-> d, token |-> 0])
        /\ t.aborted = u.aborted
        /\ Conn(t, q)
    BY <2>1, <2>2, <2>5, <2>7, RemoteListenIs
  <2>9. Conn(t, r)
    BY <2>5, <2>8 DEF Conn
  <2>10. /\ t.enqueued = u.enqueued /\ t.active = u.active /\ t.lookups = u.lookups
         /\ SameView(u.view, t.view)
    BY <2>8 DEF Quiet, Alters, Fields, Broadcast
  <2>11. DOMAIN t.listen = DOMAIN s.listen \cup {x}
    <3> DEFINE entry == [ad |-> d, token |-> 0]
    <3>1. t.listen = Put(s.listen, x, entry)
      BY <2>7, <2>8
    <3> HIDE DEF entry
    <3> QED
      BY <3>1, PutDomain
  <2>12. Look(t)
    BY <2>2, <2>3, <2>5, <2>6, <2>7, <2>10, <2>11 DEF Look, SameView
  <2>13. Quiet(s, t, LimboF)
    <3>1. Quiet(s, u, {"enqueued", "active", "lookups"})
      BY <2>2, QuietFrame
    <3>2. Quiet(s, u, LimboF) /\ Quiet(u, t, LimboF)
      BY <2>8, <3>1, QuietMore DEF LimboF
    <3> QED
      BY <3>2, QuietThen
  <2>14. Limbo(s, t, r)
    BY <2>5, <2>7, <2>8, <2>9, <2>11, <2>12, <2>13 DEF Limbo
  <2>15. ASSUME NEW e, s.enqueued = <<e>>, e \notin DOMAIN s.active,
                Matched(s.active, s.lookups)
         PROVE  Room(t) /\ DOMAIN t.active = DOMAIN s.active \cup {e}
    <3>1. d = e /\ u.enqueued = <<>>
      BY <2>2, <2>15 DEF d
    <3> QED
      BY <2>2, <2>6, <2>10, <2>15, <3>1 DEF Room
  <2> QED
    BY <2>14, <2>15 DEF t
<1> QED
  BY <1>1, <1>2

-----------------------------------------------------------------------------
Pumping == INSTANCE FoldLemmas WITH Step <- LAMBDA p, i, acc : PumpOne(acc)

LEMMA PumpLoop ==
    ASSUME NEW s
    PROVE  PumpEnqueuedLimboResolutions(s) = Pumping!Loop(0, s, DOMAIN s.enqueued)
BY DEF PumpEnqueuedLimboResolutions, Pumping!Loop, FoldSet, MapThenFoldSet, Pumping!FoldSet,
       Pumping!MapThenFoldSet

LEMMA PumpKeep ==
    ASSUME NEW s, NEW S, IsFiniteSet(S)
    PROVE  \E R : /\ <<{}, s>> \in R
                  /\ \A V : /\ <<{}, s>> \in V
                            /\ \A done, acc, x :
                                  /\ <<done, acc>> \in V /\ done \subseteq S /\ x \in S \ done
                                  /\ <<done \cup {x}, PumpOne(acc)>> \in R
                                  => <<done \cup {x}, PumpOne(acc)>> \in V
                            => <<S, Pumping!Loop(0, s, S)>> \in V
<1>1. \E n \in Nat : \E f \in [1..n -> S] : \A x \in S : \E i \in 1..n : f[i] = x
  BY CanBeListed
<1> QED
  BY <1>1, Pumping!LoopKeeps

LEMMA PumpIs ==
    ASSUME NEW s, NEW r, Shape(s), Conn(s, r), Look(s)
    PROVE  LET t == PumpEnqueuedLimboResolutions(s)
           IN /\ Limbo(s, t, r)
              /\ s.enqueued = <<>> => t = s
              /\ \A d : s.enqueued = <<d>> => t = PumpOne(s)
<1> DEFINE S == DOMAIN s.enqueued
           after == Pumping!Loop(0, s, S)
<1>0. PumpEnqueuedLimboResolutions(s) = after
  BY PumpLoop
<1>1. IsFiniteSet(S) /\ S = DOMAIN s.enqueued
  <2>1. Len(s.enqueued) \in Nat /\ S = 1..Len(s.enqueued)
    BY SeqFacts DEF Look
  <2> DEFINE n == Len(s.enqueued)
  <2> HIDE DEF S, n
  <2>2. IsFiniteSet(1..n)
    BY <2>1, FS_Interval DEF n
  <2> QED
    BY <2>1, <2>2 DEF n, S
<1> HIDE DEF S
<1>6. IsFiniteSet(S)
  BY <1>1
<1>2. PICK R : /\ <<{}, s>> \in R
               /\ \A V : /\ <<{}, s>> \in V
                         /\ \A done, acc, x :
                               /\ <<done, acc>> \in V /\ done \subseteq S /\ x \in S \ done
                               /\ <<done \cup {x}, PumpOne(acc)>> \in R
                               => <<done \cup {x}, PumpOne(acc)>> \in V
                         => <<S, after>> \in V
  BY <1>6, PumpKeep
<1> HIDE DEF after
<1>3. Limbo(s, after, r)
  <2> DEFINE Fine(t) == Limbo(s, t, r)
             V == {v \in R : Fine(v[2])}
  <2>1. Fine(s)
    BY LimboSame
  <2>2. \A acc : Fine(acc) => Fine(PumpOne(acc))
    <3> SUFFICES ASSUME NEW acc, Fine(acc) PROVE Fine(PumpOne(acc))
      OBVIOUS
    <3>1. Shape(acc) /\ Conn(acc, r) /\ Look(acc)
      BY DEF Limbo, Quiet
    <3>2. Limbo(acc, PumpOne(acc), r)
      BY <3>1, PumpOneIs
    <3> QED
      BY <3>2, LimboThen
  <2> HIDE DEF Fine
  <2>3. <<S, after>> \in V
    BY <1>2, <2>1, <2>2
  <2> QED
    BY <2>3 DEF Fine
<1>4. ASSUME s.enqueued = <<>> PROVE after = s
  <2> DEFINE V == {v \in R : v[2] = s}
  <2>1. S = {}
    BY <1>1, <1>4
  <2>2. <<S, after>> \in V
    BY <1>2, <2>1
  <2> QED
    BY <2>2
<1>5. ASSUME NEW d, s.enqueued = <<d>> PROVE after = PumpOne(s)
  <2> DEFINE one == PumpOne(s)
             V == {v \in R : (v[1] = {} => v[2] = s) /\ (v[1] # {} => v[2] = one)}
  <2>1. S = {1}
    <3>1. Len(<<d>>) = 1 /\ IsSeq(<<d>>) /\ 1..1 = {1}
      BY SeqOne
    <3> QED
      BY <1>1, <1>5, <3>1, SeqFacts
  <2>2. ASSUME NEW done, NEW acc, NEW x, <<done, acc>> \in V, done \subseteq S, x \in S \ done,
               <<done \cup {x}, PumpOne(acc)>> \in R
        PROVE  <<done \cup {x}, PumpOne(acc)>> \in V
    <3>1. done = {}
      BY <2>1, <2>2
    <3>2. acc = s
      BY <2>2, <3>1
    <3> HIDE DEF one
    <3>3. PumpOne(acc) = one
      BY <3>2 DEF one
    <3> QED
      BY <2>2, <3>3
  <2>3. <<{}, s>> \in V
    BY <1>2
  <2> HIDE DEF V
  <2>4. <<S, after>> \in V
    BY <1>2, <2>2, <2>3
  <2> QED
    BY <2>1, <2>4 DEF V
<1> QED
  BY <1>0, <1>3, <1>4, <1>5

LEMMA TrackLimboChangeIs ==
    ASSUME NEW s, NEW r, Shape(s), Conn(s, r), Look(s), NEW d
    PROVE  LET t == TrackLimboChange(s, d)
           IN /\ Limbo(s, t, r)
              /\ RoomEnough /\ Room(s) /\ DOMAIN s.active \subseteq Ads /\ d \in Ads
                    => Room(t) /\ DOMAIN t.active = DOMAIN s.active \cup {d}
<1> DEFINE t == TrackLimboChange(s, d)
<1>1. CASE d \in DOMAIN s.active
  <2>1. t = s
    BY <1>1 DEF TrackLimboChange
  <2>2. DOMAIN s.active = DOMAIN s.active \cup {d}
    BY <1>1
  <2> QED
    BY <2>1, <2>2, LimboSame
<1>2. CASE d \notin DOMAIN s.active
  <2> DEFINE u == [s EXCEPT !.enqueued = Append(@, d)]
  <2>1. t = PumpEnqueuedLimboResolutions(u)
    BY <1>2 DEF TrackLimboChange
  <2>2. /\ Shape(u) /\ Alters(s, u, {"enqueued"}) /\ u.enqueued = Grown(s.enqueued, d)
        /\ u.enqueued = Append(s.enqueued, d)
    BY DEF Shape, Alters, Fields, Grown
  <2> HIDE DEF u, t
  <2>3. IsSeq(u.enqueued)
    <3> DEFINE old == s.enqueued
               all == u.enqueued
    <3>1. IsSeq(old) /\ all = Grown(old, d)
      BY <2>2 DEF Look
    <3> HIDE DEF old, all
    <3>2. IsSeq(all)
      BY <3>1, GrownIs
    <3> QED
      BY <3>2 DEF all
  <2>4. /\ u.active = s.active /\ u.lookups = s.lookups /\ u.listen = s.listen
        /\ u.view = s.view /\ u.aborted = s.aborted
    BY <2>2 DEF Alters, Fields
  <2>5. Conn(u, r) /\ Look(u)
    <3>1. Conn(u, r)
      BY <2>2, ConnSame
    <3> QED
      BY <2>3, <2>4, <3>1 DEF Look
  <2>6. /\ Limbo(u, t, r)
        /\ \A e : u.enqueued = <<e>> => t = PumpOne(u)
    BY <2>1, <2>2, <2>5, PumpIs
  <2>7. Limbo(s, u, r)
    <3>1. Quiet(s, u, {"enqueued"})
      BY <2>2, QuietFrame
    <3>2. Quiet(s, u, LimboF)
      BY <3>1, QuietMore DEF LimboF
    <3> QED
      BY <2>4, <2>5, <3>2 DEF Limbo
  <2>8. Limbo(s, t, r)
    BY <2>6, <2>7, LimboThen
  <2>9. ASSUME RoomEnough, Room(s), DOMAIN s.active \subseteq Ads, d \in Ads
        PROVE  Room(t) /\ DOMAIN t.active = DOMAIN s.active \cup {d}
    <3> DEFINE A == DOMAIN s.active
               c == Cardinality(A)
    <3>1. u.enqueued = <<d>>
      <4>1. s.enqueued = <<>>
        BY <2>9 DEF Room
      <4> QED
        BY <2>2, <4>1
    <3>2. ~(c >= MaxConcurrentLimboResolutions)
      <4>1. IsFiniteSet(A) /\ IsFiniteSet(Ads)
        BY <2>9, BoundsAssumption, FS_Subset
      <4>2. A \cup {d} \subseteq Ads /\ d \notin A
        BY <1>2, <2>9
      <4> HIDE DEF A
      <4>3. c \in Nat /\ Cardinality(A \cup {d}) = c + 1
        BY <4>1, <4>2, FS_AddElement, FS_CardinalityType
      <4>4. Cardinality(A \cup {d}) <= Cardinality(Ads) /\ Cardinality(Ads) \in Nat
        BY <4>1, <4>2, FS_Subset, FS_CardinalityType
      <4> HIDE DEF c
      <4> QED
        BY <2>9, <4>3, <4>4, BoundsAssumption DEF RoomEnough
    <3>3. t = PumpOne(u)
      BY <2>6, <3>1
    <3>4. Matched(u.active, u.lookups) /\ d \notin DOMAIN u.active
      BY <1>2, <2>4, <2>9 DEF Room
    <3> DEFINE full == Cardinality(DOMAIN u.active) >= MaxConcurrentLimboResolutions
               one == PumpOne(u)
    <3>5. ~full
      BY <2>4, <3>2
    <3> HIDE DEF full
    <3>6. \A e : u.enqueued = <<e>> /\ e \notin DOMAIN u.active /\ Matched(u.active, u.lookups)
                 /\ ~full => Room(one) /\ DOMAIN one.active = DOMAIN u.active \cup {e}
      BY <2>2, <2>5, PumpOneIs DEF full
    <3> HIDE DEF one
    <3>7. Room(one) /\ DOMAIN one.active = DOMAIN u.active \cup {d}
      BY <3>1, <3>4, <3>5, <3>6
    <3> QED
      BY <2>4, <3>3, <3>7 DEF one
  <2> QED
    BY <2>8, <2>9 DEF t
<1> QED
  BY <1>1, <1>2

\* A lookup is given up together with its target.
Unpaired(s, x) == [s EXCEPT !.active = Drop(@, s.lookups[x].ad), !.lookups = Drop(@, x)]

LEMMA UnpairedIs ==
    ASSUME NEW s, NEW r, Shape(s), Conn(s, r), IsSeq(s.enqueued), Paired(s.active, s.lookups),
           Query \notin DOMAIN s.lookups, NEW x \in DOMAIN s.lookups,
           DOMAIN s.listen \ {Query} = DOMAIN s.lookups \ {x},
           s.view # NoView => s.view.limbo \subseteq Ads
    PROVE  LET u == Unpaired(s, x)
           IN /\ Shape(u) /\ Alters(s, u, {"active", "lookups"}) /\ Conn(u, r) /\ Look(u)
              /\ DOMAIN u.active = DOMAIN s.active \ {s.lookups[x].ad}
              /\ Matched(s.active, s.lookups) => Matched(u.active, u.lookups)
<1> DEFINE u == Unpaired(s, x)
           d == s.lookups[x].ad
<1>1. /\ Shape(u) /\ Alters(s, u, {"active", "lookups"})
      /\ u.active = Drop(s.active, d) /\ u.lookups = Drop(s.lookups, x)
  BY DEF Unpaired, Shape, Alters, Fields
<1>2. /\ Paired(Drop(s.active, d), Drop(s.lookups, x))
      /\ DOMAIN Drop(s.lookups, x) = DOMAIN s.lookups \ {x}
      /\ Matched(s.active, s.lookups) => Matched(Drop(s.active, d), Drop(s.lookups, x))
      /\ DOMAIN Drop(s.active, d) = DOMAIN s.active \ {d}
  <2> DEFINE a == s.active
             l == s.lookups
             e == AdOf(l, x)
  <2>1. Paired(a, l) /\ x \in DOMAIN l
    OBVIOUS
  <2> HIDE DEF a, l
  <2>3. Paired(Drop(a, e), Drop(l, x)) /\ (Matched(a, l) => Matched(Drop(a, e), Drop(l, x)))
    BY <2>1, DropPair
  <2>4. DOMAIN Drop(l, x) = DOMAIN l \ {x} /\ DOMAIN Drop(a, e) = DOMAIN a \ {e}
    BY DropIs
  <2>2. /\ Paired(Drop(a, e), Drop(l, x)) /\ DOMAIN Drop(l, x) = DOMAIN l \ {x}
        /\ Matched(a, l) => Matched(Drop(a, e), Drop(l, x))
        /\ DOMAIN Drop(a, e) = DOMAIN a \ {e}
    BY <2>3, <2>4
  <2> QED
    BY <2>2 DEF a, l, AdOf
<1> HIDE DEF u
<1>3. u.enqueued = s.enqueued /\ u.listen = s.listen /\ u.view = s.view
  BY <1>1 DEF Alters, Fields
<1>4. Conn(u, r)
  BY <1>1, ConnSame
<1>5. Look(u)
  BY <1>1, <1>2, <1>3 DEF Look
<1> QED
  BY <1>1, <1>2, <1>4, <1>5 DEF u

LEMMA RemoveLimboTargetIs ==
    ASSUME NEW s, NEW r, Shape(s), Conn(s, r), Look(s), NEW d
    PROVE  LET t == RemoveLimboTarget(s, d)
           IN /\ Limbo(s, t, r)
              /\ Room(s) => Room(t) /\ DOMAIN t.active = DOMAIN s.active \ {d}
<1> DEFINE t == RemoveLimboTarget(s, d)
<1>1. CASE d \notin DOMAIN s.active
  <2>1. t = s
    BY <1>1 DEF RemoveLimboTarget
  <2>2. DOMAIN s.active = DOMAIN s.active \ {d}
    BY <1>1
  <2> QED
    BY <2>1, <2>2, LimboSame
<1>2. CASE d \in DOMAIN s.active
  <2> DEFINE x == s.active[d]
             w == RemoteStopListening(s, x)
             u == Unpaired(w, x)
  <2>1. x \in DOMAIN s.lookups /\ s.lookups[x].ad = d /\ x \in DOMAIN s.listen /\ x # Query
    BY <1>2 DEF Look, Paired
  <2>2. /\ Quiet(s, w, {"listen", "timer", "failed", "aborted", "agg", "up", "idle"})
        /\ w.listen = Drop(s.listen, x)
        /\ x \in DOMAIN s.listen => w.aborted = s.aborted
        /\ Conn(w, r)
    <3> HIDE DEF x
    <3> QED
      BY RemoteStopListeningIs
  <2>3. t = PumpEnqueuedLimboResolutions([w EXCEPT !.active = Drop(@, d), !.lookups = Drop(@, x)])
    BY <1>2 DEF RemoveLimboTarget
  <2> HIDE DEF w, t, x
  <2>4. /\ w.active = s.active /\ w.lookups = s.lookups /\ w.enqueued = s.enqueued
        /\ Shape(w) /\ SameView(s.view, w.view)
    BY <2>2 DEF Quiet, Alters, Fields, Broadcast
  <2>5. t = PumpEnqueuedLimboResolutions(u)
    BY <2>1, <2>3, <2>4 DEF Unpaired
  <2>6. DOMAIN w.listen = DOMAIN s.listen \ {x}
    BY <2>2, DropIs
  <2>7. /\ Shape(u) /\ Alters(w, u, {"active", "lookups"}) /\ Conn(u, r) /\ Look(u)
        /\ DOMAIN u.active = DOMAIN w.active \ {d}
        /\ Matched(w.active, w.lookups) => Matched(u.active, u.lookups)
    <3>1. /\ IsSeq(w.enqueued) /\ Paired(w.active, w.lookups)
          /\ Query \notin DOMAIN w.lookups /\ x \in DOMAIN w.lookups
          /\ DOMAIN w.listen \ {Query} = DOMAIN w.lookups \ {x}
          /\ w.view # NoView => w.view.limbo \subseteq Ads
      BY <2>1, <2>4, <2>6 DEF Look, SameView
    <3>2. w.lookups[x].ad = d
      BY <2>1, <2>4
    <3> HIDE DEF u
    <3> QED
      BY <2>2, <2>4, <3>1, <3>2, UnpairedIs DEF u
  <2> HIDE DEF u
  <2>8. u.enqueued = w.enqueued /\ u.listen = w.listen /\ u.aborted = w.aborted
    BY <2>7 DEF Alters, Fields
  <2>9. Limbo(s, u, r)
    <3>1. Quiet(w, u, {"active", "lookups"})
      BY <2>4, <2>7, QuietFrame
    <3>2. Quiet(w, u, LimboF) /\ Quiet(s, w, LimboF)
      BY <2>2, <3>1, QuietMore DEF LimboF
    <3>3. Quiet(s, u, LimboF)
      BY <3>2, QuietThen
    <3> QED
      BY <2>1, <2>2, <2>6, <2>7, <2>8, <3>3 DEF Limbo
  <2>10. /\ Limbo(u, t, r)
         /\ u.enqueued = <<>> => t = u
    BY <2>5, <2>7, PumpIs
  <2>11. Limbo(s, t, r)
    BY <2>9, <2>10, LimboThen
  <2> QED
    BY <2>4, <2>7, <2>8, <2>10, <2>11 DEF Room, t
<1> QED
  BY <1>1, <1>2

-----------------------------------------------------------------------------
Removing == INSTANCE FoldLemmas WITH Step <- LAMBDA p, d, acc : RemoveLimboTarget(acc, d)
Tracking == INSTANCE FoldLemmas WITH Step <- LAMBDA p, d, acc : TrackLimboChange(acc, d)

LEMMA RemoveLoop ==
    ASSUME NEW s, NEW S
    PROVE  RemoveLimboTargets(s, S) = Removing!Loop(0, s, S)
BY DEF RemoveLimboTargets, Removing!Loop, FoldSet, MapThenFoldSet, Removing!FoldSet,
       Removing!MapThenFoldSet

LEMMA RemoveKeep ==
    ASSUME NEW s, NEW S, IsFiniteSet(S)
    PROVE  \E R : /\ <<{}, s>> \in R
                  /\ \A V : /\ <<{}, s>> \in V
                            /\ \A done, acc, x :
                                  /\ <<done, acc>> \in V /\ done \subseteq S /\ x \in S \ done
                                  /\ <<done \cup {x}, RemoveLimboTarget(acc, x)>> \in R
                                  => <<done \cup {x}, RemoveLimboTarget(acc, x)>> \in V
                            => <<S, Removing!Loop(0, s, S)>> \in V
<1>1. \E n \in Nat : \E f \in [1..n -> S] : \A x \in S : \E i \in 1..n : f[i] = x
  BY CanBeListed
<1> QED
  BY <1>1, Removing!LoopKeeps

LEMMA TrackLoop ==
    ASSUME NEW s, NEW S
    PROVE  TrackLimboChanges(s, S) = Tracking!Loop(0, s, S)
BY DEF TrackLimboChanges, Tracking!Loop, FoldSet, MapThenFoldSet, Tracking!FoldSet,
       Tracking!MapThenFoldSet

LEMMA TrackKeep ==
    ASSUME NEW s, NEW S, IsFiniteSet(S)
    PROVE  \E R : /\ <<{}, s>> \in R
                  /\ \A V : /\ <<{}, s>> \in V
                            /\ \A done, acc, x :
                                  /\ <<done, acc>> \in V /\ done \subseteq S /\ x \in S \ done
                                  /\ <<done \cup {x}, TrackLimboChange(acc, x)>> \in R
                                  => <<done \cup {x}, TrackLimboChange(acc, x)>> \in V
                            => <<S, Tracking!Loop(0, s, S)>> \in V
<1>1. \E n \in Nat : \E f \in [1..n -> S] : \A x \in S : \E i \in 1..n : f[i] = x
  BY CanBeListed
<1> QED
  BY <1>1, Tracking!LoopKeeps

LEMMA RemoveLimboTargetsIs ==
    ASSUME NEW s, NEW r, Shape(s), Conn(s, r), Look(s), NEW S, IsFiniteSet(S)
    PROVE  LET t == RemoveLimboTargets(s, S)
           IN /\ Limbo(s, t, r)
              /\ Room(s) => Room(t) /\ DOMAIN t.active = DOMAIN s.active \ S
<1> DEFINE Fine(done, t) ==
             /\ Limbo(s, t, r)
             /\ Room(s) => Room(t) /\ DOMAIN t.active = DOMAIN s.active \ done
           after == Removing!Loop(0, s, S)
<1>1. PICK R : /\ <<{}, s>> \in R
               /\ \A V : /\ <<{}, s>> \in V
                         /\ \A done, acc, x :
                               /\ <<done, acc>> \in V /\ done \subseteq S /\ x \in S \ done
                               /\ <<done \cup {x}, RemoveLimboTarget(acc, x)>> \in R
                               => <<done \cup {x}, RemoveLimboTarget(acc, x)>> \in V
                         => <<S, after>> \in V
  BY RemoveKeep
<1> HIDE DEF after
<1> DEFINE V == {v \in R : Fine(v[1], v[2])}
<1>2. Fine({}, s)
  BY LimboSame
<1>3. \A done, acc, x : Fine(done, acc) => Fine(done \cup {x}, RemoveLimboTarget(acc, x))
  <2> SUFFICES ASSUME NEW done, NEW acc, NEW x, Fine(done, acc)
               PROVE  Fine(done \cup {x}, RemoveLimboTarget(acc, x))
    OBVIOUS
  <2> DEFINE t == RemoveLimboTarget(acc, x)
  <2>1. Shape(acc) /\ Conn(acc, r) /\ Look(acc)
    BY DEF Limbo, Quiet
  <2>2. /\ Limbo(acc, t, r)
        /\ Room(acc) => Room(t) /\ DOMAIN t.active = DOMAIN acc.active \ {x}
    BY <2>1, RemoveLimboTargetIs
  <2> HIDE DEF t
  <2>3. Limbo(s, t, r)
    BY <2>2, LimboThen
  <2> QED
    BY <2>2, <2>3 DEF t
<1> HIDE DEF Fine
<1>4. <<S, after>> \in V
  BY <1>1, <1>2, <1>3
<1>5. Fine(S, after)
  BY <1>4
<1> QED
  BY <1>5, RemoveLoop DEF Fine, after

LEMMA TrackLimboChangesIs ==
    ASSUME NEW s, NEW r, Shape(s), Conn(s, r), Look(s), NEW S, IsFiniteSet(S)
    PROVE  LET t == TrackLimboChanges(s, S)
           IN /\ Limbo(s, t, r)
              /\ RoomEnough /\ Room(s) /\ DOMAIN s.active \subseteq Ads /\ S \subseteq Ads
                    => Room(t) /\ DOMAIN t.active = DOMAIN s.active \cup S
<1> DEFINE Roomy == RoomEnough /\ Room(s) /\ DOMAIN s.active \subseteq Ads /\ S \subseteq Ads
           Fine(done, t) ==
             /\ Limbo(s, t, r)
             /\ Roomy => Room(t) /\ DOMAIN t.active = DOMAIN s.active \cup done
           after == Tracking!Loop(0, s, S)
<1>1. PICK R : /\ <<{}, s>> \in R
               /\ \A V : /\ <<{}, s>> \in V
                         /\ \A done, acc, x :
                               /\ <<done, acc>> \in V /\ done \subseteq S /\ x \in S \ done
                               /\ <<done \cup {x}, TrackLimboChange(acc, x)>> \in R
                               => <<done \cup {x}, TrackLimboChange(acc, x)>> \in V
                         => <<S, after>> \in V
  BY TrackKeep
<1> HIDE DEF after
<1> DEFINE V == {v \in R : Fine(v[1], v[2])}
<1>2. Fine({}, s)
  BY LimboSame
<1>3. \A done, acc, x : done \subseteq S /\ x \in S /\ Fine(done, acc)
                          => Fine(done \cup {x}, TrackLimboChange(acc, x))
  <2> SUFFICES ASSUME NEW done, NEW acc, NEW x, done \subseteq S, x \in S, Fine(done, acc)
               PROVE  Fine(done \cup {x}, TrackLimboChange(acc, x))
    OBVIOUS
  <2> DEFINE t == TrackLimboChange(acc, x)
  <2>1. Shape(acc) /\ Conn(acc, r) /\ Look(acc)
    BY DEF Limbo, Quiet
  <2>2. /\ Limbo(acc, t, r)
        /\ RoomEnough /\ Room(acc) /\ DOMAIN acc.active \subseteq Ads /\ x \in Ads
              => Room(t) /\ DOMAIN t.active = DOMAIN acc.active \cup {x}
    BY <2>1, TrackLimboChangeIs
  <2> HIDE DEF t
  <2>3. Limbo(s, t, r)
    BY <2>2, LimboThen
  <2>4. ASSUME Roomy PROVE Room(t) /\ DOMAIN t.active = DOMAIN s.active \cup (done \cup {x})
    <3>1. Room(acc) /\ DOMAIN acc.active = DOMAIN s.active \cup done
      BY <2>4
    <3>2. DOMAIN acc.active \subseteq Ads /\ x \in Ads /\ RoomEnough
      BY <2>4, <3>1
    <3> QED
      BY <2>2, <3>1, <3>2
  <2> QED
    BY <2>3, <2>4 DEF t
<1> HIDE DEF Fine
<1>4. <<S, after>> \in V
  BY <1>1, <1>2, <1>3
<1>5. Fine(S, after)
  BY <1>4
<1> QED
  BY <1>5, TrackLoop DEF Fine, after

-----------------------------------------------------------------------------
(* Between two handlers                                                     *)

\* The view and the target of the query are there while it has listeners.
Served(s) == /\ s.view # NoView <=> s.listeners # <<>>
             /\ Query \in DOMAIN s.listen <=> s.listeners # <<>>
Good(s, r) == Shape(s) /\ Conn(s, r) /\ Look(s) /\ Served(s)

\* Every lookup is of a document the view has in limbo.
InLimbo(s) == IF s.view = NoView THEN {} ELSE s.view.limbo
Roomy(s) == Room(s) /\ DOMAIN s.active \subseteq InLimbo(s)

OrdKept(s, t) == \A k, A : Ord(s, k, A) /\ Ready(s) => Ord(t, k, A) /\ Ready(t)
RoomKept(s, t) == RoomEnough /\ Roomy(s) => Roomy(t)
Handled(s, t, r) == Good(t, r) /\ OrdKept(s, t) /\ RoomKept(s, t)

LEMMA HandledThen ==
    ASSUME NEW s, NEW t, NEW u, NEW r, Handled(s, t, r), Handled(t, u, r)
    PROVE  Handled(s, u, r)
BY DEF Handled, OrdKept, RoomKept

\* What is handled by a step that leaves views and lookups alone.
LEMMA QuietHandled ==
    ASSUME NEW s, NEW r, Good(s, r), NEW q, NEW t, NEW F, Quiet(s, t, F), Conn(t, q),
           F \subseteq Fields \ {"listen", "enqueued", "active", "lookups", "listeners"}
    PROVE  Handled(s, t, q)
<1>1. /\ t.listen = s.listen /\ t.enqueued = s.enqueued /\ t.active = s.active
      /\ t.lookups = s.lookups /\ t.listeners = s.listeners
  BY DEF Quiet, Alters, Fields, Broadcast
<1>2. SameView(s.view, t.view) /\ Shape(t) /\ OrdKept(s, t)
  BY DEF Quiet, OrdKept
<1>3. Look(t) /\ Served(t)
  BY <1>1, <1>2 DEF Good, Look, Served, SameView
<1>4. RoomKept(s, t)
  BY <1>1, <1>2 DEF RoomKept, Roomy, Room, InLimbo, SameView
<1> QED
  BY <1>2, <1>3, <1>4 DEF Handled, Good

LEMMA LimboGood ==
    ASSUME NEW s, NEW r, Good(s, r), NEW t, Limbo(s, t, r)
    PROVE  Good(t, r) /\ OrdKept(s, t)
<1>1. t.listeners = s.listeners /\ SameView(s.view, t.view)
  BY DEF Limbo, Quiet, Alters, Fields, Broadcast, LimboF
<1> QED
  BY <1>1 DEF Good, Limbo, Served, SameView, Quiet, OrdKept

LEMMA EmitNewSnapshotsIs ==
    ASSUME NEW s, NEW r, Good(s, r), NEW changed, NEW tc
    PROVE  LET t == EmitNewSnapshots(s, changed, tc)
           IN /\ Handled(s, t, r) /\ Alters(s, t, LimboF \cup Broadcast)
              /\ s.view = NoView \/ tc = NoChange \/ tc.modified \subseteq s.view.synced \cup tc.added
                   => t.aborted = s.aborted
<1> DEFINE t == EmitNewSnapshots(s, changed, tc)
<1>1. CASE s.view = NoView
  <2>1. t = s
    BY <1>1 DEF EmitNewSnapshots
  <2> QED
    BY <2>1 DEF Handled, OrdKept, RoomKept, Alters, Good, Shape
<1>2. CASE s.view # NoView
  <2> DEFINE docs == ComputeDocumentChanges(s, changed)
             view == ApplyChanges(s.view, docs, tc)
             gone == s.view.limbo \ view.limbo
             new == view.limbo \ s.view.limbo
             a == RemoveLimboTargets(s, gone)
             b == TrackLimboChanges(a, new)
             cond == tc = NoChange \/ tc.modified \subseteq s.view.synced \cup tc.added
             c == Check(b, cond)
  <2>1. t = WithView(c, view)
    BY <1>2 DEF EmitNewSnapshots, UpdateTrackedLimboDocuments
  <2>2. Shape(s) /\ Conn(s, r) /\ Look(s) /\ Served(s)
    BY DEF Good
  <2>3. /\ DOMAIN view = ViewFields /\ view # NoView
        /\ view.limbo = LimboOf(view) \/ view.limbo = s.view.limbo
    <3> DEFINE old == s.view
               v == ApplyChanges(old, docs, tc)
    <3>1. DOMAIN old = ViewFields
      BY <1>2, <2>2 DEF Shape
    <3> HIDE DEF docs, old
    <3>2. /\ DOMAIN v = ViewFields /\ v # NoView
          /\ v.state \in {"Synced", "Local"}
          /\ v.docs = docs
          /\ v.synced = IF tc = NoChange THEN old.synced ELSE (old.synced \cup tc.added) \ tc.removed
          /\ v.current = IF tc = NoChange THEN old.current ELSE tc.current
          /\ v.limbo = IF v.current THEN LimboOf(v) ELSE old.limbo
      BY <3>1, ApplyChangesIs
    <3> QED
      BY <3>2 DEF old
  <2> HIDE DEF view, docs
  <2>4. view.limbo \subseteq Ads /\ s.view.limbo \subseteq Ads
    BY <1>2, <2>2, <2>3 DEF Look, LimboOf
  <2> DEFINE then == view.limbo
             before == s.view.limbo
  <2>5. gone = before \ then /\ new = then \ before
    OBVIOUS
  <2> HIDE DEF then, before
  <2> HIDE DEF gone, new
  <2>6. IsFiniteSet(gone) /\ IsFiniteSet(new) /\ new \subseteq Ads
    <3>1. gone \subseteq Ads /\ new \subseteq Ads
      BY <2>4 DEF gone, new
    <3> QED
      BY <3>1, FS_Subset, BoundsAssumption
  <2>7. /\ Limbo(s, a, r)
        /\ Room(s) => Room(a) /\ DOMAIN a.active = DOMAIN s.active \ gone
    BY <2>2, <2>6, RemoveLimboTargetsIs
  <2> HIDE DEF a
  <2>8. Shape(a) /\ Conn(a, r) /\ Look(a)
    BY <2>7 DEF Limbo, Quiet
  <2>9. /\ Limbo(a, b, r)
        /\ RoomEnough /\ Room(a) /\ DOMAIN a.active \subseteq Ads /\ new \subseteq Ads
              => Room(b) /\ DOMAIN b.active = DOMAIN a.active \cup new
    BY <2>6, <2>8, TrackLimboChangesIs
  <2> HIDE DEF b
  <2>10. Limbo(s, b, r)
    BY <2>7, <2>9, LimboThen
  <2>11. Good(b, r) /\ OrdKept(s, b) /\ b.aborted = s.aborted /\ SameView(s.view, b.view)
    BY <2>10, LimboGood DEF Limbo, Quiet
  <2> HIDE DEF cond
  <2>12. Shape(c) /\ Alters(b, c, {"aborted"}) /\ (cond => c = b)
    BY <2>11, CheckIs DEF Good
  <2> HIDE DEF c
  <2>13. /\ Conn(c, r) /\ c.enqueued = b.enqueued /\ c.active = b.active /\ c.lookups = b.lookups
         /\ c.listen = b.listen /\ c.listeners = b.listeners /\ c.view = b.view
         /\ c.mail = b.mail /\ c.raised = b.raised /\ c.online = b.online
    <3>1. Conn(b, r)
      BY <2>11 DEF Good
    <3>2. Conn(c, r)
      BY <2>12, <3>1, ConnSame
    <3> QED
      BY <2>12, <3>2 DEF Alters, Fields
  <2>14. OrdKept(b, c)
    BY <2>13 DEF OrdKept, Ord, Told, Ready, ShouldRaiseInitialEvent
  <2> HIDE DEF t
  <2>15. /\ Shape(t) /\ Alters(c, t, {"view", "mail", "raised"}) /\ t.view = view
         /\ \A k, A : Ord(c, k, A) =>
               /\ Ord(t, k, A)
               /\ (c.view # NoView /\ Ready(c)) \/ view.state # c.view.state => Ready(t)
    BY <2>1, <2>3, <2>12, WithViewIs
  <2>16. c.view # NoView
    BY <1>2, <2>11, <2>13 DEF SameView
  <2>17. OrdKept(s, t)
    BY <2>11, <2>14, <2>15, <2>16 DEF OrdKept
  <2>18. /\ Conn(t, r) /\ t.enqueued = c.enqueued /\ t.active = c.active /\ t.lookups = c.lookups
         /\ t.listen = c.listen /\ t.listeners = c.listeners /\ t.aborted = c.aborted
    <3>1. Conn(t, r)
      BY <2>13, <2>15, ConnSame
    <3> QED
      BY <2>15, <3>1 DEF Alters, Fields
  <2>19. Look(t) /\ Served(t)
    <3>1. Look(b) /\ Served(b)
      BY <2>11 DEF Good
    <3> QED
      BY <2>3, <2>4, <2>13, <2>15, <2>16, <2>18, <3>1 DEF Look, Served
  <2>20. RoomKept(s, t)
    <3> SUFFICES ASSUME RoomEnough, Roomy(s) PROVE Roomy(t)
      BY DEF RoomKept
    <3>1. Room(s) /\ DOMAIN s.active \subseteq before
      BY <1>2 DEF Roomy, InLimbo, before
    <3>2. Room(a) /\ DOMAIN a.active = DOMAIN s.active \ gone
      BY <2>7, <3>1
    <3>3. before \subseteq Ads /\ then \subseteq Ads
      BY <2>4 DEF before, then
    <3>4. DOMAIN a.active \subseteq Ads /\ DOMAIN a.active \subseteq then
      BY <2>5, <3>1, <3>2, <3>3
    <3>5. Room(b) /\ DOMAIN b.active = DOMAIN a.active \cup new
      BY <2>6, <2>9, <3>2, <3>4
    <3>6. DOMAIN b.active \subseteq then
      BY <2>5, <3>4, <3>5
    <3>7. InLimbo(t) = then
      BY <2>3, <2>15 DEF InLimbo, then
    <3> QED
      BY <2>13, <2>18, <3>5, <3>6, <3>7 DEF Roomy, Room
  <2>21. Alters(s, t, LimboF \cup Broadcast)
    BY <2>10, <2>12, <2>15 DEF Limbo, Quiet, Alters, Fields, Broadcast, LimboF
  <2>22. cond => t.aborted = s.aborted
    BY <2>11, <2>12, <2>18
  <2> QED
    BY <1>2, <2>15, <2>17, <2>18, <2>19, <2>20, <2>21, <2>22 DEF Handled, Good, cond, t
<1> QED
  BY <1>1, <1>2

-----------------------------------------------------------------------------
(* An event of the backend: lookups, cache, view                            *)

Receiving == INSTANCE FoldLemmas WITH
               Step <- LAMBDA changes, t, acc : ReceivedByLookup(acc, changes, t)

LEMMA ReceiveLoop ==
    ASSUME NEW s, NEW changes, NEW S
    PROVE  ReceivedByLookups(s, changes, S) = Receiving!Loop(changes, s, S)
BY DEF ReceivedByLookups, Receiving!Loop, FoldSet, MapThenFoldSet, Receiving!FoldSet,
       Receiving!MapThenFoldSet

LEMMA ReceiveKeep ==
    ASSUME NEW s, NEW changes, NEW S, IsFiniteSet(S)
    PROVE  \E R : /\ <<{}, s>> \in R
                  /\ \A V : /\ <<{}, s>> \in V
                            /\ \A done, acc, x :
                                  /\ <<done, acc>> \in V /\ done \subseteq S /\ x \in S \ done
                                  /\ <<done \cup {x}, ReceivedByLookup(acc, changes, x)>> \in R
                                  => <<done \cup {x}, ReceivedByLookup(acc, changes, x)>> \in V
                            => <<S, Receiving!Loop(changes, s, S)>> \in V
<1>1. \E n \in Nat : \E f \in [1..n -> S] : \A x \in S : \E i \in 1..n : f[i] = x
  BY CanBeListed
<1> QED
  BY <1>1, Receiving!LoopKeeps

\* The event has nothing of the document of a lookup that brought none.
NewsOk(s, changes, t) ==
  changes[t].modified \cup changes[t].removed # {} => s.lookups[t].received

LEMMA ReceivedByLookupIs ==
    ASSUME NEW s, Shape(s), NEW changes, NEW x \in DOMAIN s.lookups,
           DOMAIN s.lookups[x] = {"ad", "received"}
    PROVE  LET t == ReceivedByLookup(s, changes, x)
           IN /\ Shape(t) /\ Alters(s, t, {"aborted", "lookups"})
              /\ DOMAIN t.lookups = DOMAIN s.lookups
              /\ \A y \in DOMAIN s.lookups : y # x => t.lookups[y] = s.lookups[y]
              /\ t.lookups[x].ad = s.lookups[x].ad /\ DOMAIN t.lookups[x] = {"ad", "received"}
              /\ NewsOk(s, changes, x) => t.aborted = s.aborted
<1> DEFINE t == ReceivedByLookup(s, changes, x)
           tc == changes[x]
           cond == tc.modified \cup tc.removed # {} => s.lookups[x].received
           u == Check(s, cond)
<1>1. t = IF tc.added # {} THEN [u EXCEPT !.lookups[x].received = TRUE]
          ELSE IF tc.removed # {} /\ tc.modified = {} THEN [u EXCEPT !.lookups[x].received = FALSE]
          ELSE u
  BY DEF ReceivedByLookup
<1>2. NewsOk(s, changes, x) <=> cond
  BY DEF NewsOk
<1> HIDE DEF cond, tc, t
<1>3. Shape(u) /\ Alters(s, u, {"aborted"}) /\ (cond => u = s)
  BY CheckIs
<1> HIDE DEF u
<1>4. u.lookups = s.lookups
  BY <1>3 DEF Alters, Fields
<1>5. CASE t = u
  <2>1. Alters(s, t, {"aborted", "lookups"})
    BY <1>3, <1>5 DEF Alters
  <2> QED
    BY <1>2, <1>3, <1>4, <1>5, <2>1 DEF t
<1>6. CASE t # u
  <2>1. PICK b \in BOOLEAN : t = [u EXCEPT !.lookups[x].received = b]
    BY <1>1, <1>6
  <2>2. Shape(t) /\ Alters(u, t, {"lookups"})
    BY <1>3, <2>1 DEF Shape, Alters, Fields
  <2>3. t.lookups = [u.lookups EXCEPT ![x].received = b]
    BY <1>3, <2>1 DEF Shape, Fields
  <2> DEFINE l == s.lookups
  <2>4. DOMAIN t.lookups = DOMAIN l /\ \A y \in DOMAIN l : y # x => t.lookups[y] = l[y]
    BY <1>4, <2>3
  <2>5. t.lookups[x] = [l[x] EXCEPT !.received = b]
    BY <1>4, <2>3
  <2>6. t.lookups[x].ad = l[x].ad /\ DOMAIN t.lookups[x] = {"ad", "received"}
    BY <2>5
  <2>7. Alters(s, t, {"aborted", "lookups"})
    BY <1>3, <2>2 DEF Alters
  <2>8. t.aborted = u.aborted
    BY <2>2 DEF Alters, Fields
  <2> QED
    BY <1>2, <1>3, <2>2, <2>4, <2>6, <2>7, <2>8 DEF t
<1> QED
  BY <1>5, <1>6

LEMMA ReceivedByLookupsIs ==
    ASSUME NEW s, NEW r, Good(s, r), NEW changes, NEW S, S \subseteq DOMAIN s.lookups
    PROVE  LET t == ReceivedByLookups(s, changes, S)
           IN /\ Handled(s, t, r) /\ Alters(s, t, {"aborted", "lookups"})
              /\ DOMAIN t.lookups = DOMAIN s.lookups
              /\ \A y \in DOMAIN s.lookups : /\ t.lookups[y].ad = s.lookups[y].ad
                                             /\ y \notin S => t.lookups[y] = s.lookups[y]
              /\ (\A x \in S : NewsOk(s, changes, x)) => t.aborted = s.aborted
<1> DEFINE Ok == \A x \in S : NewsOk(s, changes, x)
           Fine(done, t) ==
             /\ Shape(t) /\ Alters(s, t, {"aborted", "lookups"})
             /\ DOMAIN t.lookups = DOMAIN s.lookups
             /\ \A y \in DOMAIN s.lookups :
                   /\ y \notin done => t.lookups[y] = s.lookups[y]
                   /\ t.lookups[y].ad = s.lookups[y].ad
                   /\ DOMAIN t.lookups[y] = {"ad", "received"}
             /\ Ok => t.aborted = s.aborted
           after == Receiving!Loop(changes, s, S)
<1>0. IsFiniteSet(S) /\ Shape(s) /\ Paired(s.active, s.lookups) /\ Look(s)
  <2>1. S \subseteq DOMAIN s.listen /\ IsFiniteSet(DOMAIN s.listen)
    BY DEF Good, Look, Conn
  <2>2. IsFiniteSet(S)
    BY <2>1, FS_Subset
  <2> QED
    BY <2>2 DEF Good, Look
<1>1. PICK R : /\ <<{}, s>> \in R
               /\ \A V : /\ <<{}, s>> \in V
                         /\ \A done, acc, x :
                               /\ <<done, acc>> \in V /\ done \subseteq S /\ x \in S \ done
                               /\ <<done \cup {x}, ReceivedByLookup(acc, changes, x)>> \in R
                               => <<done \cup {x}, ReceivedByLookup(acc, changes, x)>> \in V
                         => <<S, after>> \in V
  <2>1. IsFiniteSet(S)
    BY <1>0
  <2> QED
    BY <2>1, ReceiveKeep
<1> HIDE DEF after
<1> DEFINE V == {v \in R : Fine(v[1], v[2])}
<1>2. Fine({}, s)
  BY <1>0 DEF Alters, Shape, Paired
<1>3. \A done, acc, x : x \in S \ done /\ Fine(done, acc)
                          => Fine(done \cup {x}, ReceivedByLookup(acc, changes, x))
  <2> SUFFICES ASSUME NEW done, NEW acc, NEW x, x \in S \ done, Fine(done, acc)
               PROVE  Fine(done \cup {x}, ReceivedByLookup(acc, changes, x))
    OBVIOUS
  <2> DEFINE t == ReceivedByLookup(acc, changes, x)
  <2>1. /\ Shape(acc) /\ x \in DOMAIN acc.lookups
        /\ DOMAIN acc.lookups[x] = {"ad", "received"} /\ acc.lookups[x] = s.lookups[x]
    OBVIOUS
  <2>2. /\ Shape(t) /\ Alters(acc, t, {"aborted", "lookups"})
        /\ DOMAIN t.lookups = DOMAIN acc.lookups
        /\ \A y \in DOMAIN acc.lookups : y # x => t.lookups[y] = acc.lookups[y]
        /\ t.lookups[x].ad = acc.lookups[x].ad /\ DOMAIN t.lookups[x] = {"ad", "received"}
        /\ NewsOk(acc, changes, x) => t.aborted = acc.aborted
    BY <2>1, ReceivedByLookupIs
  <2> HIDE DEF t
  <2>3. Alters(s, t, {"aborted", "lookups"})
    BY <2>2 DEF Alters
  <2>4. ASSUME Ok PROVE t.aborted = s.aborted
    <3>1. NewsOk(acc, changes, x)
      BY <2>1, <2>4 DEF NewsOk
    <3> QED
      BY <2>2, <2>4, <3>1
  <2>5. ASSUME NEW y \in DOMAIN s.lookups
        PROVE  /\ y \notin done \cup {x} => t.lookups[y] = s.lookups[y]
               /\ t.lookups[y].ad = s.lookups[y].ad
               /\ DOMAIN t.lookups[y] = {"ad", "received"}
    <3>1. CASE y = x
      BY <2>1, <2>2, <3>1
    <3>2. CASE y # x
      BY <2>2, <3>2
    <3> QED
      BY <3>1, <3>2
  <2> HIDE DEF Ok
  <2> QED
    BY <2>2, <2>3, <2>4, <2>5 DEF t
<1> HIDE DEF Fine
<1>4. <<S, after>> \in V
  BY <1>1, <1>2, <1>3
<1>5. Fine(S, after)
  BY <1>4
<1>6. /\ Shape(after) /\ Alters(s, after, {"aborted", "lookups"})
      /\ DOMAIN after.lookups = DOMAIN s.lookups
      /\ \A y \in DOMAIN s.lookups : /\ after.lookups[y].ad = s.lookups[y].ad
                                     /\ y \notin S => after.lookups[y] = s.lookups[y]
                                     /\ DOMAIN after.lookups[y] = {"ad", "received"}
      /\ Ok => after.aborted = s.aborted
  BY <1>5 DEF Fine
<1>7. /\ after.enqueued = s.enqueued /\ after.active = s.active /\ after.listen = s.listen
      /\ after.listeners = s.listeners /\ after.view = s.view /\ after.mail = s.mail
      /\ after.raised = s.raised /\ after.online = s.online
  BY <1>6 DEF Alters, Fields
<1>8. Paired(after.active, after.lookups)
  BY <1>0, <1>6, <1>7 DEF Paired
<1>9. Matched(s.active, s.lookups) => Matched(after.active, after.lookups)
  BY <1>6, <1>7 DEF Matched
<1>10. Conn(after, r)
  BY <1>6, ConnSame DEF Good
<1>11. Good(after, r)
  BY <1>6, <1>7, <1>8, <1>10 DEF Good, Look, Served
<1>12. OrdKept(s, after)
  BY <1>7 DEF OrdKept, Ord, Told, Ready, ShouldRaiseInitialEvent
<1>13. RoomKept(s, after)
  BY <1>7, <1>9 DEF RoomKept, Roomy, Room, InLimbo
<1> QED
  BY <1>6, <1>11, <1>12, <1>13, ReceiveLoop DEF Handled, Ok, after

LEMMA LocalApplyRemoteEventIs ==
    ASSUME NEW s, NEW r, Good(s, r), NEW event
    PROVE  LET t == LocalApplyRemoteEvent(s, event)
           IN /\ Handled(s, t, r)
              /\ Alters(s, t, {"aborted", "remoteKeys", "token", "cache", "lastRemote"})
              /\ event.version = 0 \/ event.version >= s.lastRemote => t.aborted = s.aborted
<1> DEFINE F == {"aborted", "remoteKeys", "token", "cache", "lastRemote"}
           t == LocalApplyRemoteEvent(s, event)
           cond == event.version = 0 \/ event.version >= s.lastRemote
           u == Check(s, cond)
<1>0. Shape(s) /\ Conn(s, r)
  BY DEF Good
<1>1. \E keys, token, cache, last :
         t = [u EXCEPT !.remoteKeys = keys, !.token = token, !.cache = cache, !.lastRemote = last]
  BY DEF LocalApplyRemoteEvent
<1> HIDE DEF t, cond
<1>2. Shape(u) /\ Alters(s, u, {"aborted"}) /\ (cond => u = s)
  BY <1>0, CheckIs
<1> HIDE DEF u
<1>3. /\ Shape(t) /\ Alters(u, t, {"remoteKeys", "token", "cache", "lastRemote"})
      /\ t.aborted = u.aborted
  BY <1>1, <1>2 DEF Shape, Alters, Fields
<1>4. Alters(s, t, F)
  BY <1>2, <1>3 DEF Alters
<1>5. Quiet(s, t, F)
  BY <1>0, <1>3, <1>4, QuietFrame
<1>6. Conn(t, r)
  BY <1>0, <1>4, ConnSame
<1>7. F \subseteq Fields \ {"listen", "enqueued", "active", "lookups", "listeners"}
  BY DEF Fields
<1> HIDE DEF F
<1>8. Handled(s, t, r)
  BY <1>5, <1>6, <1>7, QuietHandled
<1> QED
  BY <1>2, <1>3, <1>4, <1>8 DEF t, cond, F

EventF == LimboF \cup Broadcast \cup {"remoteKeys", "token", "cache", "lastRemote"}

\* What an event has to be for the assertions on its way to hold.
VersionOk(s, event) == event.version = 0 \/ event.version >= s.lastRemote
LookupsOk(s, event) ==
  \A x \in DOMAIN event.changes \cap DOMAIN s.lookups : NewsOk(s, event.changes, x)
QueryOk(s, event) ==
  s.view # NoView /\ Query \in DOMAIN event.changes =>
     event.changes[Query].modified \subseteq s.view.synced \cup event.changes[Query].added

LEMMA ApplyRemoteEventIs ==
    ASSUME NEW s, NEW r, Good(s, r), NEW event
    PROVE  LET t == ApplyRemoteEvent(s, event)
           IN /\ Handled(s, t, r) /\ Alters(s, t, EventF)
              /\ VersionOk(s, event) /\ LookupsOk(s, event) /\ QueryOk(s, event)
                    => t.aborted = s.aborted
<1> DEFINE changes == event.changes
           S == DOMAIN changes \cap DOMAIN s.lookups
           a == ReceivedByLookups(s, changes, S)
           b == LocalApplyRemoteEvent(a, event)
           tc == IF Query \in DOMAIN changes THEN changes[Query] ELSE NoChange
           docs == ChangedDocs(s, event)
           t == EmitNewSnapshots(b, docs, tc)
<1>1. ApplyRemoteEvent(s, event) = t
  BY DEF ApplyRemoteEvent
<1> HIDE DEF changes, docs, tc
<1>2. /\ Handled(s, a, r) /\ Alters(s, a, {"aborted", "lookups"})
      /\ (\A x \in S : NewsOk(s, changes, x)) => a.aborted = s.aborted
  BY ReceivedByLookupsIs
<1> HIDE DEF S, a
<1>3. /\ Handled(a, b, r)
      /\ Alters(a, b, {"aborted", "remoteKeys", "token", "cache", "lastRemote"})
      /\ event.version = 0 \/ event.version >= a.lastRemote => b.aborted = a.aborted
  BY <1>2, LocalApplyRemoteEventIs DEF Handled
<1> HIDE DEF b
<1>4. /\ Handled(b, t, r) /\ Alters(b, t, LimboF \cup Broadcast)
      /\ b.view = NoView \/ tc = NoChange \/ tc.modified \subseteq b.view.synced \cup tc.added
           => t.aborted = b.aborted
  <2>1. Good(b, r)
    BY <1>3 DEF Handled
  <2> QED
    BY <2>1, EmitNewSnapshotsIs
<1> HIDE DEF t
<1>5. Handled(s, t, r)
  BY <1>2, <1>3, <1>4, HandledThen
<1>6. Alters(s, t, EventF)
  BY <1>2, <1>3, <1>4 DEF Alters, EventF, LimboF, Broadcast, Fields
<1>7. a.lastRemote = s.lastRemote /\ b.view = s.view
  BY <1>2, <1>3 DEF Alters, Fields
<1>8. ASSUME VersionOk(s, event), LookupsOk(s, event), QueryOk(s, event)
      PROVE  t.aborted = s.aborted
  <2>1. a.aborted = s.aborted
    BY <1>2, <1>8 DEF LookupsOk, S, changes
  <2>2. b.aborted = a.aborted
    BY <1>3, <1>7, <1>8 DEF VersionOk
  <2>3. b.view = NoView \/ tc = NoChange \/ tc.modified \subseteq b.view.synced \cup tc.added
    BY <1>7, <1>8 DEF QueryOk, tc, changes
  <2> QED
    BY <1>4, <2>1, <2>2, <2>3
<1> QED
  BY <1>1, <1>5, <1>6, <1>8

\* The query is given up, with the lookups of its view.
LEMMA RemoveAndCleanupTargetIs ==
    ASSUME NEW s, NEW r, Shape(s), Conn(s, r), Look(s), s.view = NoView, s.listeners = <<>>,
           Query \notin DOMAIN s.listen, NEW limbo, limbo \subseteq Ads
    PROVE  LET t == RemoveAndCleanupTarget(s, limbo)
           IN /\ Good(t, r) /\ OrdKept(s, t) /\ t.aborted = s.aborted /\ Limbo(s, t, r)
              /\ Room(s) /\ DOMAIN s.active \subseteq limbo => Roomy(t)
<1> DEFINE t == RemoveAndCleanupTarget(s, limbo)
<1>1. IsFiniteSet(limbo)
  BY FS_Subset, BoundsAssumption
<1>2. /\ Limbo(s, t, r)
      /\ Room(s) => Room(t) /\ DOMAIN t.active = DOMAIN s.active \ limbo
  BY <1>1, RemoveLimboTargetsIs DEF RemoveAndCleanupTarget
<1> HIDE DEF t
<1>3. Good(s, r)
  BY DEF Good, Served
<1>4. Good(t, r) /\ OrdKept(s, t)
  BY <1>2, <1>3, LimboGood
<1>5. Room(s) /\ DOMAIN s.active \subseteq limbo => Roomy(t)
  BY <1>2 DEF Roomy
<1> QED
  BY <1>2, <1>4, <1>5 DEF Limbo, t

\* What the rejection of a target takes away before anybody is told.
Rejected(s, x) == [s EXCEPT !.listen = Drop(@, x), !.agg.states = Drop(@, x)]

LEMMA RejectedIs ==
    ASSUME NEW s, NEW r, Shape(s), Conn(s, r), s.stream = "Open", NEW x
    PROVE  LET u == Rejected(s, x)
           IN /\ Shape(u) /\ Alters(s, u, {"listen", "agg"}) /\ Conn(u, r)
              /\ u.listen = Drop(s.listen, x) /\ u.agg.states = Drop(s.agg.states, x)
              /\ u.agg.docs = s.agg.docs /\ u.agg.resets = s.agg.resets
              /\ DOMAIN u.listen = DOMAIN s.listen \ {x}
<1> DEFINE u == Rejected(s, x)
<1>1. /\ Shape(u) /\ Alters(s, u, {"listen", "agg"})
      /\ u.listen = Drop(s.listen, x) /\ u.agg.states = Drop(s.agg.states, x)
      /\ u.agg.docs = s.agg.docs /\ u.agg.resets = s.agg.resets
  BY DEF Rejected, Shape, Alters, Fields
<1> HIDE DEF u
<1>2. /\ u.up = s.up /\ u.down = s.down /\ u.network = s.network
      /\ u.failed = s.failed /\ u.timer = s.timer /\ u.online = s.online /\ u.idle = s.idle
      /\ u.stream = s.stream
  BY <1>1 DEF Alters, Fields
<1>3. /\ DOMAIN u.listen = DOMAIN s.listen \ {x}
      /\ DOMAIN u.agg.states = DOMAIN s.agg.states \ {x}
  BY <1>1, DropIs
<1>4. IsFiniteSet(DOMAIN u.listen) /\ IsFiniteSet(DOMAIN u.agg.states)
  BY <1>3, FS_RemoveElement DEF Conn
<1>5. Conn(u, r)
  BY <1>1, <1>2, <1>3, <1>4 DEF Conn, IsStarted
<1> QED
  BY <1>1, <1>3, <1>5 DEF u

LEMMA ProcessTargetErrorIs ==
    ASSUME NEW s, NEW r, Good(s, r), s.stream = "Open", NEW x
    PROVE  LET t == ProcessTargetError(s, x)
           IN Handled(s, t, r) /\ t.aborted = s.aborted
<1> DEFINE t == ProcessTargetError(s, x)
           u == Rejected(s, x)
<1>0. Shape(s) /\ Conn(s, r) /\ Look(s) /\ Served(s)
  BY DEF Good
<1>1. CASE x \notin DOMAIN s.listen
  <2>1. t = s
    BY <1>1 DEF ProcessTargetError
  <2> QED
    BY <2>1 DEF Handled, OrdKept, RoomKept
<1>2. CASE x \in DOMAIN s.listen
  <2>1. t = HandleRejectedListen(u, x)
    BY <1>2 DEF ProcessTargetError, Rejected
  <2>2. /\ Shape(u) /\ Alters(s, u, {"listen", "agg"}) /\ Conn(u, r)
        /\ DOMAIN u.listen = DOMAIN s.listen \ {x}
    BY <1>0, RejectedIs
  <2> HIDE DEF u, t
  <2>3. /\ u.enqueued = s.enqueued /\ u.active = s.active /\ u.lookups = s.lookups
        /\ u.listeners = s.listeners /\ u.view = s.view /\ u.mail = s.mail
        /\ u.raised = s.raised /\ u.online = s.online /\ u.aborted = s.aborted
    BY <2>2 DEF Alters, Fields
  <2>4. OrdKept(s, u)
    BY <2>3 DEF OrdKept, Ord, Told, Ready, ShouldRaiseInitialEvent
  <2>5. CASE x \in DOMAIN s.lookups
    <3> DEFINE a == Unpaired(u, x)
               b == PumpEnqueuedLimboResolutions(a)
               d == u.lookups[x].ad
               docs == Put(NoStates, d, [at |-> 0, data |-> Gone])
               event == [version |-> 0, changes |-> NoStates, resets |-> {}, docs |-> docs]
    <3>1. t = ApplyRemoteEvent(b, event)
      BY <2>1, <2>3, <2>5 DEF HandleRejectedListen, Unpaired
    <3>2. /\ Shape(a) /\ Alters(u, a, {"active", "lookups"}) /\ Conn(a, r) /\ Look(a)
          /\ DOMAIN a.active = DOMAIN u.active \ {u.lookups[x].ad}
          /\ Matched(u.active, u.lookups) => Matched(a.active, a.lookups)
      <4>1. /\ IsSeq(u.enqueued) /\ Paired(u.active, u.lookups)
            /\ Query \notin DOMAIN u.lookups /\ x \in DOMAIN u.lookups
            /\ DOMAIN u.listen \ {Query} = DOMAIN u.lookups \ {x}
            /\ u.view # NoView => u.view.limbo \subseteq Ads
        BY <1>0, <2>2, <2>3, <2>5 DEF Look
      <4> HIDE DEF a
      <4> QED
        BY <2>2, <4>1, UnpairedIs DEF a
    <3> HIDE DEF a
    <3>3. /\ a.listen = u.listen /\ a.enqueued = u.enqueued /\ a.listeners = u.listeners
          /\ a.view = u.view /\ a.mail = u.mail /\ a.raised = u.raised /\ a.online = u.online
          /\ a.aborted = u.aborted
      BY <3>2 DEF Alters, Fields
    <3>4. OrdKept(s, a)
      <4>1. OrdKept(u, a)
        BY <3>3 DEF OrdKept, Ord, Told, Ready, ShouldRaiseInitialEvent
      <4> QED
        BY <2>4, <4>1 DEF OrdKept
    <3>5. Good(a, r)
      BY <1>0, <2>2, <2>3, <2>5, <3>2, <3>3 DEF Good, Served, Look
    <3>6. Limbo(a, b, r) /\ (a.enqueued = <<>> => b = a)
      BY <3>2, PumpIs
    <3> HIDE DEF b
    <3>7. Good(b, r) /\ OrdKept(a, b) /\ b.aborted = a.aborted
      BY <3>5, <3>6, LimboGood DEF Limbo
    <3>8. RoomKept(s, b)
      <4> SUFFICES ASSUME Roomy(s) PROVE Roomy(b)
        BY DEF RoomKept
      <4>1. b = a /\ Room(a) /\ DOMAIN a.active \subseteq DOMAIN s.active
        BY <2>3, <3>2, <3>3, <3>6 DEF Roomy, Room
      <4>2. InLimbo(a) = InLimbo(s)
        BY <2>3, <3>3 DEF InLimbo
      <4> QED
        BY <4>1, <4>2 DEF Roomy
    <3>9. Handled(s, b, r)
      BY <3>4, <3>7, <3>8 DEF Handled, OrdKept
    <3> HIDE DEF d, docs
    <3>10. event.version = 0 /\ DOMAIN event.changes = {}
      BY NoStatesIs
    <3> HIDE DEF event
    <3>11. VersionOk(b, event) /\ LookupsOk(b, event) /\ QueryOk(b, event)
      BY <3>10 DEF VersionOk, LookupsOk, QueryOk
    <3>12. Handled(b, t, r) /\ t.aborted = b.aborted
      BY <3>1, <3>7, <3>11, ApplyRemoteEventIs
    <3>13. Handled(s, t, r)
      BY <3>9, <3>12, HandledThen
    <3> QED
      BY <2>3, <3>3, <3>7, <3>12, <3>13 DEF t
  <2>6. CASE x \notin DOMAIN s.lookups
    <3> DEFINE e == OnError(u)
               n == [e EXCEPT !.view = NoView]
               limbo == s.view.limbo
    <3>1. x = Query /\ s.view # NoView /\ limbo \subseteq Ads
      BY <1>0, <1>2, <2>6 DEF Look, Served
    <3>2. t = RemoveAndCleanupTarget(n, limbo)
      BY <2>1, <2>3, <2>6 DEF HandleRejectedListen
    <3>3. /\ Shape(e) /\ Alters(u, e, {"mail", "raised", "listeners"})
          /\ e.listeners = <<>> /\ e.raised = {}
          /\ \A k, A : Ord(u, k, A) => Ord(e, k, A)
      <4>1. Shape(e)
        BY <2>2, OnErrorIs
      <4> QED
        BY <2>2, <4>1, OnErrorIs
    <3> HIDE DEF e
    <3>4. Shape(n) /\ Alters(e, n, {"view"}) /\ n.view = NoView
      BY <3>3 DEF Shape, Alters, Fields
    <3> HIDE DEF n, limbo
    <3>5. /\ n.listeners = e.listeners /\ n.raised = e.raised /\ n.mail = e.mail
          /\ n.listen = e.listen /\ n.enqueued = e.enqueued /\ n.active = e.active
          /\ n.lookups = e.lookups /\ n.aborted = e.aborted
      BY <3>4 DEF Alters, Fields
    <3>6. /\ e.listen = u.listen /\ e.enqueued = u.enqueued /\ e.active = u.active
          /\ e.lookups = u.lookups /\ e.aborted = u.aborted
      BY <3>3 DEF Alters, Fields
    <3>7. Conn(n, r)
      <4>1. Conn(e, r)
        BY <2>2, <3>3, ConnSame
      <4> QED
        BY <3>4, <4>1, ConnSame
    <3>8. Look(n) /\ Query \notin DOMAIN n.listen
      BY <1>0, <2>2, <2>3, <3>1, <3>4, <3>5, <3>6 DEF Look
    <3>9. OrdKept(s, n)
      <4>1. ASSUME NEW k, NEW A, Ord(e, k, A) PROVE Ord(n, k, A)
        <5>1. \A c : Told(e, c, A) <=> Told(n, c, A)
          BY <3>5 DEF Told
        <5> QED
          BY <3>5, <4>1, <5>1 DEF Ord
      <4>2. Ready(n)
        BY <3>4 DEF Ready
      <4> QED
        BY <2>4, <3>3, <4>1, <4>2 DEF OrdKept
    <3>10. /\ Good(t, r) /\ OrdKept(n, t) /\ t.aborted = n.aborted
           /\ Room(n) /\ DOMAIN n.active \subseteq limbo => Roomy(t)
      BY <3>1, <3>2, <3>3, <3>4, <3>5, <3>7, <3>8, RemoveAndCleanupTargetIs
    <3>11. RoomKept(s, t)
      BY <2>3, <3>1, <3>5, <3>6, <3>10 DEF RoomKept, Roomy, Room, InLimbo, limbo
    <3> QED
      BY <2>3, <3>5, <3>6, <3>9, <3>10, <3>11 DEF Handled, OrdKept, t
  <2> QED
    BY <2>5, <2>6
<1> QED
  BY <1>1, <1>2

-----------------------------------------------------------------------------
(* WatchChangeAggregator                                                    *)

\* What a message about a target changes is in the aggregator.
AggStep(s, t) ==
  /\ Shape(t) /\ Alters(s, t, {"agg", "aborted"})
  /\ IsFiniteSet(DOMAIN s.agg.states) => IsFiniteSet(DOMAIN t.agg.states)
  /\ s.agg.resets \subseteq {Query} => t.agg.resets \subseteq {Query}

LEMMA AggSame == ASSUME NEW s, Shape(s) PROVE AggStep(s, s)
BY DEF AggStep, Shape, Alters

LEMMA AggThen ==
    ASSUME NEW s, NEW t, NEW u, AggStep(s, t), AggStep(t, u)
    PROVE  AggStep(s, u)
BY DEF AggStep, Alters

LEMMA AggHandled ==
    ASSUME NEW s, NEW r, Good(s, r), s.stream = "Open", NEW t, AggStep(s, t)
    PROVE  Handled(s, t, r)
<1> DEFINE F == {"agg", "aborted"}
<1>1. Shape(s) /\ Conn(s, r) /\ Shape(t) /\ Alters(s, t, F)
  BY DEF Good, AggStep
<1>2. /\ t.up = s.up /\ t.down = s.down /\ t.network = s.network /\ t.listen = s.listen
      /\ t.failed = s.failed /\ t.timer = s.timer /\ t.online = s.online /\ t.idle = s.idle
      /\ t.stream = s.stream
  BY <1>1 DEF Alters, Fields
<1>3. Conn(t, r)
  BY <1>1, <1>2 DEF Conn, IsStarted, AggStep
<1>4. Quiet(s, t, F)
  BY <1>1, QuietFrame
<1>5. F \subseteq Fields \ {"listen", "enqueued", "active", "lookups", "listeners"}
  BY DEF Fields
<1> HIDE DEF F
<1> QED
  BY <1>3, <1>4, <1>5, QuietHandled

\* The aggregator after a change to the state of one target.
IsSet(s, t, x, state) ==
  /\ Shape(t) /\ Alters(s, t, {"agg"})
  /\ t.agg.states = Put(s.agg.states, x, state)
  /\ t.agg.docs = s.agg.docs /\ t.agg.resets = s.agg.resets

LEMMA SetTargetStateIs ==
    ASSUME NEW s, Shape(s), NEW x, NEW state
    PROVE  IsSet(s, SetTargetState(s, x, state), x, state)
BY DEF IsSet, SetTargetState, Shape, Alters, Fields

LEMMA SetAgg ==
    ASSUME NEW s, NEW t, NEW x, NEW state, IsSet(s, t, x, state)
    PROVE  AggStep(s, t) /\ t.aborted = s.aborted
<1> DEFINE old == s.agg.states
           all == t.agg.states
<1>1. all = Put(old, x, state)
  BY DEF IsSet
<1> HIDE DEF old, all
<1>2. IsFiniteSet(DOMAIN old) => IsFiniteSet(DOMAIN all)
  <2>1. DOMAIN all = DOMAIN old \cup {x}
    BY <1>1 DEF Put
  <2> DEFINE S == DOMAIN old
             T == DOMAIN all
  <2>2. T = S \cup {x}
    BY <2>1
  <2> HIDE DEF S, T
  <2>3. IsFiniteSet(S) => IsFiniteSet(T)
    BY <2>2, FS_AddElement
  <2> QED
    BY <2>3 DEF S, T
<1>3. Alters(s, t, {"agg", "aborted"}) /\ t.aborted = s.aborted
  BY DEF IsSet, Alters, Fields
<1> QED
  BY <1>2, <1>3 DEF AggStep, IsSet, old, all

LEMMA SetTargetStateAgg ==
    ASSUME NEW s, Shape(s), NEW x, NEW state
    PROVE  LET t == SetTargetState(s, x, state)
           IN AggStep(s, t) /\ Shape(t) /\ t.aborted = s.aborted
<1> DEFINE t == SetTargetState(s, x, state)
<1>1. IsSet(s, t, x, state)
  BY SetTargetStateIs
<1> HIDE DEF t
<1>2. AggStep(s, t) /\ t.aborted = s.aborted
  BY <1>1, SetAgg
<1> QED
  BY <1>2 DEF AggStep, t

LEMMA DocsAgg ==
    ASSUME NEW s, Shape(s), NEW docs
    PROVE  LET t == [s EXCEPT !.agg.docs = docs] IN AggStep(s, t) /\ t.aborted = s.aborted
BY DEF AggStep, Shape, Alters, Fields

LEMMA AddDocumentToTargetIs ==
    ASSUME NEW s, Shape(s), NEW x, NEW d, NEW doc
    PROVE  LET t == AddDocumentToTarget(s, x, d, doc)
           IN AggStep(s, t) /\ t.aborted = s.aborted
<1> DEFINE type == IF d \in GetRemoteKeys(s, x) THEN "modified" ELSE "added"
           u == SetTargetState(s, x, [TargetState(s, x) EXCEPT !.changes[d] = type])
           w == [u EXCEPT !.agg.docs = Put(@, d, doc)]
           t == AddDocumentToTarget(s, x, d, doc)
<1>1. t = IF ~IsActiveTarget(s, x) THEN s ELSE w
  BY DEF AddDocumentToTarget
<1>2. AggStep(s, u) /\ Shape(u) /\ u.aborted = s.aborted
  BY SetTargetStateAgg
<1> HIDE DEF u, t
<1> DEFINE docs == Put(u.agg.docs, d, doc)
<1>3. w = [u EXCEPT !.agg.docs = docs]
  BY <1>2 DEF Shape, Fields
<1> HIDE DEF docs, w
<1>4. AggStep(u, w) /\ w.aborted = u.aborted
  BY <1>2, <1>3, DocsAgg
<1>5. AggStep(s, w) /\ w.aborted = s.aborted
  BY <1>2, <1>4, AggThen
<1> QED
  BY <1>1, <1>5, AggSame DEF t

LEMMA RemoveDocumentFromTargetIs ==
    ASSUME NEW s, Shape(s), NEW x, NEW d, NEW doc
    PROVE  LET t == RemoveDocumentFromTarget(s, x, d, doc)
           IN AggStep(s, t) /\ t.aborted = s.aborted
<1> DEFINE type == IF d \in GetRemoteKeys(s, x) THEN "removed" ELSE "none"
           u == SetTargetState(s, x, [TargetState(s, x) EXCEPT !.changes[d] = type])
           w == [u EXCEPT !.agg.docs = Put(@, d, doc)]
           t == RemoveDocumentFromTarget(s, x, d, doc)
<1>1. t = IF ~IsActiveTarget(s, x) THEN s ELSE IF doc = NoChange THEN u ELSE w
  BY DEF RemoveDocumentFromTarget
<1>2. AggStep(s, u) /\ Shape(u) /\ u.aborted = s.aborted
  BY SetTargetStateAgg
<1> HIDE DEF u, t
<1> DEFINE docs == Put(u.agg.docs, d, doc)
<1>3. w = [u EXCEPT !.agg.docs = docs]
  BY <1>2 DEF Shape, Fields
<1> HIDE DEF docs, w
<1>4. AggStep(u, w) /\ w.aborted = u.aborted
  BY <1>2, <1>3, DocsAgg
<1>5. AggStep(s, w) /\ w.aborted = s.aborted
  BY <1>2, <1>4, AggThen
<1> QED
  BY <1>1, <1>2, <1>5, AggSame DEF t

LEMMA HandleDocumentChangeIs ==
    ASSUME NEW s, Shape(s), NEW x, NEW d, NEW doc
    PROVE  LET t == HandleDocumentChange(s, x, d, doc)
           IN AggStep(s, t) /\ t.aborted = s.aborted
BY AddDocumentToTargetIs, RemoveDocumentFromTargetIs DEF HandleDocumentChange

Handling == INSTANCE FoldLemmas WITH
              Step <- LAMBDA p, d, acc : HandleDocumentChange(acc, p[1], d, p[2][d])
Synthesizing == INSTANCE FoldLemmas WITH
              Step <- LAMBDA version, t, acc : SynthesizeDelete(acc, t, version)

LEMMA HandleLoop ==
    ASSUME NEW s, NEW t, NEW docs
    PROVE  HandleDocumentChanges(s, t, docs) = Handling!Loop(<<t, docs>>, s, DOMAIN docs)
BY DEF HandleDocumentChanges, Handling!Loop, FoldSet, MapThenFoldSet, Handling!FoldSet,
       Handling!MapThenFoldSet

DocOf(p, acc, d) == HandleDocumentChange(acc, p[1], d, p[2][d])
LEMMA HandleKeep ==
    ASSUME NEW s, NEW p, NEW S, IsFiniteSet(S)
    PROVE  \E R : /\ <<{}, s>> \in R
                  /\ \A V : /\ <<{}, s>> \in V
                            /\ \A done, acc, x :
                                  /\ <<done, acc>> \in V /\ done \subseteq S /\ x \in S \ done
                                  /\ <<done \cup {x}, DocOf(p, acc, x)>> \in R
                                  => <<done \cup {x}, DocOf(p, acc, x)>> \in V
                            => <<S, Handling!Loop(p, s, S)>> \in V
<1>1. \E n \in Nat : \E f \in [1..n -> S] : \A x \in S : \E i \in 1..n : f[i] = x
  BY CanBeListed
<1> QED
  BY <1>1, Handling!LoopKeeps DEF DocOf

LEMMA SynthesizeLoop ==
    ASSUME NEW s, NEW v
    PROVE  PrepareRemoteEvent(s, v) = Synthesizing!Loop(v, s, ActiveStates(s))
BY DEF PrepareRemoteEvent, Synthesizing!Loop, FoldSet, MapThenFoldSet, Synthesizing!FoldSet,
       Synthesizing!MapThenFoldSet

LEMMA SynthesizeKeep ==
    ASSUME NEW s, NEW v, NEW S, IsFiniteSet(S)
    PROVE  \E R : /\ <<{}, s>> \in R
                  /\ \A V : /\ <<{}, s>> \in V
                            /\ \A done, acc, x :
                                  /\ <<done, acc>> \in V /\ done \subseteq S /\ x \in S \ done
                                  /\ <<done \cup {x}, SynthesizeDelete(acc, x, v)>> \in R
                                  => <<done \cup {x}, SynthesizeDelete(acc, x, v)>> \in V
                            => <<S, Synthesizing!Loop(v, s, S)>> \in V
<1>1. \E n \in Nat : \E f \in [1..n -> S] : \A x \in S : \E i \in 1..n : f[i] = x
  BY CanBeListed
<1> QED
  BY <1>1, Synthesizing!LoopKeeps

LEMMA HandleDocumentChangesIs ==
    ASSUME NEW s, Shape(s), NEW x, NEW docs, IsFiniteSet(DOMAIN docs)
    PROVE  LET t == HandleDocumentChanges(s, x, docs)
           IN AggStep(s, t) /\ t.aborted = s.aborted
<1> DEFINE Fine(t) == AggStep(s, t) /\ t.aborted = s.aborted
           S == DOMAIN docs
           p == <<x, docs>>
           after == Handling!Loop(p, s, S)
<1>0. HandleDocumentChanges(s, x, docs) = after
  BY HandleLoop
<1> HIDE DEF S, p
<1>a. IsFiniteSet(S)
  BY DEF S
<1>1. PICK R : /\ <<{}, s>> \in R
               /\ \A V : /\ <<{}, s>> \in V
                         /\ \A done, acc, y :
                               /\ <<done, acc>> \in V /\ done \subseteq S /\ y \in S \ done
                               /\ <<done \cup {y}, DocOf(p, acc, y)>> \in R
                               => <<done \cup {y}, DocOf(p, acc, y)>> \in V
                         => <<S, after>> \in V
  BY <1>a, HandleKeep
<1> HIDE DEF after
<1> DEFINE V == {v \in R : Fine(v[2])}
<1>2. Fine(s)
  BY AggSame
<1>3. \A acc, y : Fine(acc) => Fine(DocOf(p, acc, y))
  <2> SUFFICES ASSUME NEW acc, NEW y, Fine(acc) PROVE Fine(DocOf(p, acc, y))
    OBVIOUS
  <2> DEFINE t == DocOf(p, acc, y)
             c == p[1]
             doc == p[2][y]
  <2>1. Shape(acc) /\ t = HandleDocumentChange(acc, c, y, doc)
    BY DEF AggStep, DocOf
  <2> HIDE DEF t, c, doc
  <2>2. AggStep(acc, t) /\ t.aborted = acc.aborted
    BY <2>1, HandleDocumentChangeIs
  <2>3. AggStep(s, t)
    BY <2>2, AggThen
  <2> QED
    BY <2>2, <2>3 DEF t
<1> HIDE DEF Fine
<1>4. <<S, after>> \in V
  BY <1>1, <1>2, <1>3
<1>5. Fine(after)
  BY <1>4
<1> QED
  BY <1>0, <1>5 DEF Fine

LEMMA SynthesizeDeleteIs ==
    ASSUME NEW s, Shape(s), NEW x, NEW version
    PROVE  LET t == SynthesizeDelete(s, x, version)
           IN AggStep(s, t) /\ t.aborted = s.aborted
<1> DEFINE t == SynthesizeDelete(s, x, version)
           d == s.listen[x].ad
           doc == [at |-> version, data |-> Gone]
           u == RemoveDocumentFromTarget(s, x, d, doc)
<1>1. t = s \/ t = u
  BY DEF SynthesizeDelete
<1> HIDE DEF t, d, doc
<1>2. AggStep(s, u) /\ u.aborted = s.aborted
  BY RemoveDocumentFromTargetIs
<1> QED
  BY <1>1, <1>2, AggSame DEF t

LEMMA PrepareRemoteEventIs ==
    ASSUME NEW s, Shape(s), NEW v, IsFiniteSet(DOMAIN s.agg.states)
    PROVE  LET t == PrepareRemoteEvent(s, v)
           IN AggStep(s, t) /\ t.aborted = s.aborted
<1> DEFINE Fine(t) == AggStep(s, t) /\ t.aborted = s.aborted
           S == ActiveStates(s)
           after == Synthesizing!Loop(v, s, S)
<1>0. PrepareRemoteEvent(s, v) = after
  BY SynthesizeLoop
<1>a. IsFiniteSet(S)
  <2>1. S \subseteq DOMAIN s.agg.states
    BY DEF ActiveStates
  <2> QED
    BY <2>1, FS_Subset
<1> HIDE DEF S
<1>1. PICK R : /\ <<{}, s>> \in R
               /\ \A V : /\ <<{}, s>> \in V
                         /\ \A done, acc, y :
                               /\ <<done, acc>> \in V /\ done \subseteq S /\ y \in S \ done
                               /\ <<done \cup {y}, SynthesizeDelete(acc, y, v)>> \in R
                               => <<done \cup {y}, SynthesizeDelete(acc, y, v)>> \in V
                         => <<S, after>> \in V
  BY <1>a, SynthesizeKeep
<1> HIDE DEF after
<1> DEFINE V == {w \in R : Fine(w[2])}
<1>2. Fine(s)
  BY AggSame
<1>3. \A acc, y : Fine(acc) => Fine(SynthesizeDelete(acc, y, v))
  <2> SUFFICES ASSUME NEW acc, NEW y, Fine(acc) PROVE Fine(SynthesizeDelete(acc, y, v))
    OBVIOUS
  <2> DEFINE t == SynthesizeDelete(acc, y, v)
  <2>1. Shape(acc)
    BY DEF AggStep
  <2>2. AggStep(acc, t) /\ t.aborted = acc.aborted
    BY <2>1, SynthesizeDeleteIs
  <2> HIDE DEF t
  <2>3. AggStep(s, t)
    BY <2>2, AggThen
  <2> QED
    BY <2>2, <2>3 DEF t
<1> HIDE DEF Fine
<1>4. <<S, after>> \in V
  BY <1>1, <1>2, <1>3
<1>5. Fine(after)
  BY <1>4
<1> QED
  BY <1>0, <1>5 DEF Fine

LEMMA CheckAgg ==
    ASSUME NEW s, Shape(s), NEW condition
    PROVE  LET t == Check(s, condition)
           IN AggStep(s, t) /\ (condition => t.aborted = s.aborted)
BY DEF Check, AggStep, Shape, Alters, Fields

LEMMA ResetTargetIs ==
    ASSUME NEW s, Shape(s), NEW x
    PROVE  LET t == ResetTarget(s, x)
           IN /\ AggStep(s, t)
              /\ x \in DOMAIN s.agg.states /\ ~IsPending(s, x) => t.aborted = s.aborted
<1> DEFINE u == Check(s, x \in DOMAIN s.agg.states /\ ~IsPending(s, x))
           state == [NewTargetState EXCEPT
                       !.changes = [d \in Ads |-> IF d \in GetRemoteKeys(s, x) THEN "removed"
                                                  ELSE "none"]]
           t == ResetTarget(s, x)
<1>1. t = SetTargetState(u, x, state)
  BY DEF ResetTarget
<1>2. /\ AggStep(s, u)
      /\ x \in DOMAIN s.agg.states /\ ~IsPending(s, x) => u.aborted = s.aborted
  BY CheckAgg
<1>3. Shape(u)
  BY <1>2 DEF AggStep
<1> HIDE DEF u, state
<1> DEFINE w == SetTargetState(u, x, state)
<1>4. AggStep(u, w) /\ w.aborted = u.aborted
  BY <1>3, SetTargetStateAgg
<1> HIDE DEF w
<1>5. AggStep(s, w)
  BY <1>2, <1>4, AggThen
<1> HIDE DEF t
<1> QED
  BY <1>1, <1>2, <1>4, <1>5 DEF w, t

LEMMA RecordTargetResponseIs ==
    ASSUME NEW s, Shape(s), NEW x
    PROVE  LET t == RecordTargetResponse(s, x)
           IN AggStep(s, t) /\ Shape(t) /\ t.aborted = s.aborted
<1> DEFINE state == [TargetState(s, x) EXCEPT !.pending = @ - 1]
<1>1. RecordTargetResponse(s, x) = SetTargetState(s, x, state)
  BY DEF RecordTargetResponse
<1> HIDE DEF state
<1> QED
  BY <1>1, SetTargetStateAgg

LEMMA HandleTargetAddedIs ==
    ASSUME NEW s, Shape(s), NEW x
    PROVE  LET t == HandleTargetAdded(s, x)
           IN AggStep(s, t) /\ t.aborted = s.aborted
<1> DEFINE u == RecordTargetResponse(s, x)
           state == [TargetState(u, x) EXCEPT !.changes = [d \in Ads |-> "none"]]
           w == SetTargetState(u, x, state)
           t == HandleTargetAdded(s, x)
<1>1. t = u \/ t = w
  BY DEF HandleTargetAdded
<1>2. AggStep(s, u) /\ Shape(u) /\ u.aborted = s.aborted
  BY RecordTargetResponseIs
<1> HIDE DEF u, state, t
<1>3. AggStep(u, w) /\ w.aborted = u.aborted
  BY <1>2, SetTargetStateAgg
<1>4. AggStep(s, w)
  BY <1>2, <1>3, AggThen
<1> HIDE DEF w
<1> QED
  BY <1>1, <1>2, <1>3, <1>4 DEF t

LEMMA StatesAgg ==
    ASSUME NEW s, Shape(s), NEW states, IsFiniteSet(DOMAIN s.agg.states) => IsFiniteSet(DOMAIN states)
    PROVE  LET t == [s EXCEPT !.agg.states = states] IN AggStep(s, t) /\ t.aborted = s.aborted
BY DEF AggStep, Shape, Alters, Fields

LEMMA DropFinite ==
    ASSUME NEW f, NEW k, IsFiniteSet(DOMAIN f)
    PROVE  IsFiniteSet(DOMAIN Drop(f, k))
<1> DEFINE S == DOMAIN f
           T == DOMAIN Drop(f, k)
<1>1. T \subseteq S
  BY DEF Drop
<1> HIDE DEF S, T
<1>2. IsFiniteSet(S) => IsFiniteSet(T)
  BY <1>1, FS_Subset
<1> QED
  BY <1>2 DEF S, T

LEMMA HandleTargetRemovedIs ==
    ASSUME NEW s, Shape(s), NEW x
    PROVE  LET t == HandleTargetRemoved(s, x)
           IN AggStep(s, t) /\ t.aborted = s.aborted
<1> DEFINE u == RecordTargetResponse(s, x)
           states == Drop(u.agg.states, x)
           w == [u EXCEPT !.agg.states = states]
           t == HandleTargetRemoved(s, x)
<1>2. AggStep(s, u) /\ Shape(u) /\ u.aborted = s.aborted
  BY RecordTargetResponseIs
<1>1. t = u \/ t = w
  BY <1>2 DEF HandleTargetRemoved, Shape, Fields
<1> HIDE DEF u, t
<1>3. IsFiniteSet(DOMAIN u.agg.states) => IsFiniteSet(DOMAIN states)
  BY DropFinite
<1> HIDE DEF states
<1>4. AggStep(u, w) /\ w.aborted = u.aborted
  BY <1>2, <1>3, StatesAgg
<1>5. AggStep(s, w)
  BY <1>2, <1>4, AggThen
<1> HIDE DEF w
<1> QED
  BY <1>1, <1>2, <1>4, <1>5 DEF t

LEMMA HandleTargetCurrentIs ==
    ASSUME NEW s, Shape(s), NEW x
    PROVE  LET t == HandleTargetCurrent(s, x)
           IN AggStep(s, t) /\ t.aborted = s.aborted
BY SetTargetStateAgg, AggSame DEF HandleTargetCurrent

LEMMA HandleTargetResetIs ==
    ASSUME NEW s, Shape(s), NEW x
    PROVE  LET t == HandleTargetReset(s, x)
           IN /\ AggStep(s, t)
              /\ ~IsActiveTarget(s, x) \/ x \in DOMAIN s.agg.states => t.aborted = s.aborted
<1>1. IsActiveTarget(s, x) => ~IsPending(s, x)
  BY DEF IsActiveTarget
<1> QED
  BY <1>1, ResetTargetIs, AggSame DEF HandleTargetReset

LEMMA ResetsAgg ==
    ASSUME NEW s, Shape(s)
    PROVE  LET t == [s EXCEPT !.agg.resets = @ \cup {Query}]
           IN AggStep(s, t) /\ t.aborted = s.aborted
BY DEF AggStep, Shape, Alters, Fields

LEMMA HandleExistenceFilterIs ==
    ASSUME NEW s, Shape(s), NEW x, NEW count
    PROVE  LET t == HandleExistenceFilter(s, x, count)
           IN /\ AggStep(s, t)
              /\ x # Query /\ count \in {0, 1} => t.aborted = s.aborted
              /\ x = Query /\ Query \in DOMAIN s.agg.states => t.aborted = s.aborted
<1> DEFINE d == s.listen[x].ad
           doc == [at |-> 0, data |-> Gone]
           a == RemoveDocumentFromTarget(s, x, d, doc)
           b == Check(s, count = 1)
           u == ResetTarget(s, x)
           w == [u EXCEPT !.agg.resets = @ \cup {x}]
           t == HandleExistenceFilter(s, x, count)
<1>1. /\ t = s \/ (x # Query /\ t = IF count = 0 THEN a ELSE b)
           \/ (x = Query /\ IsActiveTarget(s, x) /\ t = w)
  BY DEF HandleExistenceFilter
<1>2. AggStep(s, a) /\ a.aborted = s.aborted
  <2> HIDE DEF d, doc
  <2> QED
    BY RemoveDocumentFromTargetIs
<1>3. AggStep(s, b) /\ (count = 1 => b.aborted = s.aborted)
  BY CheckAgg
<1>4. AggStep(s, u) /\ (x \in DOMAIN s.agg.states /\ ~IsPending(s, x) => u.aborted = s.aborted)
  BY ResetTargetIs
<1>5. Shape(u)
  BY <1>4 DEF AggStep
<1> HIDE DEF a, b, t, u
<1>6. CASE x # Query
  BY <1>1, <1>2, <1>3, <1>6, AggSame DEF t
<1>7. CASE x = Query
  <2>1. AggStep(u, w) /\ w.aborted = u.aborted
    BY <1>5, <1>7, ResetsAgg
  <2>2. AggStep(s, w)
    BY <1>4, <2>1, AggThen
  <2> HIDE DEF w
  <2>3. t = s \/ (IsActiveTarget(s, x) /\ t = w)
    BY <1>1, <1>7
  <2>4. IsActiveTarget(s, x) => ~IsPending(s, x)
    BY DEF IsActiveTarget
  <2> QED
    BY <1>4, <1>7, <2>1, <2>2, <2>3, <2>4, AggSame DEF t
<1> QED
  BY <1>6, <1>7

LEMMA ClearPendingChangesIs ==
    ASSUME NEW s, Shape(s)
    PROVE  LET t == ClearPendingChanges(s)
           IN AggStep(s, t) /\ t.aborted = s.aborted /\ DOMAIN t.agg.states = DOMAIN s.agg.states
BY DEF ClearPendingChanges, AggStep, Shape, Alters, Fields

-----------------------------------------------------------------------------
(* RemoteStore: the messages of the backend                                 *)

\* What is handled by a step that changes neither views, nor listeners, nor which
\* targets are listened to.
LEMMA FrameHandled ==
    ASSUME NEW s, NEW r, Good(s, r), NEW t, NEW F, Shape(t), Alters(s, t, F), Conn(t, r),
           F \cap {"view", "mail", "raised", "online", "listeners", "enqueued", "active",
                   "lookups"} = {},
           DOMAIN t.listen = DOMAIN s.listen
    PROVE  Handled(s, t, r)
<1>1. /\ t.enqueued = s.enqueued /\ t.active = s.active /\ t.lookups = s.lookups
      /\ t.listeners = s.listeners /\ t.view = s.view /\ t.mail = s.mail /\ t.raised = s.raised
      /\ t.online = s.online
  BY DEF Alters, Fields
<1>2. OrdKept(s, t)
  BY <1>1 DEF OrdKept, Ord, Told, Ready, ShouldRaiseInitialEvent
<1>3. Look(t) /\ Served(t)
  BY <1>1 DEF Good, Look, Served
<1>4. RoomKept(s, t)
  BY <1>1 DEF RoomKept, Roomy, Room, InLimbo
<1> QED
  BY <1>2, <1>3, <1>4 DEF Handled, Good

\* A step that touches requests, tokens and nothing else.
Requests == {"agg", "up", "idle", "listen", "lostReset"}
Asks(s, t, r) ==
  /\ Shape(t) /\ Alters(s, t, Requests) /\ Conn(t, r)
  /\ DOMAIN t.listen = DOMAIN s.listen

LEMMA AsksThen ==
    ASSUME NEW s, NEW t, NEW u, NEW r, Asks(s, t, r), Asks(t, u, r)
    PROVE  Asks(s, u, r)
BY DEF Asks, Alters

LEMMA AsksHandled ==
    ASSUME NEW s, NEW r, Good(s, r), NEW t, Asks(s, t, r)
    PROVE  Handled(s, t, r) /\ t.aborted = s.aborted /\ t.stream = s.stream
<1> DEFINE F == Requests
<1>1. Shape(t) /\ Alters(s, t, F) /\ Conn(t, r) /\ DOMAIN t.listen = DOMAIN s.listen
  BY DEF Asks
<1>2. F \cap {"view", "mail", "raised", "online", "listeners", "enqueued", "active",
              "lookups"} = {}
  BY DEF Requests
<1>3. t.aborted = s.aborted /\ t.stream = s.stream
  BY <1>1 DEF Alters, Fields, Requests
<1> HIDE DEF F
<1> QED
  BY <1>1, <1>2, <1>3, FrameHandled

LEMMA SentAsks ==
    ASSUME NEW s, Shape(s), NEW r, Conn(s, r), s.stream = "Open", NEW x, NEW m
    PROVE  LET t == Sent(s, x, m) IN Asks(s, t, r) /\ t.stream = "Open"
<1> DEFINE t == Sent(s, x, m)
<1>1. IsSent(s, t, x, m)
  BY SentIs
<1>2. Conn(t, r)
  BY SentConn
<1> HIDE DEF t
<1>3. Shape(t) /\ Alters(s, t, Requests) /\ t.listen = s.listen /\ t.stream = s.stream
  BY <1>1 DEF IsSent, Alters, Fields, Requests
<1> QED
  BY <1>2, <1>3 DEF Asks, t

\* New tokens for the targets listened to.
Tokened(s, listen, lost) == [s EXCEPT !.listen = listen, !.lostReset = lost]
SameTargets(s, listen) == DOMAIN listen = DOMAIN s.listen

LEMMA TokensAsk ==
    ASSUME NEW s, Shape(s), NEW r, Conn(s, r), NEW listen, SameTargets(s, listen), NEW lost
    PROVE  Asks(s, Tokened(s, listen, lost), r)
<1> DEFINE t == Tokened(s, listen, lost)
<1>1. Shape(t) /\ Alters(s, t, {"listen", "lostReset"}) /\ t.listen = listen
  BY DEF Tokened, Shape, Alters, Fields
<1> HIDE DEF t
<1>2. /\ t.up = s.up /\ t.down = s.down /\ t.network = s.network /\ t.agg = s.agg
      /\ t.failed = s.failed /\ t.timer = s.timer /\ t.online = s.online /\ t.idle = s.idle
      /\ t.stream = s.stream
  BY <1>1 DEF Alters, Fields
<1> DEFINE old == DOMAIN s.listen
           new == DOMAIN t.listen
<1>3. new = old
  BY <1>1 DEF SameTargets
<1>4. Conn(t, r)
  <2>1. /\ IsFiniteSet(old) /\ (s.idle => old = {} /\ s.stream = "Open")
        /\ (old # {} => IsStarted(s))
        /\ (Query \in old /\ s.online = "Unknown" => s.timer \/ r)
    BY DEF Conn
  <2> HIDE DEF old, new
  <2>2. /\ IsFiniteSet(new) /\ (t.idle => new = {} /\ t.stream = "Open")
        /\ (new # {} => IsStarted(t))
        /\ (Query \in new /\ t.online = "Unknown" => t.timer \/ r)
    BY <1>2, <1>3, <2>1 DEF IsStarted
  <2> QED
    BY <1>2, <2>2 DEF Conn, IsStarted, new
<1>5. Alters(s, t, Requests)
  BY <1>1 DEF Alters, Requests
<1> QED
  BY <1>1, <1>2, <1>3, <1>4, <1>5 DEF Asks, t

LEMMA RewatchIs ==
    ASSUME NEW s, Shape(s), NEW r, Conn(s, r), s.stream = "Open", NEW x
    PROVE  LET t == Rewatch(s, x) IN Asks(s, t, r) /\ t.stream = "Open"
<1> DEFINE t == Rewatch(s, x)
<1>1. CASE x \notin DOMAIN s.listen
  <2>1. t = s
    BY <1>1 DEF Rewatch
  <2>2. Asks(s, s, r)
    BY DEF Asks, Alters, Shape
  <2> QED
    BY <2>1, <2>2
<1>2. CASE x \in DOMAIN s.listen
  <2> DEFINE listen == [s.listen EXCEPT ![x].token = 0]
             lost == s.lostReset
             u == [s EXCEPT !.listen = listen, !.lostReset = lost]
             out == [type |-> "unwatch", target |-> x]
             v == Sent(u, x, out)
             in == [type |-> "watch", target |-> x, ad |-> v.listen[x].ad, token |-> 0]
             w == Sent(v, x, in)
  <2>1. u = [s EXCEPT !.listen[x].token = 0]
    BY DEF Shape, Fields
  <2>2. SameTargets(s, listen)
    BY DEF SameTargets
  <2> HIDE DEF listen, lost
  <2>a. Asks(s, Tokened(s, listen, lost), r)
    BY <2>2, TokensAsk
  <2>3. Asks(s, u, r) /\ u.stream = "Open"
    BY <2>a DEF Tokened, Asks, Alters, Fields, Requests
  <2> HIDE DEF u
  <2>4. t = w
    BY <1>2, <2>1 DEF Rewatch, SendWatchRequest, SendUnwatchRequest, Sent
  <2> HIDE DEF out
  <2>5. Asks(u, v, r) /\ v.stream = "Open"
    BY <2>3, SentAsks DEF Asks
  <2> HIDE DEF v, in
  <2>6. Asks(v, w, r) /\ w.stream = "Open"
    BY <2>5, SentAsks DEF Asks
  <2> HIDE DEF w, t
  <2>7. Asks(s, w, r)
    BY <2>3, <2>5, <2>6, AsksThen
  <2> QED
    BY <2>4, <2>6, <2>7 DEF t
<1> QED
  BY <1>1, <1>2

Rewatching == INSTANCE FoldLemmas WITH Step <- LAMBDA p, t, acc : Rewatch(acc, t)

LEMMA RewatchLoop ==
    ASSUME NEW s, NEW S
    PROVE  RewatchAll(s, S) = Rewatching!Loop(0, s, S)
BY DEF RewatchAll, Rewatching!Loop, FoldSet, MapThenFoldSet, Rewatching!FoldSet,
       Rewatching!MapThenFoldSet

LEMMA RewatchKeep ==
    ASSUME NEW s, NEW S, IsFiniteSet(S)
    PROVE  \E R : /\ <<{}, s>> \in R
                  /\ \A V : /\ <<{}, s>> \in V
                            /\ \A done, acc, x :
                                  /\ <<done, acc>> \in V /\ done \subseteq S /\ x \in S \ done
                                  /\ <<done \cup {x}, Rewatch(acc, x)>> \in R
                                  => <<done \cup {x}, Rewatch(acc, x)>> \in V
                            => <<S, Rewatching!Loop(0, s, S)>> \in V
<1>1. \E n \in Nat : \E f \in [1..n -> S] : \A x \in S : \E i \in 1..n : f[i] = x
  BY CanBeListed
<1> QED
  BY <1>1, Rewatching!LoopKeeps

LEMMA RewatchAllIs ==
    ASSUME NEW s, Shape(s), NEW r, Conn(s, r), s.stream = "Open", NEW S, IsFiniteSet(S)
    PROVE  LET t == RewatchAll(s, S) IN Asks(s, t, r) /\ t.stream = "Open"
<1> DEFINE Fine(t) == Asks(s, t, r) /\ t.stream = "Open"
           after == Rewatching!Loop(0, s, S)
<1>0. RewatchAll(s, S) = after
  BY RewatchLoop
<1>1. PICK R : /\ <<{}, s>> \in R
               /\ \A V : /\ <<{}, s>> \in V
                         /\ \A done, acc, x :
                               /\ <<done, acc>> \in V /\ done \subseteq S /\ x \in S \ done
                               /\ <<done \cup {x}, Rewatch(acc, x)>> \in R
                               => <<done \cup {x}, Rewatch(acc, x)>> \in V
                         => <<S, after>> \in V
  BY RewatchKeep
<1> HIDE DEF after
<1> DEFINE V == {v \in R : Fine(v[2])}
<1>2. Fine(s)
  BY DEF Asks, Alters, Shape
<1>3. \A acc, x : Fine(acc) => Fine(Rewatch(acc, x))
  <2> SUFFICES ASSUME NEW acc, NEW x, Fine(acc) PROVE Fine(Rewatch(acc, x))
    OBVIOUS
  <2> DEFINE t == Rewatch(acc, x)
  <2>1. Shape(acc) /\ Conn(acc, r)
    BY DEF Asks
  <2>2. Asks(acc, t, r) /\ t.stream = "Open"
    BY <2>1, RewatchIs
  <2> HIDE DEF t
  <2>3. Asks(s, t, r)
    BY <2>2, AsksThen
  <2> QED
    BY <2>2, <2>3 DEF t
<1> HIDE DEF Fine
<1>4. <<S, after>> \in V
  BY <1>1, <1>2, <1>3
<1>5. Fine(after)
  BY <1>4
<1> QED
  BY <1>0, <1>5 DEF Fine

LEMMA RaiseWatchSnapshotIs ==
    ASSUME NEW s, NEW r, Good(s, r), s.stream = "Open", NEW version
    PROVE  LET t == RaiseWatchSnapshot(s, version)
               event == RemoteEvent(PrepareRemoteEvent(s, version), version)
           IN /\ Handled(s, t, r)
              /\ (version >= s.lastRemote) /\ LookupsOk(s, event) /\ QueryOk(s, event)
                   => t.aborted = s.aborted
<1> DEFINE p == PrepareRemoteEvent(s, version)
           event == RemoteEvent(p, version)
           c == ClearPendingChanges(p)
           listen == [x \in DOMAIN c.listen |-> IF x \in DOMAIN event.changes
                                                THEN [c.listen[x] EXCEPT !.token = version]
                                                ELSE c.listen[x]]
           lost == c.lostReset \/ \E x \in event.resets : LosesReset(p, x)
           u == [c EXCEPT !.listen = listen, !.lostReset = lost]
           S == event.resets
           w == RewatchAll(u, S)
           t == ApplyRemoteEvent(w, event)
<1>0. Shape(s) /\ Conn(s, r) /\ IsFiniteSet(DOMAIN s.agg.states)
  BY DEF Good, Conn
<1>1. AggStep(s, p) /\ p.aborted = s.aborted
  BY <1>0, PrepareRemoteEventIs
<1>2. Shape(p)
  BY <1>1 DEF AggStep
<1> HIDE DEF p
<1>3. AggStep(p, c) /\ c.aborted = p.aborted
  BY <1>2, ClearPendingChangesIs
<1>4. AggStep(s, c)
  BY <1>1, <1>3, AggThen
<1>5. Shape(c)
  BY <1>4 DEF AggStep
<1> HIDE DEF c
<1>6. Handled(s, c, r)
  BY <1>4, AggHandled
<1>7. Good(c, r) /\ Conn(c, r)
  BY <1>6 DEF Handled, Good
<1>8. RaiseWatchSnapshot(s, version) = t
  <2>1. [c EXCEPT !.listen = [x \in DOMAIN @ |-> IF x \in DOMAIN event.changes
                                             THEN [@[x] EXCEPT !.token = version] ELSE @[x]],
                  !.lostReset = @ \/ \E x \in event.resets : LosesReset(p, x)] = u
    BY <1>5 DEF Shape, Fields
  <2> QED
    BY <2>1 DEF RaiseWatchSnapshot, p, c
<1>9. SameTargets(c, listen)
  BY DEF SameTargets
<1> HIDE DEF listen, lost
<1>10. c.stream = "Open" /\ c.lastRemote = s.lastRemote /\ c.lookups = s.lookups /\ c.view = s.view
  BY <1>4 DEF AggStep, Alters, Fields
<1>a. Asks(c, Tokened(c, listen, lost), r)
  BY <1>5, <1>7, <1>9, TokensAsk
<1>11. Asks(c, u, r) /\ u.stream = "Open"
  BY <1>10, <1>a DEF Tokened, Asks, Alters, Fields, Requests
<1> HIDE DEF u
<1>12. IsFiniteSet(S)
  <2>1. S \subseteq {Query}
    BY <1>0, <1>1 DEF RemoteEvent, AggStep, Conn
  <2> HIDE DEF S
  <2>2. IsFiniteSet({Query})
    BY FS_Singleton
  <2> QED
    BY <2>1, <2>2, FS_Subset
<1> HIDE DEF S
<1>13. Asks(u, w, r)
  BY <1>11, <1>12, RewatchAllIs DEF Asks
<1> HIDE DEF w
<1>14. Asks(c, w, r)
  BY <1>11, <1>13, AsksThen
<1>15. Handled(c, w, r) /\ w.aborted = c.aborted
  BY <1>7, <1>14, AsksHandled
<1>16. w.lastRemote = s.lastRemote /\ w.lookups = s.lookups /\ w.view = s.view
  BY <1>10, <1>14 DEF Asks, Alters, Fields, Requests
<1>17. event.version = version
  BY DEF RemoteEvent
<1> HIDE DEF event
<1>18. /\ Handled(w, t, r)
       /\ VersionOk(w, event) /\ LookupsOk(w, event) /\ QueryOk(w, event)
             => t.aborted = w.aborted
  BY <1>15, ApplyRemoteEventIs DEF Handled
<1> HIDE DEF t
<1>19. Handled(s, w, r)
  BY <1>6, <1>15, HandledThen
<1>20. Handled(s, t, r)
  BY <1>18, <1>19, HandledThen
<1>21. ASSUME version >= s.lastRemote, LookupsOk(s, event), QueryOk(s, event)
       PROVE  t.aborted = s.aborted
  BY <1>1, <1>3, <1>15, <1>16, <1>17, <1>18, <1>21 DEF VersionOk, LookupsOk, QueryOk, NewsOk
<1> QED
  BY <1>8, <1>20, <1>21 DEF p, event

\* A message of the backend, on an open stream.
LEMMA HandleWatchChangeIs ==
    ASSUME NEW s, NEW r, Good(s, r), s.stream = "Open",
           NEW m, MessageOk(m)
    PROVE  Handled(s, HandleWatchChange(s, m), r)
<1> DEFINE t == HandleWatchChange(s, m)
           x == m.target
           docs == m.docs
           count == m.count
           version == m.version
           a == HandleTargetAdded(s, x)
           b == HandleTargetRemoved(s, x)
           c == HandleTargetCurrent(s, x)
           d == ProcessTargetError(s, x)
           e == HandleExistenceFilter(s, x, count)
           f == HandleDocumentChanges(s, x, docs)
           g == RaiseWatchSnapshot(s, version)
           h == HandleTargetReset(s, x)
<1>1. t \in {s, a, b, c, d, e, g, h} \/ (m.type = "docs" /\ t = f)
  <2> HIDE DEF x, docs, count, version
  <2>1. CASE m.type = "added"
    BY <2>1 DEF HandleWatchChange, x
  <2>2. CASE m.type = "removed"
    BY <2>2 DEF HandleWatchChange, x
  <2>3. CASE m.type = "current"
    BY <2>3 DEF HandleWatchChange, x
  <2>4. CASE m.type = "rejected"
    BY <2>4 DEF HandleWatchChange, x
  <2>5. CASE m.type = "filter"
    BY <2>5 DEF HandleWatchChange, x, count
  <2>6. CASE m.type = "docs"
    BY <2>6 DEF HandleWatchChange, x, docs
  <2>7. CASE m.type = "snapshot"
    BY <2>7 DEF HandleWatchChange, version
  <2>8. CASE m.type = "reset"
    BY <2>8 DEF HandleWatchChange, x
  <2> QED
    BY <2>1, <2>2, <2>3, <2>4, <2>5, <2>6, <2>7, <2>8 DEF MessageOk, MessageTypes
<1> HIDE DEF x, count, version
<1>2. Shape(s)
  BY DEF Good
<1>3. /\ AggStep(s, a) /\ AggStep(s, b) /\ AggStep(s, c) /\ AggStep(s, e) /\ AggStep(s, h)
      /\ AggStep(s, s)
  BY <1>2, HandleTargetAddedIs, HandleTargetRemovedIs, HandleTargetCurrentIs,
     HandleExistenceFilterIs, HandleTargetResetIs, AggSame
<1>4. m.type = "docs" => AggStep(s, f)
  <2> SUFFICES ASSUME m.type = "docs" PROVE AggStep(s, f)
    OBVIOUS
  <2>3. IsFiniteSet(DOMAIN docs)
    BY DEF MessageOk
  <2> HIDE DEF docs
  <2> QED
    BY <1>2, <2>3, HandleDocumentChangesIs
<1> HIDE DEF docs
<1>5. Handled(s, d, r)
  BY ProcessTargetErrorIs
<1>6. Handled(s, g, r)
  BY RaiseWatchSnapshotIs
<1> HIDE DEF a, b, c, d, e, f, g, h
<1>7. AggStep(s, t) \/ Handled(s, t, r)
  BY <1>1, <1>3, <1>4, <1>5, <1>6
<1> HIDE DEF t
<1>8. Handled(s, t, r)
  BY <1>7, AggHandled
<1> QED
  BY <1>8 DEF t

LEMMA OnWatchStreamChangeIs ==
    ASSUME NEW s, NEW r, Good(s, r), s.stream = "Open",
           NEW m, MessageOk(m)
    PROVE  Handled(s, OnWatchStreamChange(s, m), r)
<1> DEFINE F == {"timer", "failed"}
           u == UpdateState(s, "Online")
           t == HandleWatchChange(u, m)
<1>1. Shape(s) /\ Conn(s, r)
  BY DEF Good
<1>2. Quiet(s, u, F) /\ u.online = "Online" /\ u.timer = FALSE /\ u.failed = FALSE
  BY <1>1, UpdateStateIs
<1> HIDE DEF u
<1>3. /\ u.up = s.up /\ u.down = s.down /\ u.network = s.network /\ u.agg = s.agg
      /\ u.idle = s.idle /\ u.stream = s.stream /\ u.listen = s.listen
  BY <1>2 DEF Quiet, Alters, Fields, Broadcast
<1>4. Conn(u, r)
  BY <1>1, <1>2, <1>3 DEF Conn, IsStarted
<1>5. F \subseteq Fields \ {"listen", "enqueued", "active", "lookups", "listeners"}
  BY DEF Fields
<1> HIDE DEF F
<1>6. Handled(s, u, r)
  BY <1>2, <1>4, <1>5, QuietHandled
<1>7. Handled(u, t, r)
  <2>1. Good(u, r) /\ u.stream = "Open"
    BY <1>3, <1>6 DEF Handled
  <2> QED
    BY <2>1, HandleWatchChangeIs
<1> HIDE DEF t
<1>8. Handled(s, t, r)
  BY <1>6, <1>7, HandledThen
<1> QED
  BY <1>8 DEF t, u, OnWatchStreamChange

-----------------------------------------------------------------------------
(* The tasks of the worker queue                                            *)

LEMMA SeqNil == ASSUME NEW q, IsSeq(q), Range(q) = {} PROVE q = <<>>
<1>1. Len(q) \in Nat /\ DOMAIN q = 1..Len(q)
  BY SeqFacts
<1>2. DOMAIN q = {}
  BY DEF Range
<1>3. PICK S : q \in Seq(S)
  BY DEF IsSeq
<1>4. Len(q) = 0
  BY <1>1, <1>2
<1> QED
  BY <1>3, <1>4, EmptySeq

Listening(s, c) == [s EXCEPT !.listeners = Append(@, c)]

LEMMA ListeningIs ==
    ASSUME NEW s, Shape(s), NEW c
    PROVE  LET t == Listening(s, c)
           IN /\ Shape(t) /\ Alters(s, t, {"listeners"}) /\ t.listeners = Grown(s.listeners, c)
BY DEF Listening, Grown, Shape, Alters, Fields

\* A call that has a listener has been taken on.
LEMMA ListeningOrd ==
    ASSUME NEW s, NEW t, Alters(s, t, {"listeners"}), NEW k, NEW A, Ord(s, k, A), k < MaxCalls,
           t.listeners = Grown(s.listeners, k + 1)
    PROVE  /\ Ord(t, k + 1, A) /\ IsSeq(t.listeners) /\ t.listeners # <<>>
           /\ Range(t.listeners) = Range(s.listeners) \cup {k + 1}
<1> DEFINE old == s.listeners
           all == t.listeners
           n == Len(old)
           c == k + 1
<1>1. k \in Nat /\ IsSeq(old) /\ Range(old) \subseteq 1..k /\ Ascending(old) /\ all = Grown(old, c)
  BY BoundsAssumption DEF Ord
<1>2. t.mail = s.mail /\ t.raised = s.raised
  BY DEF Alters, Fields
<1>a. MaxCalls \in Nat /\ k + 1 \in 0..MaxCalls
  BY <1>1, BoundsAssumption
<1> HIDE DEF old, all
<1>3. /\ IsSeq(all) /\ Len(all) = n + 1 /\ (\A i \in 1..n : all[i] = old[i]) /\ all[n + 1] = c
      /\ n \in Nat
  <2> HIDE DEF c
  <2>1. IsSeq(old) /\ all = Grown(old, c)
    BY <1>1
  <2>2. IsSeq(all) /\ Len(all) = n + 1 /\ (\A i \in 1..n : all[i] = old[i]) /\ all[n + 1] = c
    BY <2>1, GrownIs
  <2>3. n \in Nat
    BY <2>1, SeqFacts
  <2> QED
    BY <2>2, <2>3
<1>4. DOMAIN all = 1..(n + 1) /\ DOMAIN old = 1..n
  BY <1>1, <1>3, SeqFacts
<1> HIDE DEF n
<1>5. Range(all) = Range(old) \cup {c}
  <2>1. \A i \in 1..(n + 1) : i \in 1..n \/ i = n + 1
    BY <1>3
  <2>2. \A i \in 1..n : i \in 1..(n + 1)
    BY <1>3
  <2>3. n + 1 \in 1..(n + 1)
    BY <1>3
  <2> HIDE DEF c
  <2> QED
    BY <1>3, <1>4, <2>1, <2>2, <2>3 DEF Range
<1>6. Ascending(all)
  <2> SUFFICES ASSUME NEW i \in 1..(n + 1), NEW j \in 1..(n + 1), i < j PROVE all[i] < all[j]
    BY <1>4 DEF Ascending
  <2>1. i \in 1..n /\ (j \in 1..n \/ j = n + 1)
    BY <1>3
  <2>2. old[i] \in 1..k
    BY <1>1, <1>4, <2>1 DEF Range
  <2>3. CASE j \in 1..n
    BY <1>1, <1>3, <1>4, <2>1, <2>3 DEF Ascending
  <2>4. CASE j = n + 1
    BY <1>1, <1>3, <2>1, <2>2, <2>4
  <2> QED
    BY <2>1, <2>3, <2>4
<1>7. all # <<>>
  BY <1>3, SeqEmpty
<1>8. \A e \in 1..c : e \in 1..k \/ e = c
  BY <1>1
<1>9. \A e \in 1..k : e \in 1..c
  BY <1>1
<1>10. \A e : Told(s, e, A) => Told(t, e, A)
  BY <1>2 DEF Told
<1>11. Ord(t, c, A)
  <2>1. c \in 0..MaxCalls /\ Range(all) \subseteq 1..c
    BY <1>1, <1>5, <1>9, <1>a
  <2>2. \A e \in s.raised : e \in 1..k /\ \A d \in 1..e : Told(s, d, A)
    BY DEF Ord
  <2>3. IsSeq(s.mail) /\ \A i \in 1..Len(s.mail) :
            /\ s.mail[i].call \in 1..k
            /\ \A d \in 1..(s.mail[i].call - 1) :
                  d \in A \/ \E j \in 1..(i - 1) : s.mail[j].call = d
    BY DEF Ord
  <2>4. \A d \in 1..k : d \in Range(old) \/ Told(s, d, A)
    BY DEF Ord, old
  <2> HIDE DEF c
  <2>5. \A e \in t.raised : e \in 1..c /\ \A d \in 1..e : Told(t, d, A)
    BY <1>2, <1>9, <1>10, <2>2
  <2>6. IsSeq(t.mail) /\ \A i \in 1..Len(t.mail) :
            /\ t.mail[i].call \in 1..c
            /\ \A d \in 1..(t.mail[i].call - 1) :
                  d \in A \/ \E j \in 1..(i - 1) : t.mail[j].call = d
    BY <1>2, <1>9, <2>3
  <2>7. \A d \in 1..c : d \in Range(all) \/ Told(t, d, A)
    BY <1>5, <1>8, <1>10, <2>4
  <2> QED
    BY <1>3, <1>6, <2>1, <2>5, <2>6, <2>7 DEF Ord, all
<1> QED
  BY <1>3, <1>5, <1>7, <1>11 DEF old, all

\* The listener of a call joins the others.
Joins(s, c) == IF ShouldRaiseInitialEvent(Listening(s, c)) THEN RaiseTo(Listening(s, c), <<c>>)
               ELSE Listening(s, c)

LEMMA JoinsIs ==
    ASSUME NEW s, NEW r, Good(s, r), s.listeners # <<>>, NEW c
    PROVE  LET t == Joins(s, c)
           IN /\ Shape(t) /\ Alters(s, t, {"listeners", "mail", "raised"})
              /\ t.listeners = Grown(s.listeners, c)
              /\ \A k, A : c = k + 1 /\ k < MaxCalls /\ Ord(s, k, A) /\ Ready(s)
                             => Ord(t, k + 1, A) /\ Ready(t) /\ t.listeners # <<>>
<1> DEFINE u == Listening(s, c)
           w == RaiseTo(u, <<c>>)
           t == Joins(s, c)
<1>1. Shape(s) /\ s.view # NoView
  BY DEF Good, Served
<1>2. Shape(u) /\ Alters(s, u, {"listeners"}) /\ u.listeners = Grown(s.listeners, c)
  BY <1>1, ListeningIs
<1>3. t = IF ShouldRaiseInitialEvent(u) THEN w ELSE u
  BY DEF Joins
<1> HIDE DEF u
<1>4. Alters(u, w, {"mail", "raised"}) /\ w.raised = u.raised \cup Range(<<c>>)
  BY <1>2, RaiseToIs
<1>5. Shape(w)
  BY <1>2, <1>4, ShapeOf
<1>6. Range(<<c>>) = {c}
  BY SeqOne
<1>7. u.view = s.view /\ u.online = s.online /\ u.raised = s.raised /\ u.mail = s.mail
  BY <1>2 DEF Alters, Fields
<1>8. w.view = u.view /\ w.online = u.online /\ w.listeners = u.listeners
  BY <1>4 DEF Alters, Fields
<1> HIDE DEF w, t
<1>9. /\ Shape(t) /\ Alters(s, t, {"listeners", "mail", "raised"})
      /\ t.listeners = Grown(s.listeners, c)
  BY <1>2, <1>3, <1>4, <1>5, <1>8 DEF Alters
<1>10. ASSUME NEW k, NEW A, c = k + 1, k < MaxCalls, Ord(s, k, A), Ready(s)
       PROVE  Ord(t, k + 1, A) /\ Ready(t) /\ t.listeners # <<>>
  <2>1. /\ Ord(u, k + 1, A) /\ IsSeq(u.listeners) /\ u.listeners # <<>>
        /\ Range(u.listeners) = Range(s.listeners) \cup {c}
    BY <1>2, <1>10, ListeningOrd
  <2>2. k \in Nat
    BY <1>10, BoundsAssumption DEF Ord
  <2>3. CASE ShouldRaiseInitialEvent(u)
    <3>1. Range(s.listeners) \subseteq s.raised
      BY <1>1, <1>7, <1>10, <2>3 DEF Ready, ShouldRaiseInitialEvent
    <3>2. \A e \in 1..k : Told(s, e, A)
      <4> SUFFICES ASSUME NEW e \in 1..k PROVE Told(s, e, A)
        OBVIOUS
      <4>1. e \in Range(s.listeners) \/ Told(s, e, A)
        BY <1>10 DEF Ord
      <4>2. e \in s.raised => Told(s, e, A)
        <5>1. e \in 1..e
          BY <2>2
        <5> QED
          BY <1>10, <5>1 DEF Ord
      <4> QED
        BY <3>1, <4>1, <4>2
    <3>3. \A e \in 1..(c - 1) : Told(u, e, A)
      BY <1>7, <1>10, <2>2, <3>2 DEF Told
    <3> DEFINE calls == <<c>>
    <3>4. IsSeq(calls) /\ Ascending(calls) /\ Range(calls) \subseteq 1..(k + 1)
      <4>1. IsSeq(calls) /\ Len(calls) = 1
        BY SeqOne
      <4> HIDE DEF calls
      <4>2. DOMAIN calls = 1..1
        BY <4>1, SeqFacts
      <4>3. Ascending(calls)
        BY <4>2 DEF Ascending
      <4>4. c \in 1..(k + 1)
        BY <1>10, <2>2
      <4> QED
        BY <1>6, <4>1, <4>3, <4>4 DEF calls
    <3>5. \A d \in Range(calls) : \A e \in 1..(d - 1) : e \in Range(calls) \/ Told(u, e, A)
      BY <1>6, <3>3
    <3>6. Ord(RaiseTo(u, calls), k + 1, A)
      <4> HIDE DEF calls
      <4>1. k + 1 \in Nat
        BY <2>2
      <4> QED
        BY <1>2, <2>1, <3>4, <3>5, <4>1, RaiseOrd
    <3>7. Ready(t)
      BY <1>3, <1>4, <1>6, <1>7, <1>8, <2>1, <2>3, <3>1 DEF Ready
    <3>8. t = w /\ t.listeners # <<>>
      BY <1>3, <1>8, <2>1, <2>3
    <3> QED
      BY <3>6, <3>7, <3>8 DEF w
  <2>4. CASE ~ShouldRaiseInitialEvent(u)
    BY <1>3, <2>1, <2>4 DEF Ready
  <2> QED
    BY <2>3, <2>4
<1> QED
  BY <1>9, <1>10 DEF t

\* What a view is once changes were applied to it.
AView(v) == /\ DOMAIN v = ViewFields /\ v # NoView /\ v.state \in {"Synced", "Local"}
            /\ v.limbo \subseteq Ads

LEMMA ApplyChangesView ==
    ASSUME NEW old, DOMAIN old = ViewFields, old.limbo \subseteq Ads, NEW docs, NEW tc
    PROVE  AView(ApplyChanges(old, docs, tc))
<1> DEFINE v == ApplyChanges(old, docs, tc)
<1>1. DOMAIN old = ViewFields
  OBVIOUS
<1>2. /\ DOMAIN v = ViewFields /\ v # NoView
      /\ v.state \in {"Synced", "Local"}
      /\ v.docs = docs
      /\ v.synced = IF tc = NoChange THEN old.synced ELSE (old.synced \cup tc.added) \ tc.removed
      /\ v.current = IF tc = NoChange THEN old.current ELSE tc.current
      /\ v.limbo = IF v.current THEN LimboOf(v) ELSE old.limbo
  BY <1>1, ApplyChangesIs
<1> HIDE DEF v
<1>3. v.limbo \subseteq Ads
  BY <1>2 DEF LimboOf
<1> QED
  BY <1>2, <1>3 DEF AView, v

\* The first listener: a view of the cached documents.
FirstView(s, c) ==
  LET u == [Listening(s, c) EXCEPT !.view = NewView(s)]
  IN WithView(u, ApplyChanges(u.view, ComputeDocumentChanges(u, Ads), NoChange))

LEMMA FirstViewIs ==
    ASSUME NEW s, NEW r, Good(s, r), s.listeners = <<>>, NEW c
    PROVE  LET t == FirstView(s, c)
           IN /\ Shape(t) /\ Alters(s, t, {"listeners", "view", "mail", "raised"})
              /\ t.view # NoView /\ t.view.limbo \subseteq Ads
              /\ \A k, A : c = k + 1 /\ k < MaxCalls /\ Ord(s, k, A) /\ Ready(s)
                             => Ord(t, k + 1, A) /\ Ready(t) /\ t.listeners # <<>>
<1> DEFINE a == Listening(s, c)
           new == NewView(s)
           u == [a EXCEPT !.view = new]
           docs == ComputeDocumentChanges(u, Ads)
           view == ApplyChanges(u.view, docs, NoChange)
           t == FirstView(s, c)
<1>1. Shape(s)
  BY DEF Good
<1>2. Shape(a) /\ Alters(s, a, {"listeners"}) /\ a.listeners = Grown(s.listeners, c)
  BY <1>1, ListeningIs
<1>3. t = WithView(u, view)
  BY DEF FirstView
<1>4. DOMAIN new = ViewFields /\ new.limbo = {} /\ new.state = "new"
  BY DEF NewView, ViewFields
<1> HIDE DEF a, new, t
<1>5. Shape(u) /\ Alters(a, u, {"view"}) /\ u.view = new
  BY <1>2, <1>4 DEF Shape, Alters, Fields
<1> HIDE DEF u, docs
<1>6. /\ DOMAIN view = ViewFields /\ view # NoView /\ view.state \in {"Synced", "Local"}
      /\ view.limbo \subseteq Ads
  <2> DEFINE old == u.view
             tc == NoChange
  <2>1. DOMAIN old = ViewFields /\ old.limbo \subseteq Ads
    BY <1>4, <1>5
  <2> HIDE DEF old, tc
  <2>2. AView(ApplyChanges(old, docs, tc))
    BY <2>1, ApplyChangesView
  <2> QED
    BY <2>2 DEF AView, old, tc
<1> HIDE DEF view
<1>7. /\ Shape(t) /\ Alters(u, t, {"view", "mail", "raised"}) /\ t.view = view
      /\ \A k, A : Ord(u, k, A) =>
            /\ Ord(t, k, A)
            /\ (u.view # NoView /\ Ready(u)) \/ view.state # u.view.state => Ready(t)
  BY <1>3, <1>5, <1>6, WithViewIs
<1>8. view.state # u.view.state
  BY <1>4, <1>5, <1>6
<1>9. Alters(s, t, {"listeners", "view", "mail", "raised"}) /\ t.listeners = a.listeners
  BY <1>2, <1>5, <1>7 DEF Alters, Fields
<1>10. ASSUME NEW k, NEW A, c = k + 1, k < MaxCalls, Ord(s, k, A), Ready(s)
       PROVE  Ord(t, k + 1, A) /\ Ready(t) /\ t.listeners # <<>>
  <2>1. Ord(a, k + 1, A) /\ a.listeners # <<>>
    BY <1>2, <1>10, ListeningOrd
  <2>2. Ord(u, k + 1, A)
    <3>1. u.listeners = a.listeners /\ u.mail = a.mail /\ u.raised = a.raised
      BY <1>5 DEF Alters, Fields
    <3> QED
      BY <2>1, <3>1 DEF Ord, Told
  <2> QED
    BY <1>7, <1>8, <1>9, <2>1, <2>2
<1> QED
  BY <1>6, <1>7, <1>9, <1>10 DEF t

\* A step after which the calls up to the next one have been taken on.
TakesOn(s, t, c) ==
  \A k, A : c = k + 1 /\ k < MaxCalls /\ Ord(s, k, A) /\ Ready(s) => Ord(t, k + 1, A) /\ Ready(t)

LEMMA AddQueryListenerIs ==
    ASSUME NEW s, NEW r, Good(s, r), NEW c, NEW n, NEW B, c = n + 1, n < MaxCalls, Ord(s, n, B),
           Ready(s)
    PROVE  LET t == AddQueryListener(s, c)
           IN /\ Good(t, r \/ Reuses(s)) /\ TakesOn(s, t, c) /\ RoomKept(s, t)
              /\ t.aborted = s.aborted
<1> DEFINE t == AddQueryListener(s, c)
           q == r \/ Reuses(s)
<1>0. Shape(s) /\ Conn(s, r) /\ Look(s) /\ Served(s)
  BY DEF Good
<1>1. CASE s.listeners # <<>>
  <2>1. t = Joins(s, c)
    BY <1>1 DEF AddQueryListener, Joins, Listening
  <2> HIDE DEF t
  <2>2. /\ Shape(t) /\ Alters(s, t, {"listeners", "mail", "raised"})
        /\ t.listeners = Grown(s.listeners, c)
        /\ \A k, A : c = k + 1 /\ k < MaxCalls /\ Ord(s, k, A) /\ Ready(s)
                       => Ord(t, k + 1, A) /\ Ready(t) /\ t.listeners # <<>>
    BY <1>1, <2>1, JoinsIs
  <2>3. t.listeners # <<>> /\ TakesOn(s, t, c)
    BY <2>2 DEF TakesOn
  <2>4. /\ t.view = s.view /\ t.listen = s.listen /\ t.enqueued = s.enqueued
        /\ t.active = s.active /\ t.lookups = s.lookups /\ t.aborted = s.aborted
    BY <2>2 DEF Alters, Fields
  <2>5. ~Reuses(s)
    BY <1>1 DEF Reuses
  <2>6. Conn(t, r)
    BY <1>0, <2>2, ConnSame
  <2>7. Conn(t, q)
    BY <2>6 DEF Conn
  <2>8. Look(t) /\ Served(t) /\ RoomKept(s, t)
    BY <1>0, <1>1, <2>3, <2>4 DEF Look, Served, RoomKept, Roomy, Room, InLimbo
  <2> QED
    BY <2>2, <2>3, <2>4, <2>7, <2>8 DEF Good, t
<1>2. CASE s.listeners = <<>>
  <2> DEFINE w == FirstView(s, c)
             F == {"listen", "timer", "aborted", "agg", "stream", "up", "idle"}
             ad == "all"
             token == s.token
  <2>1. s.view = NoView /\ Query \notin DOMAIN s.listen
    BY <1>0, <1>2 DEF Served
  <2>2. Check(w, s.view = NoView) = w
    BY <2>1 DEF Check
  <2>3. t = RemoteListen(w, Query, ad, token)
    BY <1>2, <2>2 DEF AddQueryListener, FirstView, Listening
  <2>4. /\ Shape(w) /\ Alters(s, w, {"listeners", "view", "mail", "raised"})
        /\ w.view # NoView /\ w.view.limbo \subseteq Ads
        /\ \A k, A : c = k + 1 /\ k < MaxCalls /\ Ord(s, k, A) /\ Ready(s)
                       => Ord(w, k + 1, A) /\ Ready(w) /\ w.listeners # <<>>
    BY <1>2, FirstViewIs
  <2> HIDE DEF w, ad, token, t
  <2>5. w.listeners # <<>> /\ TakesOn(s, w, c)
    BY <2>4 DEF TakesOn
  <2>6. /\ w.listen = s.listen /\ w.enqueued = s.enqueued /\ w.active = s.active
        /\ w.lookups = s.lookups /\ w.aborted = s.aborted /\ w.stream = s.stream
        /\ w.online = s.online /\ w.timer = s.timer
    BY <2>4 DEF Alters, Fields
  <2>7. Conn(w, r)
    BY <1>0, <2>4, ConnSame
  <2> DEFINE listen == Put(w.listen, Query, [ad |-> ad, token |-> token])
             qq == r \/ (Query = Query /\ IsStarted(w) /\ w.online = "Unknown" /\ ~w.timer)
  <2>8. /\ Quiet(w, t, F) /\ t.listen = listen /\ t.aborted = w.aborted /\ Conn(t, qq)
    BY <2>1, <2>3, <2>4, <2>6, <2>7, RemoteListenIs
  <2>9. Conn(t, q)
    <3>1. qq => q
      BY <1>2, <2>6 DEF Reuses, IsStarted
    <3> HIDE DEF q, qq
    <3> QED
      BY <2>8, <3>1 DEF Conn
  <2>10. DOMAIN t.listen = DOMAIN s.listen \cup {Query}
    <3> DEFINE new == t.listen
               old == s.listen
               entry == [ad |-> ad, token |-> token]
    <3>1. new = Put(old, Query, entry)
      BY <2>6, <2>8
    <3> HIDE DEF new, old, entry
    <3>2. DOMAIN new = DOMAIN old \cup {Query}
      BY <3>1 DEF Put
    <3> QED
      BY <3>2 DEF new, old
  <2> HIDE DEF listen, qq, q
  <2>11. /\ t.enqueued = s.enqueued /\ t.active = s.active /\ t.lookups = s.lookups
         /\ t.listeners = w.listeners /\ SameView(w.view, t.view) /\ Shape(t)
    BY <2>6, <2>8 DEF Quiet, Alters, Fields, Broadcast
  <2>12. TakesOn(s, t, c)
    BY <2>5, <2>8 DEF TakesOn, Quiet
  <2>13. Look(t) /\ Served(t)
    BY <1>0, <2>1, <2>4, <2>5, <2>10, <2>11 DEF Look, Served, SameView
  <2>14. RoomKept(s, t)
    BY <2>1, <2>11 DEF RoomKept, Roomy, Room, InLimbo
  <2> QED
    BY <2>6, <2>8, <2>9, <2>11, <2>12, <2>13, <2>14 DEF Good, t, q
<1> QED
  BY <1>1, <1>2

\* The listener of an answered call leaves.
Leaves(s, c) == [s EXCEPT !.listeners = Only(@, Calls \ {c}), !.raised = @ \ {c}]

LEMMA LeavesIs ==
    ASSUME NEW s, Shape(s), NEW c
    PROVE  LET t == Leaves(s, c)
           IN /\ Shape(t) /\ Alters(s, t, {"listeners", "raised"})
              /\ \A k, A : c \in A /\ Ord(s, k, A) =>
                    /\ Ord(t, k, A) /\ (Ready(s) => Ready(t))
                    /\ s.listeners = <<>> => t.listeners = <<>>
<1> DEFINE t == Leaves(s, c)
           set == Calls \ {c}
<1>1. /\ Shape(t) /\ Alters(s, t, {"listeners", "raised"})
      /\ t.listeners = Only(s.listeners, set) /\ t.raised = s.raised \ {c}
  BY DEF Leaves, Shape, Alters, Fields
<1> HIDE DEF t
<1>2. t.mail = s.mail /\ t.view = s.view /\ t.online = s.online
  BY <1>1 DEF Alters, Fields
<1>3. ASSUME NEW k, NEW A, c \in A, Ord(s, k, A)
      PROVE  /\ Ord(t, k, A) /\ (Ready(s) => Ready(t))
             /\ s.listeners = <<>> => t.listeners = <<>>
  <2>1. /\ k \in 0..MaxCalls /\ MaxCalls \in Nat
        /\ IsSeq(s.listeners) /\ Range(s.listeners) \subseteq 1..k /\ Ascending(s.listeners)
    BY <1>3, BoundsAssumption DEF Ord
  <2> DEFINE old == s.listeners
             all == t.listeners
  <2>2. IsSeq(old) /\ Range(old) \subseteq Nat /\ Ascending(old) /\ all = Only(old, set)
    BY <1>1, <2>1
  <2>3. Range(old) \subseteq Calls
    BY <2>1 DEF Calls
  <2> HIDE DEF old, all, set
  <2>4. IsSeq(all) /\ Range(all) = Range(old) \cap set /\ Ascending(all)
    BY <2>2, OnlyIs
  <2>5. Range(all) = Range(old) \ {c}
    BY <2>3, <2>4 DEF set
  <2>6. Ord(t, k, A)
    BY <1>1, <1>2, <1>3, <2>1, <2>4, <2>5 DEF Ord, Told, old, all
  <2>7. Ready(s) => Ready(t)
    BY <1>1, <1>2, <2>5 DEF Ready, ShouldRaiseInitialEvent, old, all
  <2>8. old = <<>> => all = <<>>
    <3>1. old = <<>> => Range(all) = {}
      BY <2>5, SeqEmpty
    <3> QED
      BY <2>4, <3>1, SeqNil
  <2> QED
    BY <2>6, <2>7, <2>8 DEF old, all
<1> QED
  BY <1>1, <1>3 DEF t

LEMMA StopListeningIs ==
    ASSUME NEW s, NEW r, Shape(s), Conn(s, r), Look(s), s.listeners = <<>>, s.view # NoView,
           Query \in DOMAIN s.listen
    PROVE  LET t == StopListening(s)
           IN /\ Good(t, r) /\ t.aborted = s.aborted
              /\ \A k, A : Ord(s, k, A) => Ord(t, k, A) /\ Ready(t)
              /\ Roomy(s) => Roomy(t)
<1> DEFINE limbo == s.view.limbo
           n == [s EXCEPT !.view = NoView]
           w == RemoteStopListening(n, Query)
           t == StopListening(s)
           F == {"listen", "timer", "failed", "aborted", "agg", "up", "idle"}
<1>1. t = RemoveAndCleanupTarget(w, limbo)
  BY DEF StopListening
<1>2. Shape(n) /\ Alters(s, n, {"view"}) /\ n.view = NoView
  BY DEF Shape, Alters, Fields
<1> HIDE DEF n
<1>3. /\ n.listeners = s.listeners /\ n.raised = s.raised /\ n.mail = s.mail
      /\ n.listen = s.listen /\ n.enqueued = s.enqueued /\ n.active = s.active
      /\ n.lookups = s.lookups /\ n.aborted = s.aborted
  BY <1>2 DEF Alters, Fields
<1>4. Conn(n, r)
  BY <1>2, ConnSame
<1>5. /\ Quiet(n, w, F)
      /\ w.listen = Drop(n.listen, Query)
      /\ Query \in DOMAIN n.listen => w.aborted = n.aborted
      /\ Conn(w, r)
  BY <1>2, <1>4, RemoteStopListeningIs
<1> HIDE DEF w, t
<1>6. /\ Shape(w) /\ w.enqueued = s.enqueued /\ w.active = s.active /\ w.lookups = s.lookups
      /\ w.listeners = s.listeners /\ w.view = NoView
  BY <1>2, <1>3, <1>5 DEF Quiet, Alters, Fields, Broadcast, SameView
<1>7. DOMAIN w.listen = DOMAIN s.listen \ {Query}
  <2> DEFINE new == w.listen
             old == s.listen
  <2>1. new = Drop(old, Query)
    BY <1>3, <1>5
  <2> HIDE DEF new, old
  <2>2. DOMAIN new = DOMAIN old \ {Query}
    BY <2>1 DEF Drop
  <2> QED
    BY <2>2 DEF new, old
<1>8. Look(w)
  BY <1>6, <1>7 DEF Look
<1>9. limbo \subseteq Ads
  BY DEF Look
<1> HIDE DEF limbo
<1>10. /\ Good(t, r) /\ OrdKept(w, t) /\ t.aborted = w.aborted /\ Limbo(w, t, r)
       /\ Room(w) /\ DOMAIN w.active \subseteq limbo => Roomy(t)
  <2>1. Query \notin DOMAIN w.listen
    BY <1>7
  <2> QED
    BY <1>1, <1>5, <1>6, <1>8, <1>9, <2>1, RemoveAndCleanupTargetIs
<1>11. ASSUME NEW k, NEW A, Ord(s, k, A) PROVE Ord(t, k, A) /\ Ready(t)
  <2>1. Ord(n, k, A) /\ Ready(n)
    BY <1>2, <1>3, <1>11 DEF Ord, Told, Ready
  <2> QED
    BY <1>5, <1>10, <2>1 DEF Quiet, OrdKept
<1>12. Roomy(s) => Roomy(t)
  BY <1>6, <1>10 DEF Roomy, Room, InLimbo, limbo
<1> QED
  BY <1>3, <1>5, <1>10, <1>11, <1>12 DEF t

LEMMA RemoveQueryListenerIs ==
    ASSUME NEW s, NEW r, Good(s, r), NEW c, NEW n, NEW B, c \in B, Ord(s, n, B), Ready(s)
    PROVE  LET t == RemoveQueryListener(s, c)
           IN /\ Good(t, r) /\ RoomKept(s, t) /\ t.aborted = s.aborted
              /\ \A k, A : c \in A /\ Ord(s, k, A) /\ Ready(s) => Ord(t, k, A) /\ Ready(t)
<1> DEFINE u == Leaves(s, c)
           t == RemoveQueryListener(s, c)
<1>0. Shape(s) /\ Conn(s, r) /\ Look(s) /\ Served(s)
  BY DEF Good
<1>1. /\ Shape(u) /\ Alters(s, u, {"listeners", "raised"})
      /\ \A k, A : c \in A /\ Ord(s, k, A) =>
            /\ Ord(u, k, A) /\ (Ready(s) => Ready(u))
            /\ s.listeners = <<>> => u.listeners = <<>>
  BY <1>0, LeavesIs
<1>2. t = IF s.listeners # <<>> /\ u.listeners = <<>> THEN StopListening(u) ELSE u
  BY DEF RemoveQueryListener, Leaves
<1> HIDE DEF u, t
<1>3. /\ u.view = s.view /\ u.listen = s.listen /\ u.enqueued = s.enqueued /\ u.active = s.active
      /\ u.lookups = s.lookups /\ u.aborted = s.aborted
  BY <1>1 DEF Alters, Fields
<1>4. Conn(u, r)
  BY <1>0, <1>1, ConnSame
<1>5. Look(u) /\ (Roomy(s) => Roomy(u))
  BY <1>0, <1>3 DEF Look, Roomy, Room, InLimbo
<1>6. s.listeners = <<>> => u.listeners = <<>>
  BY <1>1
<1>7. CASE s.listeners # <<>> /\ u.listeners = <<>>
  <2>1. t = StopListening(u)
    BY <1>2, <1>7
  <2>2. u.view # NoView /\ Query \in DOMAIN u.listen
    BY <1>0, <1>3, <1>7 DEF Served
  <2>3. /\ Good(t, r) /\ t.aborted = u.aborted
        /\ \A k, A : Ord(u, k, A) => Ord(t, k, A) /\ Ready(t)
        /\ Roomy(u) => Roomy(t)
    BY <1>1, <1>4, <1>5, <1>7, <2>1, <2>2, StopListeningIs
  <2> QED
    BY <1>1, <1>3, <1>5, <2>3 DEF RoomKept, t
<1>8. CASE ~(s.listeners # <<>> /\ u.listeners = <<>>)
  <2>1. Good(u, r)
    BY <1>0, <1>1, <1>3, <1>4, <1>5, <1>6, <1>8 DEF Good, Served
  <2> QED
    BY <1>1, <1>2, <1>3, <1>5, <1>8, <2>1 DEF RoomKept, t
<1> QED
  BY <1>7, <1>8

Written(s, mutation, cache) == [s EXCEPT !.mutation = mutation, !.cache = cache]
HandledWell(s, t, r) == Handled(s, t, r) /\ t.aborted = s.aborted

LEMMA WrittenIs ==
    ASSUME NEW s, NEW r, Good(s, r), NEW mutation, NEW cache, NEW changed
    PROVE  HandledWell(s, EmitNewSnapshots(Written(s, mutation, cache), changed, NoChange), r)
<1> DEFINE F == {"mutation", "cache"}
           u == Written(s, mutation, cache)
<1>1. Shape(s) /\ Conn(s, r)
  BY DEF Good
<1>2. Shape(u) /\ Alters(s, u, F) /\ u.aborted = s.aborted
  BY <1>1 DEF Written, Shape, Alters, Fields
<1> HIDE DEF u
<1>3. Conn(u, r)
  BY <1>1, <1>2, ConnSame
<1>4. Quiet(s, u, F)
  BY <1>1, <1>2, QuietFrame
<1>5. F \subseteq Fields \ {"listen", "enqueued", "active", "lookups", "listeners"}
  BY DEF Fields
<1> HIDE DEF F
<1>6. Handled(s, u, r)
  BY <1>3, <1>4, <1>5, QuietHandled
<1> DEFINE tc == NoChange
<1>7. tc = NoChange
  OBVIOUS
<1> HIDE DEF tc
<1> DEFINE w == EmitNewSnapshots(u, changed, tc)
<1>8. /\ Handled(u, w, r) /\ Alters(u, w, LimboF \cup Broadcast)
      /\ u.view = NoView \/ tc = NoChange \/ tc.modified \subseteq u.view.synced \cup tc.added
           => w.aborted = u.aborted
  BY <1>6, EmitNewSnapshotsIs DEF Handled
<1> HIDE DEF w
<1>9. Handled(s, w, r) /\ w.aborted = s.aborted
  BY <1>2, <1>6, <1>7, <1>8, HandledThen
<1> QED
  BY <1>9 DEF HandledWell, w, tc, u

LEMMA WriteLocallyIs ==
    ASSUME NEW s, NEW r, Good(s, r), NEW d, NEW text
    PROVE  LET t == WriteLocally(s, d, text) IN Handled(s, t, r) /\ t.aborted = s.aborted
<1> DEFINE mutation == [made |-> TRUE, ad |-> d, data |-> text]
           cache == s.cache
           changed == {d}
           u == Written(s, mutation, cache)
           t == WriteLocally(s, d, text)
<1>1. Shape(s)
  BY DEF Good
<1>2. [s EXCEPT !.mutation = mutation] = u
  BY <1>1 DEF Written, Shape, Fields
<1>3. t = EmitNewSnapshots(u, changed, NoChange)
  BY <1>2 DEF WriteLocally
<1> HIDE DEF mutation, cache, changed, t
<1>4. HandledWell(s, t, r)
  BY <1>3, WrittenIs
<1> QED
  BY <1>4 DEF HandledWell, t

LEMMA AcknowledgeBatchIs ==
    ASSUME NEW s, NEW r, Good(s, r), NEW version
    PROVE  LET t == AcknowledgeBatch(s, version) IN Handled(s, t, r) /\ t.aborted = s.aborted
<1> DEFINE d == s.mutation.ad
           doc == [at |-> version, data |-> s.mutation.data, committed |-> TRUE]
           mutation == [made |-> FALSE]
           cache == [s.cache EXCEPT ![d] = IF @.at < version THEN doc ELSE @]
           changed == {d}
           u == Written(s, mutation, cache)
           t == AcknowledgeBatch(s, version)
<1>1. Shape(s)
  BY DEF Good
<1>2. [s EXCEPT !.mutation = [made |-> FALSE],
                !.cache[d] = IF @.at < version THEN doc ELSE @] = u
  BY <1>1 DEF Written, Shape, Fields
<1>3. t = EmitNewSnapshots(u, changed, NoChange)
  BY <1>2 DEF AcknowledgeBatch
<1> HIDE DEF mutation, cache, changed, t
<1>4. HandledWell(s, t, r)
  BY <1>3, WrittenIs
<1> QED
  BY <1>4 DEF HandledWell, t

LEMMA RejectBatchIs ==
    ASSUME NEW s, NEW r, Good(s, r)
    PROVE  LET t == RejectBatch(s) IN Handled(s, t, r) /\ t.aborted = s.aborted
<1> DEFINE mutation == [made |-> FALSE]
           cache == s.cache
           changed == {s.mutation.ad}
           u == Written(s, mutation, cache)
           t == RejectBatch(s)
<1>1. Shape(s)
  BY DEF Good
<1>2. [s EXCEPT !.mutation = mutation] = u
  BY <1>1 DEF Written, Shape, Fields
<1>3. t = EmitNewSnapshots(u, changed, NoChange)
  BY <1>2 DEF RejectBatch
<1> HIDE DEF mutation, cache, changed, t
<1>4. HandledWell(s, t, r)
  BY <1>3, WrittenIs
<1> QED
  BY <1>4 DEF HandledWell, t

-----------------------------------------------------------------------------
(* The queues between the two threads                                       *)

\* The tasks of n calls, those up to k having been taken on and those of A answered.
QueueOk(q, k, n, A) ==
  /\ IsSeq(q) /\ k \in 0..n /\ n \in Nat
  /\ \A i \in 1..Len(q) : q[i].type \in {"listen", "remove", "write"}
  /\ \A i \in 1..Len(q) : q[i].type = "remove" => q[i].call \in A
  /\ \A i \in 1..Len(q) : q[i].type = "listen" => q[i].call \in (k + 1)..n
  /\ \A i, j \in 1..Len(q) :
        i < j /\ q[i].type = "listen" /\ q[j].type = "listen" => q[i].call < q[j].call
  /\ \A c \in (k + 1)..n : \E i \in 1..Len(q) : q[i].type = "listen" /\ q[i].call = c

LEMMA QueueTail ==
    ASSUME NEW q, NEW k, NEW n, NEW A, QueueOk(q, k, n, A), q # <<>>
    PROVE  /\ Head(q).type \in {"listen", "remove", "write"}
           /\ Head(q).type = "remove" => Head(q).call \in A
           /\ Head(q).type = "listen" => /\ Head(q).call = k + 1 /\ k < n
                                         /\ QueueOk(Tail(q), k + 1, n, A)
           /\ Head(q).type # "listen" => QueueOk(Tail(q), k, n, A)
<1> DEFINE p == Tail(q)
           m == Head(q)
           l == Len(q)
<1>1. /\ IsSeq(p) /\ Len(p) = l - 1 /\ l \in Nat \ {0}
      /\ \A i \in 1..Len(p) : p[i] = q[i + 1]
      /\ m = q[1]
  <2>1. IsSeq(q) /\ q # <<>>
    BY DEF QueueOk
  <2> QED
    BY <2>1, SeqTail
<1> HIDE DEF p, m, l
<1>2. 1 \in 1..l /\ (\A i \in 1..(l - 1) : i + 1 \in 1..l /\ i \in 1..l)
  BY <1>1
<1>3. m.type \in {"listen", "remove", "write"} /\ (m.type = "remove" => m.call \in A)
  BY <1>1, <1>2 DEF QueueOk, l
<1>4. k \in 0..n /\ n \in Nat
  BY DEF QueueOk
<1>5. \A i \in 1..l : i = 1 \/ (i - 1 \in 1..(l - 1) /\ q[i] = p[i - 1])
  BY <1>1
<1>8. \A a, b \in 1..(l - 1) :
         a < b /\ p[a].type = "listen" /\ p[b].type = "listen" => p[a].call < p[b].call
  <2> SUFFICES ASSUME NEW a \in 1..(l - 1), NEW b \in 1..(l - 1), a < b, p[a].type = "listen",
                      p[b].type = "listen"
               PROVE  p[a].call < p[b].call
    OBVIOUS
  <2>1. a + 1 \in 1..l /\ b + 1 \in 1..l /\ a + 1 < b + 1
    BY <1>1
  <2>2. p[a] = q[a + 1] /\ p[b] = q[b + 1]
    BY <1>1
  <2> QED
    BY <2>1, <2>2 DEF QueueOk, l
<1>9. ASSUME NEW j \in 1..(l - 1)
      PROVE  /\ p[j].type \in {"listen", "remove", "write"}
             /\ p[j].type = "remove" => p[j].call \in A
             /\ p[j].type = "listen" => p[j].call \in (k + 1)..n
  <2>1. p[j] = q[j + 1] /\ j + 1 \in 1..l
    BY <1>1
  <2> QED
    BY <2>1 DEF QueueOk, l
<1>6. ASSUME m.type = "listen"
      PROVE  m.call = k + 1 /\ k < n /\ QueueOk(p, k + 1, n, A)
  <2>1. m.call \in (k + 1)..n
    BY <1>1, <1>2, <1>6 DEF QueueOk, l
  <2>2. PICK i \in 1..l : q[i].type = "listen" /\ q[i].call = k + 1
    <3>1. k + 1 \in (k + 1)..n
      BY <1>4, <2>1
    <3> QED
      BY <3>1 DEF QueueOk, l
  <2>3. m.call = k + 1
    <3>1. i # 1 => q[1].call < q[i].call
      BY <1>1, <1>2, <1>6, <2>2 DEF QueueOk, l
    <3> QED
      BY <1>1, <1>4, <2>1, <2>2, <3>1
  <2>4. \A j \in 1..(l - 1) : p[j].type = "listen" => p[j].call \in (k + 2)..n
    <3> SUFFICES ASSUME NEW j \in 1..(l - 1), p[j].type = "listen" PROVE p[j].call \in (k + 2)..n
      OBVIOUS
    <3>1. p[j] = q[j + 1] /\ j + 1 \in 1..l /\ 1 < j + 1
      BY <1>1, <1>2
    <3>2. q[1].call < q[j + 1].call
      BY <1>1, <1>2, <1>6, <3>1 DEF QueueOk, l
    <3>3. q[j + 1].call \in (k + 1)..n
      BY <3>1 DEF QueueOk, l
    <3> QED
      BY <1>1, <1>4, <2>3, <3>1, <3>2, <3>3
  <2>5. \A c \in (k + 2)..n : \E j \in 1..(l - 1) : p[j].type = "listen" /\ p[j].call = c
    <3> SUFFICES ASSUME NEW c \in (k + 2)..n
                 PROVE  \E j \in 1..(l - 1) : p[j].type = "listen" /\ p[j].call = c
      OBVIOUS
    <3>1. c \in (k + 1)..n /\ c # k + 1
      BY <1>4
    <3>2. PICK j \in 1..l : q[j].type = "listen" /\ q[j].call = c
      BY <3>1 DEF QueueOk, l
    <3>3. j # 1
      BY <1>1, <2>3, <3>1, <3>2
    <3> QED
      BY <1>5, <3>2, <3>3
  <2>6. k + 1 \in 0..n /\ k < n /\ (k + 1) + 1 = k + 2
    BY <1>4, <2>1
  <2>7. /\ \A j \in 1..(l - 1) : p[j].type \in {"listen", "remove", "write"}
        /\ \A j \in 1..(l - 1) : p[j].type = "remove" => p[j].call \in A
    BY <1>9
  <2> QED
    BY <1>1, <1>4, <1>8, <2>3, <2>4, <2>5, <2>6, <2>7 DEF QueueOk
<1>7. ASSUME m.type # "listen" PROVE QueueOk(p, k, n, A)
  <2>1. /\ \A j \in 1..(l - 1) : p[j].type \in {"listen", "remove", "write"}
        /\ \A j \in 1..(l - 1) : p[j].type = "remove" => p[j].call \in A
        /\ \A j \in 1..(l - 1) : p[j].type = "listen" => p[j].call \in (k + 1)..n
    BY <1>9
  <2>2. \A c \in (k + 1)..n : \E j \in 1..(l - 1) : p[j].type = "listen" /\ p[j].call = c
    <3> SUFFICES ASSUME NEW c \in (k + 1)..n
                 PROVE  \E j \in 1..(l - 1) : p[j].type = "listen" /\ p[j].call = c
      OBVIOUS
    <3>2. PICK j \in 1..l : q[j].type = "listen" /\ q[j].call = c
      BY DEF QueueOk, l
    <3>3. j # 1
      BY <1>1, <1>7, <3>2
    <3> QED
      BY <1>5, <3>2, <3>3
  <2> QED
    BY <1>1, <1>4, <1>8, <2>1, <2>2 DEF QueueOk
<1> QED
  BY <1>3, <1>6, <1>7 DEF p, m

LEMMA QueueAppend ==
    ASSUME NEW q, NEW k, NEW n, NEW A, QueueOk(q, k, n, A), NEW m
    PROVE  /\ m.type = "listen" /\ m.call = n + 1 => QueueOk(Append(q, m), k, n + 1, A)
           /\ m.type = "write" \/ (m.type = "remove" /\ m.call \in A) => QueueOk(Append(q, m), k, n, A)
<1> DEFINE p == Append(q, m)
           l == Len(q)
<1>1. /\ IsSeq(p) /\ Len(p) = l + 1 /\ l \in Nat
      /\ \A i \in 1..l : p[i] = q[i]
      /\ p[l + 1] = m
  <2>1. IsSeq(q)
    BY DEF QueueOk
  <2> QED
    BY <2>1, SeqAppend, SeqFacts
<1> HIDE DEF p, l
<1>2. \A i \in 1..(l + 1) : i \in 1..l \/ i = l + 1
  BY <1>1
<1>3. l + 1 \in 1..(l + 1) /\ \A i \in 1..l : i \in 1..(l + 1) /\ i < l + 1
  BY <1>1
<1>4. k \in 0..n /\ n \in Nat /\ n + 1 \in Nat /\ k \in 0..(n + 1)
  BY DEF QueueOk
<1>5. ASSUME m.type = "listen", m.call = n + 1 PROVE QueueOk(p, k, n + 1, A)
  <2>1. /\ \A i \in 1..(l + 1) : p[i].type \in {"listen", "remove", "write"}
        /\ \A i \in 1..(l + 1) : p[i].type = "remove" => p[i].call \in A
    BY <1>1, <1>2, <1>5 DEF QueueOk, l
  <2>2. \A i \in 1..l : p[i].type = "listen" => p[i].call \in (k + 1)..n
    BY <1>1 DEF QueueOk, l
  <2>3. \A i \in 1..(l + 1) : p[i].type = "listen" => p[i].call \in (k + 1)..(n + 1)
    BY <1>1, <1>2, <1>4, <1>5, <2>2
  <2>4. ASSUME NEW i \in 1..(l + 1), NEW j \in 1..(l + 1), i < j, p[i].type = "listen",
               p[j].type = "listen"
        PROVE  p[i].call < p[j].call
    <3>1. i \in 1..l
      BY <1>1, <1>2, <2>4
    <3>2. CASE j \in 1..l
      BY <1>1, <2>4, <3>1, <3>2 DEF QueueOk, l
    <3>3. CASE j = l + 1
      BY <1>1, <1>4, <1>5, <2>2, <2>4, <3>1, <3>3
    <3> QED
      BY <1>2, <3>2, <3>3
  <2>5. ASSUME NEW c \in (k + 1)..(n + 1)
        PROVE  \E i \in 1..(l + 1) : p[i].type = "listen" /\ p[i].call = c
    <3>1. CASE c = n + 1
      BY <1>1, <1>3, <1>5, <3>1
    <3>2. CASE c # n + 1
      <4>1. c \in (k + 1)..n
        BY <1>4, <3>2
      <4>2. PICK i \in 1..l : q[i].type = "listen" /\ q[i].call = c
        BY <4>1 DEF QueueOk, l
      <4> QED
        BY <1>1, <1>3, <4>2
    <3> QED
      BY <3>1, <3>2
  <2> QED
    BY <1>1, <1>4, <2>1, <2>3, <2>4, <2>5 DEF QueueOk
<1>6. ASSUME m.type = "write" \/ (m.type = "remove" /\ m.call \in A) PROVE QueueOk(p, k, n, A)
  <2>1. /\ \A i \in 1..(l + 1) : p[i].type \in {"listen", "remove", "write"}
        /\ \A i \in 1..(l + 1) : p[i].type = "remove" => p[i].call \in A
        /\ \A i \in 1..(l + 1) : p[i].type = "listen" => p[i].call \in (k + 1)..n
    BY <1>1, <1>2, <1>6 DEF QueueOk, l
  <2>2. \A i, j \in 1..(l + 1) :
           i < j /\ p[i].type = "listen" /\ p[j].type = "listen" => p[i].call < p[j].call
    <3> SUFFICES ASSUME NEW i \in 1..(l + 1), NEW j \in 1..(l + 1), i < j, p[i].type = "listen",
                        p[j].type = "listen"
                 PROVE  p[i].call < p[j].call
      OBVIOUS
    <3>1. i # l + 1 /\ j # l + 1
      BY <1>1, <1>6
    <3>2. i \in 1..l /\ j \in 1..l
      BY <1>2, <3>1
    <3> QED
      BY <1>1, <3>2 DEF QueueOk, l
  <2>3. \A c \in (k + 1)..n : \E i \in 1..(l + 1) : p[i].type = "listen" /\ p[i].call = c
    <3> SUFFICES ASSUME NEW c \in (k + 1)..n
                 PROVE  \E i \in 1..(l + 1) : p[i].type = "listen" /\ p[i].call = c
      OBVIOUS
    <3>2. PICK i \in 1..l : q[i].type = "listen" /\ q[i].call = c
      BY DEF QueueOk, l
    <3> QED
      BY <1>1, <1>3, <3>2
  <2> QED
    BY <1>1, <1>4, <2>1, <2>2, <2>3 DEF QueueOk
<1> QED
  BY <1>5, <1>6 DEF p

LEMMA QueueMore ==
    ASSUME NEW q, NEW k, NEW n, NEW A, NEW B, QueueOk(q, k, n, A), A \subseteq B
    PROVE  QueueOk(q, k, n, B)
BY DEF QueueOk

\* The calls of A are answered in their order.
InTurn(A, k) == \A c \in A : c \in 1..k /\ \A e \in 1..c : e \in A

\* An event leaves the queue; its call counts as answered from then on.
LEMMA MailTail ==
    ASSUME NEW s, NEW k, NEW A, Ord(s, k, A), Ready(s), s.mail # <<>>,
           NEW t, Alters(s, t, {"mail"}), t.mail = Tail(s.mail), NEW c, c = Head(s.mail).call
    PROVE  /\ Ord(t, k, A \cup {c}) /\ Ready(t) /\ c \in 1..k
           /\ \A e \in 1..(c - 1) : e \in A
<1> DEFINE old == s.mail
           new == t.mail
           n == Len(old)
           B == A \cup {c}
<1>1. /\ k \in Nat /\ IsSeq(old)
  BY DEF Ord
<1>2. /\ IsSeq(new) /\ Len(new) = n - 1 /\ n \in Nat \ {0}
      /\ \A i \in 1..Len(new) : new[i] = old[i + 1]
      /\ Head(old) = old[1]
  <2>1. new = Tail(old) /\ old # <<>>
    OBVIOUS
  <2> HIDE DEF new, old
  <2> QED
    BY <1>1, <2>1, SeqTail
<1>3. c = old[1].call
  BY <1>2
<1>4. /\ \A i \in 1..n :
           /\ old[i].call \in 1..k
           /\ \A e \in 1..(old[i].call - 1) : e \in A \/ \E j \in 1..(i - 1) : old[j].call = e
      /\ \A e \in s.raised : e \in 1..k /\ \A d \in 1..e : Told(s, d, A)
      /\ \A d \in 1..k : d \in Range(s.listeners) \/ Told(s, d, A)
  BY DEF Ord
<1>5. /\ t.listeners = s.listeners /\ t.raised = s.raised /\ t.view = s.view /\ t.online = s.online
  BY DEF Alters, Fields
<1>6. ASSUME NEW e, Told(s, e, A) PROVE Told(t, e, B)
  <2>1. CASE e \in A
    BY <2>1 DEF Told
  <2>2. CASE e \notin A
    <3>1. PICK j \in 1..n : old[j].call = e
      BY <1>6, <2>2 DEF Told
    <3>2. CASE j = 1
      BY <1>3, <3>1, <3>2 DEF Told
    <3>3. CASE j # 1
      <4>1. j - 1 \in 1..(n - 1) /\ (j - 1) + 1 = j
        BY <1>2, <3>3
      <4>2. new[j - 1].call = e
        BY <1>2, <3>1, <4>1
      <4> QED
        BY <1>2, <4>1, <4>2 DEF Told
    <3> QED
      BY <3>2, <3>3
  <2> QED
    BY <2>1, <2>2
<1>7. 1 \in 1..n
  BY <1>2
<1> HIDE DEF n
<1>8. c \in 1..k /\ \A e \in 1..(c - 1) : e \in A
  <2>1. \A j : j \notin 1..0
    OBVIOUS
  <2> QED
    BY <1>3, <1>4, <1>7, <2>1
<1>9. ASSUME NEW i \in 1..(n - 1)
      PROVE  /\ new[i].call \in 1..k
             /\ \A e \in 1..(new[i].call - 1) : e \in B \/ \E j \in 1..(i - 1) : new[j].call = e
  <2>1. new[i] = old[i + 1] /\ i + 1 \in 1..n
    BY <1>2
  <2>2. ASSUME NEW e \in 1..(new[i].call - 1), e \notin B
        PROVE  \E j \in 1..(i - 1) : new[j].call = e
    <3>1. PICK j \in 1..((i + 1) - 1) : old[j].call = e
      BY <1>4, <2>1, <2>2
    <3>2. j # 1
      BY <1>3, <2>2, <3>1
    <3>3. j - 1 \in 1..(i - 1) /\ j - 1 \in 1..(n - 1) /\ (j - 1) + 1 = j
      BY <1>2, <3>2
    <3> QED
      BY <1>2, <3>1, <3>3
  <2> QED
    BY <1>4, <2>1, <2>2
<1>10. Ord(t, k, B)
  <2>1. /\ k \in 0..MaxCalls
        /\ IsSeq(s.listeners) /\ Range(s.listeners) \subseteq 1..k /\ Ascending(s.listeners)
    BY DEF Ord
  <2>2. \A e \in t.raised : e \in 1..k /\ \A d \in 1..e : Told(t, d, B)
    BY <1>4, <1>5, <1>6
  <2>3. \A d \in 1..k : d \in Range(t.listeners) \/ Told(t, d, B)
    BY <1>4, <1>5, <1>6
  <2> HIDE DEF B
  <2> QED
    BY <1>2, <1>5, <1>9, <2>1, <2>2, <2>3 DEF Ord
<1>11. Ready(t)
  BY <1>5 DEF Ready, ShouldRaiseInitialEvent
<1> QED
  BY <1>8, <1>10, <1>11

-----------------------------------------------------------------------------
(* What the backend says                                                    *)

IsReply(q) == IsSeq(q) /\ \A m \in Range(q) : MessageOk(m)

LEMMA ReplyJoined ==
    ASSUME NEW p, NEW q, IsReply(p), IsReply(q)
    PROVE  IsReply(p \o q)
<1>1. /\ IsSeq(Joined(p, q)) /\ Len(Joined(p, q)) = Len(p) + Len(q)
      /\ \A i \in 1..Len(p) : Joined(p, q)[i] = p[i]
      /\ \A i \in 1..Len(q) : Joined(p, q)[Len(p) + i] = q[i]
  BY JoinedIs DEF IsReply
<1> DEFINE r == Joined(p, q)
           n == Len(p)
           l == Len(q)
<1>2. n \in Nat /\ l \in Nat /\ DOMAIN r = 1..(n + l) /\ DOMAIN p = 1..n /\ DOMAIN q = 1..l
  <2>1. IsSeq(p) /\ IsSeq(q) /\ IsSeq(r)
    BY <1>1 DEF IsReply
  <2> QED
    BY <1>1, <2>1, SeqFacts
<1> HIDE DEF n, l, r
<1>3. ASSUME NEW i \in 1..(n + l) PROVE MessageOk(r[i])
  <2>1. CASE i \in 1..n
    <3>1. r[i] = p[i] /\ p[i] \in Range(p)
      BY <1>1, <1>2, <2>1 DEF Range, n, r
    <3> QED
      BY <3>1 DEF IsReply
  <2>2. CASE i \notin 1..n
    <3>1. i - n \in 1..l /\ n + (i - n) = i
      BY <1>2, <2>2
    <3>2. r[i] = q[i - n] /\ q[i - n] \in Range(q)
      BY <1>1, <1>2, <3>1 DEF Range, n, l, r
    <3> QED
      BY <3>2 DEF IsReply
  <2> QED
    BY <2>1, <2>2
<1>4. IsReply(r)
  BY <1>1, <1>2, <1>3 DEF IsReply, Range, r
<1> QED
  BY <1>4 DEF r, Joined

LEMMA ReplyOne == ASSUME NEW m, MessageOk(m) PROVE IsReply(<<m>>)
BY SeqOne DEF IsReply

LEMMA SayReply ==
    ASSUME NEW type, NEW x, type \in {"added", "removed", "current", "reset", "rejected"}
    PROVE  IsReply(Say(type, x))
<1> DEFINE m == [type |-> type, target |-> x]
<1>1. MessageOk(m)
  BY DEF MessageOk, MessageTypes
<1> HIDE DEF m
<1>2. IsReply(<<m>>)
  BY <1>1, ReplyOne
<1> QED
  BY <1>2 DEF Say, m

LEMMA FilterReply == ASSUME NEW x, NEW ad PROVE IsReply(Filter(x, ad))
<1> DEFINE m == [type |-> "filter", target |-> x,
                 count |-> Cardinality({d \in Scope(ad) : Live(d, Now)})]
<1>1. MessageOk(m)
  BY DEF MessageOk, MessageTypes
<1>2. Filter(x, ad) = <<m>>
  BY DEF Filter
<1> HIDE DEF m
<1> QED
  BY <1>1, <1>2, ReplyOne

LEMMA ScopeFinite == ASSUME NEW ad PROVE IsFiniteSet(Scope(ad))
BY FS_Singleton, BoundsAssumption DEF Scope

LEMMA DocsReply ==
    ASSUME NEW x, NEW ad, NEW ds, ds \subseteq Scope(ad)
    PROVE  IsReply(Docs(x, ds))
<1> DEFINE docs == [d \in ds |-> board[Now][d]]
           m == [type |-> "docs", target |-> x, docs |-> docs]
<1>1. IsFiniteSet(ds)
  BY ScopeFinite, FS_Subset
<1>2. DOMAIN docs = ds
  OBVIOUS
<1>3. Docs(x, ds) = IF ds = {} THEN <<>> ELSE <<m>>
  BY DEF Docs
<1> HIDE DEF docs
<1>4. MessageOk(m)
  BY <1>1, <1>2 DEF MessageOk, MessageTypes
<1>5. IsReply(<<>>)
  BY SeqEmpty DEF IsReply
<1> HIDE DEF m
<1>6. IsReply(<<m>>)
  BY <1>4, ReplyOne
<1> QED
  BY <1>3, <1>5, <1>6

LEMMA WatchAnswersAre ==
    ASSUME NEW m, NEW reply \in WatchAnswers(m)
    PROVE  IsReply(reply)
<1> DEFINE x == m.target
           changed == Added(m.ad, m.token)
           gone == Removed(m.ad, m.token)
           every == Added(m.ad, 0)
           ads == changed \cup gone
           added == Docs(x, changed)
           all == Docs(x, ads)
           current == Say("current", x)
           whole == Docs(x, every)
           filter == Filter(x, m.ad)
           first == Say("added", x)
           reset == Say("reset", x)
           no == Say("rejected", x)
<1>1. changed \subseteq Scope(m.ad) /\ ads \subseteq Scope(m.ad) /\ every \subseteq Scope(m.ad)
  BY DEF Added, Removed
<1>2. \/ reply = no
      \/ reply = (first \o all) \o current
      \/ reply = ((first \o added) \o filter) \o current
      \/ reply = ((first \o added) \o current) \o filter
      \/ reply = ((first \o reset) \o whole) \o current
  BY DEF WatchAnswers
<1> HIDE DEF changed, ads, every
<1>3. IsReply(added) /\ IsReply(all) /\ IsReply(whole)
  BY <1>1, DocsReply
<1>4. IsReply(current) /\ IsReply(first) /\ IsReply(no) /\ IsReply(reset)
  BY SayReply
<1>5. IsReply(filter)
  BY FilterReply
<1> HIDE DEF x, added, all, whole, current, filter, first, reset, no
<1>6. IsReply(first \o all) /\ IsReply(first \o added) /\ IsReply(first \o reset)
  BY <1>3, <1>4, ReplyJoined
<1>7. IsReply((first \o all) \o current)
  BY <1>4, <1>6, ReplyJoined
<1>8. IsReply((first \o added) \o filter) /\ IsReply((first \o added) \o current)
  BY <1>4, <1>5, <1>6, ReplyJoined
<1>9. IsReply(((first \o added) \o filter) \o current)
  BY <1>4, <1>8, ReplyJoined
<1>10. IsReply(((first \o added) \o current) \o filter)
  BY <1>5, <1>8, ReplyJoined
<1>11. IsReply((first \o reset) \o whole)
  BY <1>3, <1>6, ReplyJoined
<1>12. IsReply(((first \o reset) \o whole) \o current)
  BY <1>4, <1>11, ReplyJoined
<1> QED
  BY <1>2, <1>4, <1>7, <1>9, <1>10, <1>12

Telling == INSTANCE FoldLemmas WITH Step <- LAMBDA p, t, acc : acc \o News(t)

LEMMA NewsLoop ==
    ASSUME NEW S
    PROVE  AllNews(S) = Telling!Loop(0, <<>>, S)
BY DEF AllNews, Telling!Loop, FoldSet, MapThenFoldSet, Telling!FoldSet, Telling!MapThenFoldSet

LEMMA NewsKeep ==
    ASSUME NEW S, IsFiniteSet(S)
    PROVE  \E R : /\ <<{}, <<>> >> \in R
                  /\ \A V : /\ <<{}, <<>> >> \in V
                            /\ \A done, acc, x :
                                  /\ <<done, acc>> \in V /\ done \subseteq S /\ x \in S \ done
                                  /\ <<done \cup {x}, acc \o News(x)>> \in R
                                  => <<done \cup {x}, acc \o News(x)>> \in V
                            => <<S, Telling!Loop(0, <<>>, S)>> \in V
<1>1. \E n \in Nat : \E f \in [1..n -> S] : \A x \in S : \E i \in 1..n : f[i] = x
  BY CanBeListed
<1> QED
  BY <1>1, Telling!LoopKeeps

LEMMA AllNewsReply ==
    ASSUME NEW S, IsFiniteSet(S)
    PROVE  IsReply(AllNews(S))
<1> DEFINE after == Telling!Loop(0, <<>>, S)
           nil == <<>>
<1>0. AllNews(S) = after
  BY NewsLoop
<1>1. PICK R : /\ <<{}, nil>> \in R
               /\ \A V : /\ <<{}, nil>> \in V
                         /\ \A done, acc, x :
                               /\ <<done, acc>> \in V /\ done \subseteq S /\ x \in S \ done
                               /\ <<done \cup {x}, acc \o News(x)>> \in R
                               => <<done \cup {x}, acc \o News(x)>> \in V
                         => <<S, after>> \in V
  BY NewsKeep
<1> HIDE DEF after
<1> DEFINE V == {v \in R : IsReply(v[2])}
<1>2. IsReply(nil)
  BY SeqEmpty DEF IsReply
<1> HIDE DEF nil
<1>3. \A acc, x : IsReply(acc) => IsReply(acc \o News(x))
  <2> SUFFICES ASSUME NEW acc, NEW x, IsReply(acc) PROVE IsReply(acc \o News(x))
    OBVIOUS
  <2> DEFINE b == backend.served[x]
             ads == Added(b.ad, b.at) \cup Removed(b.ad, b.at)
  <2>1. ads \subseteq Scope(b.ad)
    BY DEF Added, Removed
  <2>2. News(x) = Docs(x, ads)
    BY DEF News
  <2> HIDE DEF ads
  <2>3. IsReply(News(x))
    BY <2>1, <2>2, DocsReply
  <2> QED
    BY <2>3, ReplyJoined
<1>4. <<S, after>> \in V
  BY <1>1, <1>2, <1>3
<1>5. IsReply(after)
  BY <1>4
<1> QED
  BY <1>0, <1>5

-----------------------------------------------------------------------------
(* The invariant                                                            *)

Done == {c \in Calls : answer[c] # Waiting}

\* The calls up to k have been taken on by the worker queue.
Turn(k) == /\ Ord(client, k, Done) /\ Ready(client)
           /\ QueueOk(tasks, k, Len(asked), Done) /\ InTurn(Done, k)

CallsInv == /\ IsSeq(asked) /\ Len(asked) \in 0..MaxCalls /\ DOMAIN answer = Calls
            /\ \A c \in Calls : answer[c].kind \in {"waiting", "error", "server", "cache"}
\* The backend serves targets only on a stream that is open.
BackendInv == /\ DOMAIN backend = {"served", "due", "refuses"}
              /\ IsFiniteSet(DOMAIN backend.served)
              /\ client.stream # "Open" => DOMAIN backend.served = {}
SpentInv == DOMAIN spent = {"faults", "reused", "stopped"} /\ spent.reused \in BOOLEAN
RoomInv == RoomEnough => Roomy(client)
OrderInv == \E k \in Nat : Turn(k)

IInv == /\ Good(client, spent.reused) /\ RoomInv /\ OrderInv
        /\ CallsInv /\ BackendInv /\ SpentInv

LEMMA WorkerBackend ==
    ASSUME BackendInv, NEW t, Worker(t)
    PROVE  BackendInv' /\ client' = t
<1>1. IsFiniteSet(DOMAIN NoStates) /\ DOMAIN NoStates = {}
  BY NoStatesIs
<1>2. backend' = backend \/ backend' = [backend EXCEPT !.served = NoStates, !.due = FALSE]
  BY DEF Worker
<1>3. CASE backend' = backend
  BY <1>1, <1>3 DEF BackendInv, Worker
<1>4. CASE backend' = [backend EXCEPT !.served = NoStates, !.due = FALSE]
  <2> DEFINE none == NoStates
  <2>1. backend' = [backend EXCEPT !.served = none, !.due = FALSE]
       /\ IsFiniteSet(DOMAIN none) /\ DOMAIN none = {}
    BY <1>1, <1>4
  <2> HIDE DEF none
  <2>2. DOMAIN backend' = {"served", "due", "refuses"} /\ backend'.served = none
    BY <2>1 DEF BackendInv
  <2> QED
    BY <2>1, <2>2 DEF BackendInv, Worker
<1> QED
  BY <1>2, <1>3, <1>4

\* A task of the worker queue that takes on no call.
LEMMA WorkerIInv ==
    ASSUME IInv, NEW t, Worker(t), SpentInv', Handled(client, t, spent'.reused),
           UNCHANGED <<tasks, asked, answer>>
    PROVE  IInv'
<1>1. BackendInv' /\ client' = t
  BY WorkerBackend DEF IInv
<1>2. Good(client', spent'.reused) /\ OrdKept(client, client') /\ RoomKept(client, client')
  BY <1>1 DEF Handled
<1>3. RoomInv'
  BY <1>2 DEF RoomKept, RoomInv, IInv, RoomEnough
<1>4. Done' = Done
  BY DEF Done, Waiting
<1>5. OrderInv'
  <2>1. PICK k \in Nat : Turn(k)
    BY DEF IInv, OrderInv
  <2>2. Ord(client', k, Done) /\ Ready(client')
    BY <1>2, <2>1 DEF OrdKept, Turn
  <2>3. Turn(k)'
    BY <1>4, <2>1, <2>2 DEF Turn
  <2> QED
    BY <2>3 DEF OrderInv
<1>6. CallsInv'
  BY DEF IInv, CallsInv
<1> QED
  BY <1>1, <1>2, <1>3, <1>5, <1>6 DEF IInv

LEMMA SpentSame == ASSUME SpentInv, UNCHANGED spent PROVE SpentInv' /\ spent'.reused = spent.reused
BY DEF SpentInv

LEMMA SpentFault ==
    ASSUME SpentInv, NEW n, spent' = [spent EXCEPT !.faults = n]
    PROVE  SpentInv' /\ spent'.reused = spent.reused
BY DEF SpentInv

LEMMA SpentStop ==
    ASSUME SpentInv, NEW n, NEW b, spent' = [spent EXCEPT !.faults = n, !.stopped = b]
    PROVE  SpentInv' /\ spent'.reused = spent.reused /\ spent'.stopped = b
BY DEF SpentInv

LEMMA GoodParts ==
    ASSUME IInv
    PROVE  /\ Good(client, spent.reused) /\ Shape(client) /\ Conn(client, spent.reused)
           /\ Look(client) /\ Served(client) /\ SpentInv
BY DEF IInv, Good

LEMMA ResumeStartKeeps == ASSUME IInv, ResumeStartWithCredentials PROVE IInv'
<1> DEFINE t == OnWatchStreamOpen(client)
           F == {"stream", "agg", "up", "idle"}
           r == spent.reused
<1>1. Worker(t) /\ UNCHANGED <<tasks, asked, answer, spent>> /\ client.stream = "Starting"
  BY DEF ResumeStartWithCredentials
<1>2. Quiet(client, t, F) /\ Conn(t, r)
  BY <1>1, GoodParts, OnWatchStreamOpenIs
<1>3. F \subseteq Fields \ {"listen", "enqueued", "active", "lookups", "listeners"}
  BY DEF Fields
<1> HIDE DEF t, F
<1>4. Handled(client, t, r)
  BY <1>2, <1>3, GoodParts, QuietHandled
<1>5. SpentInv' /\ spent'.reused = r
  BY <1>1, GoodParts, SpentSame
<1> QED
  BY <1>1, <1>4, <1>5, WorkerIInv

LEMMA OnStreamFinishKeeps == ASSUME IInv, OnStreamFinish PROVE IInv'
<1> DEFINE t == CloseWithError(client)
           F == {"stream", "idle", "up", "down", "agg", "timer", "failed", "aborted"}
           r == spent.reused
           n == IF client.online = "Online" THEN spent.faults + 1 ELSE spent.faults
<1>1. Worker(t) /\ UNCHANGED <<tasks, asked, answer>> /\ client.stream \in {"Starting", "Open"}
  BY DEF OnStreamFinish
<1>a. spent' = [spent EXCEPT !.faults = n]
  BY GoodParts DEF OnStreamFinish, SpentInv
<1>2. Quiet(client, t, F) /\ Conn(t, r)
  <2>1. IsStarted(client)
    BY <1>1 DEF IsStarted
  <2> QED
    BY <2>1, GoodParts, CloseWithErrorIs
<1>3. F \subseteq Fields \ {"listen", "enqueued", "active", "lookups", "listeners"}
  BY DEF Fields
<1> HIDE DEF t, F, n
<1>4. Handled(client, t, r)
  BY <1>2, <1>3, GoodParts, QuietHandled
<1>5. SpentInv' /\ spent'.reused = r
  BY <1>a, GoodParts, SpentFault
<1> QED
  BY <1>1, <1>4, <1>5, WorkerIInv

LEMMA BackoffElapsedKeeps == ASSUME IInv, BackoffElapsed PROVE IInv'
<1> DEFINE t == [client EXCEPT !.stream = "Starting"]
           F == {"stream"}
           r == spent.reused
<1>1. Worker(t) /\ UNCHANGED <<tasks, asked, answer, spent>> /\ client.stream = "Backoff"
  BY DEF BackoffElapsed
<1>2. Shape(t) /\ Alters(client, t, F) /\ t.stream = "Starting"
  BY GoodParts DEF Shape, Alters, Fields
<1> HIDE DEF t
<1>3. /\ t.up = client.up /\ t.down = client.down /\ t.network = client.network
      /\ t.agg = client.agg /\ t.failed = client.failed /\ t.timer = client.timer
      /\ t.online = client.online /\ t.idle = client.idle /\ t.listen = client.listen
  BY <1>2 DEF Alters, Fields
<1>4. Conn(t, r)
  BY <1>1, <1>2, <1>3, GoodParts DEF Conn, IsStarted
<1>5. Quiet(client, t, F)
  BY <1>2, GoodParts, QuietFrame
<1>6. F \subseteq Fields \ {"listen", "enqueued", "active", "lookups", "listeners"}
  BY DEF Fields
<1> HIDE DEF F
<1>7. Handled(client, t, r)
  BY <1>4, <1>5, <1>6, GoodParts, QuietHandled
<1>8. SpentInv' /\ spent'.reused = r
  BY <1>1, GoodParts, SpentSame
<1> QED
  BY <1>1, <1>7, <1>8, WorkerIInv

\* A stream that is open, or idle, and ends without an error while nothing needs it.
LEMMA ClosedForGood ==
    ASSUME IInv, client.stream = "Open", DOMAIN client.listen = {}
    PROVE  Handled(client, CloseGracefully(client), spent.reused)
<1> DEFINE t == CloseGracefully(client)
           F == {"stream", "idle", "up", "down", "agg", "timer", "failed", "aborted"}
           r == spent.reused
<1>2. IsStarted(client) /\ client.network
  BY GoodParts DEF Conn, IsStarted
<1>3. Quiet(client, t, F) /\ t.stream = "Initial" /\ Still(t, "Unknown")
  BY <1>2, GoodParts, CloseGracefullyIs
<1> HIDE DEF t
<1>4. t.listen = client.listen /\ t.network = client.network
  BY <1>3 DEF Quiet, Alters, Fields, Broadcast
<1>5. Conn(t, r)
  <2> DEFINE L == DOMAIN t.listen
  <2>1. L = {}
    BY <1>4
  <2> HIDE DEF L
  <2>2. IsFiniteSet(L) /\ Query \notin L
    BY <2>1, NoStatesIs
  <2>3. \A m \in Range(t.down) : MessageOk(m)
    BY <1>3, SeqEmpty DEF Still
  <2> QED
    BY <1>2, <1>3, <1>4, <2>1, <2>2, <2>3, NoStatesIs, SeqEmpty DEF Conn, Still, L
<1>6. F \subseteq Fields \ {"listen", "enqueued", "active", "lookups", "listeners"}
  BY DEF Fields
<1> HIDE DEF F
<1>7. Handled(client, t, r)
  BY <1>3, <1>5, <1>6, GoodParts, QuietHandled
<1> QED
  BY <1>7 DEF t

LEMMA IdleTimeoutKeeps == ASSUME IInv, IdleTimeout PROVE IInv'
<1> DEFINE t == CloseGracefully(client)
           r == spent.reused
<1>1. Worker(t) /\ UNCHANGED <<tasks, asked, answer, spent>> /\ client.idle
  BY DEF IdleTimeout
<1>2. client.stream = "Open" /\ DOMAIN client.listen = {}
  BY <1>1, GoodParts DEF Conn
<1>3. Handled(client, t, r)
  BY <1>2, ClosedForGood
<1> HIDE DEF t
<1>4. SpentInv' /\ spent'.reused = r
  BY <1>1, GoodParts, SpentSame
<1> QED
  BY <1>1, <1>3, <1>4, WorkerIInv

\* An open stream is needed as long as there is something to listen to.
LEMMA NeededIs ==
    ASSUME IInv
    PROVE  ShouldStartWatchStream(Closed(client, "Initial")) <=> DOMAIN client.listen # {}
<1> DEFINE u == Closed(client, "Initial")
<1>1. Shape(client) /\ client.network
  BY GoodParts DEF Conn
<1>2. Alters(client, u, {"stream", "idle", "up", "down", "agg"}) /\ u.stream = "Initial"
  BY <1>1, ClosedIs
<1> HIDE DEF u
<1>4. u.listen = client.listen /\ u.network = client.network
  BY <1>2 DEF Alters, Fields
<1>3. ShouldStartWatchStream(u) <=> DOMAIN client.listen # {}
  BY <1>1, <1>2, <1>4 DEF ShouldStartWatchStream, IsStarted
<1> QED
  BY <1>3 DEF u

\* A stream ended with OK: either it is not needed, or the app ends with it.
LEMMA OnStreamFinishOKKeeps == ASSUME IInv, OnStreamFinishOK PROVE IInv'
<1> DEFINE needed == ShouldStartWatchStream(Closed(client, "Initial"))
           a == [client EXCEPT !.aborted = TRUE]
           t == CloseGracefully(client)
           r == spent.reused
           n == spent.faults + 1
<1>1. /\ UNCHANGED <<tasks, asked, answer>> /\ client.stream = "Open"
      /\ IF needed THEN client' = a /\ UNCHANGED backend ELSE Worker(t)
      /\ spent' = [spent EXCEPT !.faults = n, !.stopped = needed]
  BY GoodParts DEF OnStreamFinishOK, SpentInv
<1>2. needed <=> DOMAIN client.listen # {}
  BY NeededIs
<1> HIDE DEF needed, n
<1>3. SpentInv' /\ spent'.reused = r
  BY <1>1, GoodParts, SpentStop
<1>4. CASE ~needed
  <2>1. Worker(t)
    BY <1>1, <1>4
  <2>2. Handled(client, t, r)
    BY <1>1, <1>2, <1>4, ClosedForGood
  <2> HIDE DEF t
  <2> QED
    BY <1>1, <1>3, <2>1, <2>2, WorkerIInv
<1>5. CASE needed
  <2> DEFINE F == {"aborted"}
  <2>1. client' = a /\ UNCHANGED backend
    BY <1>1, <1>5
  <2>2. Shape(a) /\ Alters(client, a, F)
    BY GoodParts DEF Shape, Alters, Fields
  <2> HIDE DEF a
  <2>3. Quiet(client, a, F)
    BY <2>2, GoodParts, QuietFrame
  <2>4. Conn(a, r)
    BY <2>2, GoodParts, ConnSame
  <2>5. F \subseteq Fields \ {"listen", "enqueued", "active", "lookups", "listeners"}
    BY DEF Fields
  <2>6. a.stream = client.stream
    BY <2>2 DEF Alters, Fields
  <2> HIDE DEF F
  <2>7. Handled(client, a, r)
    BY <2>3, <2>4, <2>5, GoodParts, QuietHandled
  <2>8. Worker(a)
    BY <1>1, <2>1, <2>6 DEF Worker
  <2> QED
    BY <1>1, <1>3, <2>7, <2>8, WorkerIInv
<1> QED
  BY <1>4, <1>5

LEMMA OnlineStateTimeoutKeeps == ASSUME IInv, OnlineStateTimeout PROVE IInv'
<1> DEFINE a == [client EXCEPT !.timer = FALSE]
           b == Check(a, client.online = "Unknown")
           t == SetAndBroadcast(b, "Offline")
           F == {"timer"}
           r == spent.reused
<1>1. Worker(t) /\ UNCHANGED <<tasks, asked, answer, spent>> /\ client.timer
  BY DEF OnlineStateTimeout
<1>2. client.online = "Unknown" /\ IsStarted(client)
  BY <1>1, GoodParts DEF Conn
<1>3. b = a
  BY <1>2 DEF Check
<1>4. Shape(a) /\ Alters(client, a, F) /\ a.timer = FALSE
  BY GoodParts DEF Shape, Alters, Fields
<1> HIDE DEF a, b
<1>5. Quiet(client, a, F)
  BY <1>4, GoodParts, QuietFrame
<1>6. Quiet(b, t, {}) /\ t.online = "Offline"
  BY <1>3, <1>4, SetAndBroadcastIs
<1> HIDE DEF t
<1>7. Quiet(a, t, F)
  BY <1>3, <1>6, QuietMore
<1>8. Quiet(client, t, F)
  BY <1>5, <1>7, QuietThen
<1>9. /\ t.up = client.up /\ t.down = client.down /\ t.network = client.network
      /\ t.agg = client.agg /\ t.failed = client.failed /\ t.timer = FALSE
      /\ t.idle = client.idle /\ t.listen = client.listen /\ t.stream = client.stream
  <2>1. t.timer = a.timer
    BY <1>3, <1>6 DEF Quiet, Alters, Fields, Broadcast
  <2> QED
    BY <1>4, <1>8, <2>1 DEF Quiet, Alters, Fields, Broadcast
<1>10. Conn(t, r)
  BY <1>2, <1>6, <1>9, GoodParts DEF Conn, IsStarted
<1>11. F \subseteq Fields \ {"listen", "enqueued", "active", "lookups", "listeners"}
  BY DEF Fields
<1> HIDE DEF F
<1>12. Handled(client, t, r)
  BY <1>8, <1>10, <1>11, GoodParts, QuietHandled
<1>13. SpentInv' /\ spent'.reused = r
  BY <1>1, GoodParts, SpentSame
<1> QED
  BY <1>1, <1>12, <1>13, WorkerIInv

LEMMA NetworkChangeKeeps == ASSUME IInv, NetworkChange PROVE IInv'
<1> DEFINE t == RestartNetwork(client)
           F == {"network", "stream", "idle", "up", "down", "agg", "timer", "failed", "aborted"}
           r == spent.reused
           n == spent.faults + 1
<1>1. Worker(t) /\ UNCHANGED <<tasks, asked, answer>>
  BY DEF NetworkChange
<1>a. spent' = [spent EXCEPT !.faults = n]
  BY DEF NetworkChange
<1>2. Quiet(client, t, F) /\ Conn(t, r)
  BY GoodParts, RestartNetworkIs
<1>3. F \subseteq Fields \ {"listen", "enqueued", "active", "lookups", "listeners"}
  BY DEF Fields
<1> HIDE DEF t, F, n
<1>4. Handled(client, t, r)
  BY <1>2, <1>3, GoodParts, QuietHandled
<1>5. SpentInv' /\ spent'.reused = r
  BY <1>a, GoodParts, SpentFault
<1> QED
  BY <1>1, <1>4, <1>5, WorkerIInv

\* A message leaves the stream.
LEMMA Dequeued ==
    ASSUME NEW s, NEW r, Good(s, r), s.down # <<>>
    PROVE  LET t == [s EXCEPT !.down = Tail(@)]
           IN Handled(s, t, r) /\ t.stream = "Open" /\ MessageOk(Head(s.down)) /\ t.aborted = s.aborted
<1> DEFINE t == [s EXCEPT !.down = Tail(@)]
           old == s.down
           new == t.down
           n == Len(old)
           F == {"down"}
<1>1. Shape(s) /\ Conn(s, r)
  BY DEF Good
<1>2. Shape(t) /\ Alters(s, t, F) /\ new = Tail(old)
  BY <1>1 DEF Shape, Alters, Fields
<1> HIDE DEF t
<1>3. /\ t.up = s.up /\ t.network = s.network /\ t.agg = s.agg /\ t.listen = s.listen
      /\ t.failed = s.failed /\ t.timer = s.timer /\ t.online = s.online /\ t.idle = s.idle
      /\ t.stream = s.stream /\ t.aborted = s.aborted
  BY <1>2 DEF Alters, Fields
<1>4. IsSeq(old) /\ old # <<>> /\ s.stream = "Open"
  BY <1>1 DEF Conn
<1>5. \A m \in Range(old) : MessageOk(m)
  BY <1>1 DEF Conn
<1> HIDE DEF old, new
<1>6. /\ IsSeq(new) /\ Len(new) = n - 1 /\ n \in Nat \ {0}
      /\ \A i \in 1..Len(new) : new[i] = old[i + 1]
      /\ Head(old) = old[1]
  BY <1>2, <1>4, SeqTail
<1>7. DOMAIN new = 1..(n - 1) /\ DOMAIN old = 1..n
  BY <1>4, <1>6, SeqFacts
<1> HIDE DEF n
<1>8. \A m \in Range(new) : m \in Range(old)
  <2> SUFFICES ASSUME NEW i \in 1..(n - 1) PROVE new[i] \in Range(old)
    BY <1>7 DEF Range
  <2>1. i + 1 \in 1..n /\ new[i] = old[i + 1]
    BY <1>6
  <2> QED
    BY <1>7, <2>1 DEF Range
<1>9. MessageOk(Head(old))
  <2>1. 1 \in 1..n
    BY <1>6
  <2>2. old[1] \in Range(old)
    BY <1>7, <2>1 DEF Range
  <2> QED
    BY <1>5, <1>6, <2>2
<1>10. IsSeq(t.down) /\ \A m \in Range(t.down) : MessageOk(m)
  BY <1>5, <1>6, <1>8 DEF new
<1>11. Conn(t, r)
  BY <1>1, <1>3, <1>4, <1>10 DEF Conn, IsStarted
<1>12. Handled(s, t, r)
  BY <1>2, <1>3, <1>11, FrameHandled
<1> QED
  BY <1>3, <1>4, <1>9, <1>12 DEF t, old

LEMMA OnStreamReadKeeps == ASSUME IInv, OnStreamRead PROVE IInv'
<1> DEFINE u == [client EXCEPT !.down = Tail(@)]
           m == Head(client.down)
           t == OnWatchStreamChange(u, m)
           r == spent.reused
<1>1. Worker(t) /\ UNCHANGED <<tasks, asked, answer, spent>> /\ client.down # <<>>
  BY DEF OnStreamRead
<1>2. Handled(client, u, r) /\ u.stream = "Open" /\ MessageOk(m)
  BY <1>1, GoodParts, Dequeued
<1> HIDE DEF u, m
<1>3. Handled(u, t, r)
  BY <1>2, OnWatchStreamChangeIs DEF Handled
<1> HIDE DEF t
<1>4. Handled(client, t, r)
  BY <1>2, <1>3, HandledThen
<1>5. SpentInv' /\ spent'.reused = r
  BY <1>1, GoodParts, SpentSame
<1> QED
  BY <1>1, <1>4, <1>5, WorkerIInv

LEMMA WriteAcknowledgedKeeps == ASSUME IInv, WriteAcknowledged PROVE IInv'
<1> DEFINE t == AcknowledgeBatch(client, own.at)
           r == spent.reused
<1>1. Worker(t) /\ UNCHANGED <<tasks, asked, answer, spent>>
  BY DEF WriteAcknowledged
<1>2. Handled(client, t, r)
  BY GoodParts, AcknowledgeBatchIs
<1> HIDE DEF t
<1>3. SpentInv' /\ spent'.reused = r
  BY <1>1, GoodParts, SpentSame
<1> QED
  BY <1>1, <1>2, <1>3, WorkerIInv

LEMMA WriteRejectedKeeps == ASSUME IInv, WriteRejected PROVE IInv'
<1> DEFINE t == RejectBatch(client)
           r == spent.reused
<1>1. Worker(t) /\ UNCHANGED <<tasks, asked, answer, spent>>
  BY DEF WriteRejected
<1>2. Handled(client, t, r)
  BY GoodParts, RejectBatchIs
<1> HIDE DEF t
<1>3. SpentInv' /\ spent'.reused = r
  BY <1>1, GoodParts, SpentSame
<1> QED
  BY <1>1, <1>2, <1>3, WorkerIInv

LEMMA RunTaskKeeps == ASSUME IInv, RunTask PROVE IInv'
<1> DEFINE s == client
           r == spent.reused
           task == Head(tasks)
           listen == task.type = "listen"
           a == AddQueryListener(s, task.call)
           b == RemoveQueryListener(s, task.call)
           c == WriteLocally(s, own.ad, own.data)
           t == client'
           n == Len(asked)
           q == r \/ (listen /\ Reuses(s))
<1>1. /\ tasks # <<>> /\ tasks' = Tail(tasks) /\ UNCHANGED <<asked, answer>>
      /\ spent' = [spent EXCEPT !.reused = @ \/ (listen /\ Reuses(s))]
  BY DEF RunTask
<1>2. PICK k \in Nat : Turn(k)
  BY DEF IInv, OrderInv
<1>3. Ord(s, k, Done) /\ Ready(s) /\ QueueOk(tasks, k, n, Done) /\ InTurn(Done, k)
  BY <1>2 DEF Turn
<1>4. /\ task.type \in {"listen", "remove", "write"}
      /\ task.type = "remove" => task.call \in Done
      /\ task.type = "listen" => task.call = k + 1 /\ k < n /\ QueueOk(Tail(tasks), k + 1, n, Done)
      /\ task.type # "listen" => QueueOk(Tail(tasks), k, n, Done)
  BY <1>1, <1>3, QueueTail
<1>5. /\ SpentInv' /\ spent'.reused = q
  BY <1>1, GoodParts DEF SpentInv
<1>6. Done' = Done
  BY <1>1 DEF Done, Waiting
<1>7. CallsInv' /\ n \in 0..MaxCalls /\ MaxCalls \in Nat
  BY <1>1, BoundsAssumption DEF IInv, CallsInv
<1>8. CASE task.type = "listen"
  <2>1. Worker(a)
    BY <1>8 DEF RunTask
  <2>2. BackendInv' /\ t = a
    BY <2>1, WorkerBackend DEF IInv
  <2>3. task.call = k + 1 /\ k < MaxCalls
    BY <1>4, <1>7, <1>8
  <2>4. Good(a, r \/ Reuses(s)) /\ TakesOn(s, a, task.call) /\ RoomKept(s, a)
    <3> HIDE DEF task, s, r
    <3> QED
      BY <1>3, <2>3, GoodParts, AddQueryListenerIs DEF s, r
  <2>5. q = (r \/ Reuses(s))
    BY <1>8
  <2> HIDE DEF a, q
  <2>6. Good(t, spent'.reused)
    BY <1>5, <2>2, <2>4, <2>5
  <2>7. Ord(t, k + 1, Done) /\ Ready(t)
    BY <1>3, <2>2, <2>3, <2>4 DEF TakesOn
  <2>8. InTurn(Done, k + 1)
    BY <1>3 DEF InTurn
  <2>9. Turn(k + 1)'
    <3>1. QueueOk(tasks', k + 1, Len(asked'), Done')
      BY <1>1, <1>4, <1>6, <1>8
    <3>2. Ord(client', k + 1, Done') /\ Ready(client') /\ InTurn(Done', k + 1)
      BY <1>6, <2>7, <2>8
    <3> QED
      BY <3>1, <3>2 DEF Turn
  <2>10. OrderInv'
    <3>1. k + 1 \in Nat
      OBVIOUS
    <3> QED
      BY <2>9, <3>1 DEF OrderInv
  <2>11. RoomInv'
    BY <2>2, <2>4 DEF RoomKept, RoomInv, IInv, RoomEnough
  <2> QED
    BY <1>5, <1>7, <2>2, <2>6, <2>10, <2>11 DEF IInv
<1>9. CASE task.type # "listen"
  <2> DEFINE w == IF task.type = "remove" THEN b ELSE c
  <2>1. Worker(w)
    BY <1>4, <1>9 DEF RunTask
  <2>2. BackendInv' /\ t = w
    BY <2>1, WorkerBackend DEF IInv
  <2>3. Good(w, r) /\ RoomKept(s, w) /\ Ord(w, k, Done) /\ Ready(w)
    <3>1. CASE task.type = "remove"
      <4>1. task.call \in Done
        BY <1>4, <3>1
      <4>2. /\ Good(b, r) /\ RoomKept(s, b)
            /\ \A l, A : task.call \in A /\ Ord(s, l, A) /\ Ready(s) => Ord(b, l, A) /\ Ready(b)
        <5> HIDE DEF task, s, r
        <5> QED
          BY <1>3, <4>1, GoodParts, RemoveQueryListenerIs DEF s, r
      <4> QED
        BY <1>3, <3>1, <4>1, <4>2
    <3>2. CASE task.type # "remove"
      <4>1. Handled(s, c, r)
        BY GoodParts, WriteLocallyIs
      <4> QED
        BY <1>3, <3>2, <4>1 DEF Handled, OrdKept
    <3> QED
      BY <3>1, <3>2
  <2>4. q = r
    BY <1>9, GoodParts DEF SpentInv
  <2> HIDE DEF w, q
  <2>5. Good(t, spent'.reused)
    BY <1>5, <2>2, <2>3, <2>4
  <2>6. Turn(k)'
    <3>1. QueueOk(tasks', k, Len(asked'), Done')
      BY <1>1, <1>4, <1>6, <1>9
    <3>2. Ord(client', k, Done') /\ Ready(client') /\ InTurn(Done', k)
      BY <1>3, <1>6, <2>2, <2>3
    <3> QED
      BY <3>1, <3>2 DEF Turn
  <2>7. OrderInv'
    BY <2>6 DEF OrderInv
  <2>8. RoomInv'
    BY <2>2, <2>3 DEF RoomKept, RoomInv, IInv, RoomEnough
  <2> QED
    BY <1>5, <1>7, <2>2, <2>5, <2>7, <2>8 DEF IInv
<1> QED
  BY <1>8, <1>9

LEMMA GetDocumentsKeeps == ASSUME IInv, GetDocuments PROVE IInv'
<1> DEFINE n == Len(asked)
           call == [known |-> Known, own |-> own.made]
           task == [type |-> "listen", call |-> n + 1]
<1>1. /\ n < MaxCalls /\ asked' = Append(asked, call) /\ tasks' = Append(tasks, task)
      /\ UNCHANGED <<client, answer, backend, spent>>
  BY DEF GetDocuments
<1> HIDE DEF call
<1>2. IsSeq(asked) /\ n \in 0..MaxCalls /\ MaxCalls \in Nat
  BY BoundsAssumption DEF IInv, CallsInv
<1>3. IsSeq(asked') /\ Len(asked') = n + 1
  BY <1>1, <1>2, SeqAppend
<1>4. CallsInv'
  BY <1>1, <1>2, <1>3 DEF IInv, CallsInv, Calls
<1>5. Done' = Done
  BY <1>1 DEF Done, Waiting
<1>6. OrderInv'
  <2>1. PICK k \in Nat : Turn(k)
    BY DEF IInv, OrderInv
  <2>2. task.type = "listen" /\ task.call = n + 1
    OBVIOUS
  <2> HIDE DEF task
  <2>3. QueueOk(tasks, k, n, Done)
    BY <2>1 DEF Turn
  <2> HIDE DEF n
  <2>4. QueueOk(Append(tasks, task), k, n + 1, Done)
    BY <2>2, <2>3, QueueAppend
  <2>5. Turn(k)'
    BY <1>1, <1>3, <1>5, <2>1, <2>4 DEF Turn
  <2> QED
    BY <2>5 DEF OrderInv
<1> QED
  BY <1>1, <1>4, <1>6 DEF IInv, RoomInv, BackendInv, SpentInv, RoomEnough

LEMMA WriteAdKeeps == ASSUME IInv, WriteAd PROVE IInv'
<1> DEFINE task == [type |-> "write"]
<1>1. tasks' = Append(tasks, task) /\ UNCHANGED <<client, asked, answer, backend, spent>>
  BY DEF WriteAd
<1>2. Done' = Done
  BY <1>1 DEF Done, Waiting
<1>3. OrderInv'
  <2>1. PICK k \in Nat : Turn(k)
    BY DEF IInv, OrderInv
  <2>2. task.type = "write"
    OBVIOUS
  <2> HIDE DEF task
  <2> DEFINE n == Len(asked)
  <2>3. QueueOk(tasks, k, n, Done)
    BY <2>1 DEF Turn
  <2> HIDE DEF n
  <2>4. QueueOk(Append(tasks, task), k, n, Done)
    BY <2>2, <2>3, QueueAppend
  <2>5. Turn(k)'
    BY <1>1, <1>2, <2>1, <2>4 DEF Turn, n
  <2> QED
    BY <2>5 DEF OrderInv
<1> QED
  BY <1>1, <1>3 DEF IInv, RoomInv, CallsInv, BackendInv, SpentInv, RoomEnough

\* What changes the collection alone.
LEMMA ElsewhereKeeps ==
    ASSUME IInv, UNCHANGED <<client, tasks, asked, answer, backend, spent>>
    PROVE  IInv'
<1>1. Done' = Done
  BY DEF Done, Waiting
<1>2. OrderInv'
  <2>1. PICK k \in Nat : Turn(k)
    BY DEF IInv, OrderInv
  <2>2. Turn(k)'
    BY <1>1, <2>1 DEF Turn
  <2> QED
    BY <2>2 DEF OrderInv
<1> QED
  BY <1>2 DEF IInv, RoomInv, CallsInv, BackendInv, SpentInv, RoomEnough

LEMMA OnEventKeeps == ASSUME IInv, OnEvent PROVE IInv'
<1> DEFINE m == Head(client.mail)
           c == m.call
           t == [client EXCEPT !.mail = Tail(@)]
           r == spent.reused
           n == Len(asked)
           B == Done \cup {c}
<1>1. /\ client.mail # <<>> /\ client' = t /\ UNCHANGED <<asked, backend, spent>>
      /\ \/ Muted(c) /\ UNCHANGED <<answer, tasks>>
         \/ /\ answer' = [answer EXCEPT ![c] = [kind |-> "error"]]
            /\ UNCHANGED tasks
         \/ /\ answer' = [answer EXCEPT ![c] = [kind |-> IF m.fromCache THEN "cache" ELSE "server",
                                                docs |-> m.docs, sure |-> ~client.lostReset]]
            /\ tasks' = Append(tasks, [type |-> "remove", call |-> c])
  BY DEF OnEvent
<1>2. Shape(t) /\ Alters(client, t, {"mail"}) /\ t.mail = Tail(client.mail)
  BY GoodParts DEF Shape, Alters, Fields
<1> HIDE DEF t
<1>3. PICK k \in Nat : Turn(k)
  BY DEF IInv, OrderInv
<1>4. /\ Ord(client, k, Done) /\ Ready(client) /\ QueueOk(tasks, k, n, Done) /\ InTurn(Done, k)
  BY <1>3 DEF Turn
<1>5. /\ Ord(t, k, B) /\ Ready(t) /\ c \in 1..k
      /\ \A e \in 1..(c - 1) : e \in Done
  <2> DEFINE s == client
             A == Done
  <2>1. /\ c = Head(s.mail).call /\ s.mail # <<>> /\ t.mail = Tail(s.mail)
        /\ Ord(s, k, A) /\ Ready(s) /\ Alters(s, t, {"mail"})
    BY <1>1, <1>2, <1>4
  <2> HIDE DEF c, s, A
  <2>2. /\ Ord(t, k, A \cup {c}) /\ Ready(t) /\ c \in 1..k
        /\ \A e \in 1..(c - 1) : e \in A
    BY <2>1, MailTail
  <2> QED
    BY <2>2 DEF A
<1>6. c \in Calls /\ DOMAIN answer = Calls
  BY <1>4, <1>5, BoundsAssumption DEF Ord, Calls, IInv, CallsInv
<1> HIDE DEF c
<1>7. Done' = B /\ DOMAIN answer' = Calls
  <2>1. CASE Muted(c) /\ UNCHANGED <<answer, tasks>>
    <3>1. answer[c] # Waiting
      BY <2>1 DEF Muted, Waiting
    <3> QED
      BY <1>6, <2>1, <3>1 DEF Done, Waiting
  <2>2. CASE answer' = [answer EXCEPT ![c] = [kind |-> "error"]]
    <3>1. answer'[c] # Waiting /\ \A e \in Calls : e # c => answer'[e] = answer[e]
      BY <1>6, <2>2 DEF Waiting
    <3>2. DOMAIN answer' = Calls
      BY <1>6, <2>2
    <3> QED
      BY <1>6, <3>1, <3>2 DEF Done, Waiting
  <2>3. CASE answer' = [answer EXCEPT ![c] = [kind |-> IF m.fromCache THEN "cache" ELSE "server",
                                              docs |-> m.docs, sure |-> ~client.lostReset]]
    <3> DEFINE told == [kind |-> IF m.fromCache THEN "cache" ELSE "server",
                        docs |-> m.docs, sure |-> ~client.lostReset]
    <3>1. told # Waiting
      <4>1. told.kind # "waiting" /\ Waiting.kind = "waiting"
        BY DEF Waiting
      <4> QED
        BY <4>1
    <3>2. answer' = [answer EXCEPT ![c] = told]
      BY <2>3
    <3> HIDE DEF told
    <3>3. answer'[c] # Waiting /\ \A e \in Calls : e # c => answer'[e] = answer[e]
      BY <1>6, <3>1, <3>2
    <3>4. DOMAIN answer' = Calls
      BY <1>6, <3>2
    <3> QED
      BY <1>6, <3>3, <3>4 DEF Done, Waiting
  <2> QED
    BY <1>1, <2>1, <2>2, <2>3
<1>8. InTurn(B, k)
  <2>1. \A d \in Done : d \in 1..k /\ \A e \in 1..d : e \in Done
    BY <1>4 DEF InTurn
  <2>2. \A e \in 1..c : e \in 1..(c - 1) \/ e = c
    BY <1>5
  <2>3. \A d \in B : d \in 1..k
    BY <1>5, <2>1
  <2>4. \A d \in B : \A e \in 1..d : e \in B
    BY <1>5, <2>1, <2>2
  <2> HIDE DEF B
  <2> QED
    BY <2>3, <2>4 DEF InTurn
<1>9. QueueOk(tasks', k, n, B)
  <2>1. QueueOk(tasks, k, n, B)
    BY <1>4, QueueMore
  <2> DEFINE task == [type |-> "remove", call |-> c]
  <2>2. task.type = "remove" /\ task.call \in B
    OBVIOUS
  <2>3. UNCHANGED tasks \/ tasks' = Append(tasks, task)
    BY <1>1
  <2> HIDE DEF task, B, n
  <2>4. QueueOk(Append(tasks, task), k, n, B)
    BY <2>1, <2>2, QueueAppend
  <2> QED
    BY <2>1, <2>3, <2>4
<1>10. OrderInv'
  <2>1. Turn(k)'
    BY <1>1, <1>5, <1>7, <1>8, <1>9 DEF Turn
  <2> QED
    BY <2>1 DEF OrderInv
<1>11. Good(t, r) /\ (Roomy(client) => Roomy(t)) /\ t.stream = client.stream
  <2>1. /\ t.listen = client.listen /\ t.stream = client.stream
        /\ t.enqueued = client.enqueued /\ t.active = client.active
        /\ t.lookups = client.lookups /\ t.listeners = client.listeners /\ t.view = client.view
    BY <1>2 DEF Alters, Fields
  <2>2. Conn(t, r)
    BY <1>2, GoodParts, ConnSame
  <2> QED
    BY <1>2, <2>1, <2>2, GoodParts DEF Good, Look, Served, Roomy, Room, InLimbo
<1> QED
  BY <1>1, <1>7, <1>10, <1>11 DEF IInv, RoomInv, CallsInv, BackendInv, SpentInv, RoomEnough, Calls

\* Requests leave, answers come: nothing of this is the client's doing.
Exchange(s, up, down) == [s EXCEPT !.up = up, !.down = down]
LEMMA Exchanged ==
    ASSUME NEW s, NEW r, Good(s, r), s.stream = "Open", NEW up, IsSeq(up),
           NEW down, IsReply(down)
    PROVE  /\ Handled(s, Exchange(s, up, down), r)
           /\ Exchange(s, up, down).aborted = s.aborted
           /\ Exchange(s, up, down).stream = "Open"
<1> DEFINE t == Exchange(s, up, down)
           F == {"up", "down"}
<1>1. Shape(s) /\ Conn(s, r)
  BY DEF Good
<1>2. Shape(t) /\ Alters(s, t, F) /\ t.down = down /\ t.up = up
  BY <1>1 DEF Shape, Alters, Fields, Exchange
<1> HIDE DEF t
<1>3. /\ t.network = s.network /\ t.agg = s.agg /\ t.listen = s.listen
      /\ t.failed = s.failed /\ t.timer = s.timer /\ t.online = s.online /\ t.idle = s.idle
      /\ t.stream = s.stream /\ t.aborted = s.aborted
  BY <1>2 DEF Alters, Fields
<1>7. Conn(t, r)
  BY <1>1, <1>2, <1>3 DEF Conn, IsStarted, IsReply
<1>8. Handled(s, t, r)
  BY <1>2, <1>3, <1>7, FrameHandled
<1> QED
  BY <1>3, <1>8 DEF t

\* A step of the backend on the open stream.
LEMMA BackendIInv ==
    ASSUME IInv, Handled(client, client', spent.reused), BackendInv',
           SpentInv', spent'.reused = spent.reused, UNCHANGED <<tasks, asked, answer>>
    PROVE  IInv'
<1>1. Good(client', spent'.reused) /\ OrdKept(client, client') /\ RoomKept(client, client')
  BY DEF Handled
<1>2. RoomInv'
  BY <1>1 DEF RoomKept, RoomInv, IInv, RoomEnough
<1>3. Done' = Done
  BY DEF Done, Waiting
<1>4. OrderInv'
  <2>1. PICK k \in Nat : Turn(k)
    BY DEF IInv, OrderInv
  <2>2. Ord(client', k, Done) /\ Ready(client')
    BY <1>1, <2>1 DEF OrdKept, Turn
  <2>3. Turn(k)'
    BY <1>3, <2>1, <2>2 DEF Turn
  <2> QED
    BY <2>3 DEF OrderInv
<1> QED
  BY <1>1, <1>2, <1>4 DEF IInv, CallsInv

LEMMA ServeKeeps == ASSUME IInv, Serve PROVE IInv'
<1> DEFINE m == Head(client.up)
           up == Tail(client.up)
           r == spent.reused
           old == backend.served
           put == Put(old, m.target, [ad |-> m.ad, at |-> Now])
           drop == Drop(old, m.target)
<1>1. PICK reply \in IF m.type = "watch" THEN WatchAnswers(m) ELSE {Say("removed", m.target)} :
         /\ client' = [client EXCEPT !.up = Tail(@), !.down = @ \o reply]
         /\ \/ backend' = [backend EXCEPT !.due = TRUE,
                                          !.served = Put(@, m.target, [ad |-> m.ad, at |-> Now])]
            \/ backend' = [backend EXCEPT !.served = Drop(@, m.target)]
         /\ spent' = [spent EXCEPT !.faults = IF StartsOver(reply) THEN @ + 1 ELSE @]
  BY DEF Serve
<1>2. client.up # <<>> /\ UNCHANGED <<tasks, asked, answer>>
  BY DEF Serve
<1>8. SpentInv' /\ spent'.reused = r
  <2> DEFINE n == IF StartsOver(reply) THEN spent.faults + 1 ELSE spent.faults
  <2>1. spent' = [spent EXCEPT !.faults = n]
    BY <1>1, GoodParts DEF SpentInv
  <2> HIDE DEF n
  <2> QED
    BY <2>1, GoodParts, SpentFault
<1>3. IsReply(reply)
  <2>1. CASE m.type = "watch"
    <3> HIDE DEF m
    <3> QED
      BY <1>1, <2>1, WatchAnswersAre
  <2>2. CASE m.type # "watch"
    <3> DEFINE x == m.target
               q == Say("removed", x)
    <3>1. reply = q
      BY <1>1, <2>2
    <3> HIDE DEF x
    <3>2. IsReply(q)
      BY SayReply
    <3> QED
      BY <3>1, <3>2
  <2> QED
    BY <2>1, <2>2
<1>4. client.stream = "Open" /\ IsSeq(client.up)
  BY <1>2, GoodParts DEF Conn
<1>5. IsSeq(up)
  BY <1>2, <1>4, SeqTail
<1>6. Handled(client, client', r) /\ client'.stream = "Open"
  <2> DEFINE told == client.down
             down == told \o reply
             t == Exchange(client, up, down)
  <2>1. client' = t
    BY <1>1, GoodParts DEF Shape, Fields, Exchange
  <2>2. IsReply(told)
    BY GoodParts DEF Conn, IsReply
  <2>3. IsReply(down)
    BY <1>3, <2>2, ReplyJoined
  <2> HIDE DEF up, down
  <2>4. Handled(client, t, r) /\ t.stream = "Open"
    BY <1>4, <1>5, <2>3, GoodParts, Exchanged
  <2> QED
    BY <2>1, <2>4
<1>7. BackendInv'
  <2>1. /\ DOMAIN backend' = {"served", "due", "refuses"}
        /\ backend'.served = put \/ backend'.served = drop
    BY <1>1 DEF IInv, BackendInv
  <2> DEFINE all == backend'.served
             x == m.target
             v == [ad |-> m.ad, at |-> Now]
  <2>2. IsFiniteSet(DOMAIN old) /\ (all = Put(old, x, v) \/ all = Drop(old, x))
    BY <2>1 DEF IInv, BackendInv
  <2> HIDE DEF old, all, x, v
  <2>3. DOMAIN Put(old, x, v) = DOMAIN old \cup {x}
    BY DEF Put
  <2> DEFINE S == DOMAIN old
             T == DOMAIN Put(old, x, v)
  <2>4. IsFiniteSet(T)
    <3>1. IsFiniteSet(S) /\ T = S \cup {x}
      BY <2>2, <2>3
    <3> HIDE DEF S, T
    <3> QED
      BY <3>1, FS_AddElement
  <2>5. IsFiniteSet(DOMAIN Drop(old, x))
    BY <2>2, DropFinite
  <2>6. IsFiniteSet(DOMAIN all)
    BY <2>2, <2>4, <2>5
  <2> QED
    BY <1>6, <2>1, <2>6 DEF BackendInv, all
<1> QED
  BY <1>2, <1>6, <1>7, <1>8, BackendIInv

LEMMA PushKeeps == ASSUME IInv, Push PROVE IInv'
<1> DEFINE news == AllNews(Late)
           last == [type |-> "snapshot", version |-> Now]
           r == spent.reused
           old == client.down
           up == client.up
           down == (old \o news) \o <<last>>
           t == Exchange(client, up, down)
           served == backend.served
           next == [x \in DOMAIN served |-> [served[x] EXCEPT !.at = Now]]
<1>1. /\ client' = [client EXCEPT !.down = (@ \o news) \o <<last>>]
      /\ backend' = [backend EXCEPT !.due = FALSE, !.served = next]
      /\ DOMAIN served # {}
      /\ UNCHANGED <<tasks, asked, answer, spent>>
  BY DEF Push, PushDue
<1>2. IsReply(news)
  <2>1. IsFiniteSet(Late)
    <3>1. Late \subseteq DOMAIN backend.served
      BY DEF Late
    <3> QED
      BY <3>1, FS_Subset DEF IInv, BackendInv
  <2> DEFINE S == Late
  <2> HIDE DEF S
  <2>2. IsReply(AllNews(S))
    BY <2>1, AllNewsReply DEF S
  <2> QED
    BY <2>2 DEF S
<1>3. client' = t
  <2> HIDE DEF news, last
  <2> QED
    BY <1>1, GoodParts DEF Shape, Fields, Exchange
<1> HIDE DEF news
<1>4. IsReply(<<last>>)
  <2>1. MessageOk(last)
    BY DEF MessageOk, MessageTypes
  <2> HIDE DEF last
  <2> QED
    BY <2>1, ReplyOne
<1> HIDE DEF last
<1>5. client.stream = "Open" /\ IsSeq(up) /\ IsReply(old)
  BY <1>1, GoodParts DEF Conn, IInv, BackendInv, IsReply
<1>6. IsReply(down)
  <2> DEFINE mid == old \o news
             end == <<last>>
  <2>1. IsReply(mid)
    BY <1>2, <1>5, ReplyJoined
  <2> HIDE DEF mid, end
  <2>2. IsReply(mid \o end)
    BY <1>4, <2>1, ReplyJoined DEF end
  <2> QED
    BY <2>2 DEF mid, end
<1> HIDE DEF up, down, old
<1>7. Handled(client, client', r) /\ client'.stream = "Open"
  <2>1. Handled(client, t, r) /\ t.stream = "Open"
    BY <1>5, <1>6, GoodParts, Exchanged
  <2> QED
    BY <1>3, <2>1
<1>8. BackendInv'
  <2>1. DOMAIN next = DOMAIN served
    OBVIOUS
  <2> HIDE DEF next
  <2>2. DOMAIN backend' = {"served", "due", "refuses"} /\ backend'.served = next
    BY <1>1 DEF IInv, BackendInv
  <2> QED
    BY <1>7, <2>1, <2>2 DEF IInv, BackendInv
<1>9. SpentInv' /\ spent'.reused = r
  BY <1>1, GoodParts, SpentSame
<1> QED
  BY <1>1, <1>7, <1>8, <1>9, BackendIInv

-----------------------------------------------------------------------------
(* The theorems                                                             *)

LEMMA EmptyRange == Range(<<>>) = {}
<1>1. DOMAIN <<>> = {}
  BY SeqEmpty, SeqFacts
<1> QED
  BY <1>1 DEF Range

\* What a client is before it has done anything.
Idle(s) ==
  /\ s.up = <<>> /\ s.down = <<>> /\ s.enqueued = <<>> /\ s.listeners = <<>> /\ s.mail = <<>>
  /\ s.raised = {} /\ s.view = NoView /\ s.agg = NewAggregator
  /\ s.listen = NoStates /\ s.active = NoStates /\ s.lookups = NoStates
  /\ s.network = TRUE /\ s.failed = FALSE /\ s.timer = FALSE /\ s.idle = FALSE
  /\ s.stream = "Initial" /\ s.online = "Unknown"

LEMMA InitIdle == ASSUME Init PROVE Shape(client) /\ Idle(client)
<1> DEFINE n == NewClient
           cache == [d \in Ads |-> [at |-> board[1][d].at, data |-> board[1][d].data,
                                    committed |-> FALSE]]
           keys == {d \in Ads : board[1][d].data # Gone}
           old == [n EXCEPT !.cache = cache, !.remoteKeys = keys, !.token = 1, !.lastRemote = 1]
<1>1. Shape(n) /\ Idle(n)
  BY DEF NewClient, Shape, Idle, Fields, NewAggregator
<1> HIDE DEF n, cache, keys
<1>2. Shape(old) /\ Idle(old)
  BY <1>1 DEF Shape, Idle, Fields
<1>3. client = n \/ client = old
  BY DEF Init, Relaunched, n, cache, keys
<1> HIDE DEF old
<1> QED
  BY <1>1, <1>2, <1>3

LEMMA InitIInv == ASSUME Init PROVE IInv
<1> DEFINE s == client
           r == spent.reused
<1>1. Shape(s) /\ Idle(s)
  BY InitIdle
<1>2. /\ tasks = <<>> /\ asked = <<>> /\ answer = [c \in Calls |-> Waiting]
      /\ spent = [faults |-> 0, reused |-> FALSE, stopped |-> FALSE]
      /\ \E refuses : backend = [served |-> NoStates, due |-> FALSE, refuses |-> refuses]
  BY DEF Init
<1>3. Done = {}
  BY <1>2 DEF Done
<1>4. Good(s, r)
  <2>1. IsSeq(<<>>) /\ Range(<<>>) = {}
    BY SeqEmpty, EmptyRange
  <2>2. Conn(s, r)
    BY <1>1, <2>1, NoStatesIs DEF Conn, Idle
  <2>3. Look(s)
    BY <1>1, <2>1, NoStatesIs DEF Look, Idle, Paired
  <2>4. Served(s)
    BY <1>1, NoStatesIs DEF Served, Idle
  <2> QED
    BY <1>1, <2>2, <2>3, <2>4 DEF Good
<1>5. Roomy(s)
  BY <1>1, NoStatesIs DEF Roomy, Room, Matched, Idle
<1>6. Turn(0)
  <2>1. IsSeq(<<>>) /\ Range(<<>>) = {} /\ Len(<<>>) = 0 /\ DOMAIN <<>> = {}
    <3>1. IsSeq(<<>>) /\ Range(<<>>) = {}
      BY SeqEmpty, EmptyRange
    <3> QED
      BY <3>1
  <2>2. Ord(s, 0, {})
    <3>1. Ascending(<<>>)
      BY <2>1 DEF Ascending
    <3>2. 0 \in 0..MaxCalls
      BY BoundsAssumption
    <3> QED
      BY <1>1, <2>1, <3>1, <3>2 DEF Ord, Idle
  <2>3. Ready(s)
    BY <1>1 DEF Ready, Idle
  <2>4. QueueOk(<<>>, 0, 0, {})
    BY <2>1 DEF QueueOk
  <2>5. InTurn({}, 0)
    BY DEF InTurn
  <2> QED
    BY <1>2, <1>3, <2>1, <2>2, <2>3, <2>4, <2>5 DEF Turn
<1>7. CallsInv
  BY <1>2, SeqEmpty, BoundsAssumption DEF CallsInv, Waiting
<1>8. BackendInv
  BY <1>2, NoStatesIs DEF BackendInv
<1>9. SpentInv
  BY <1>2 DEF SpentInv
<1>10. OrderInv
  BY <1>6 DEF OrderInv
<1> QED
  BY <1>4, <1>5, <1>7, <1>8, <1>9, <1>10 DEF IInv, RoomInv

LEMMA StepIInv == ASSUME IInv, [Next]_vars PROVE IInv'
<1>1. CASE Next
  <2>1. CASE GetDocuments
    BY <2>1, GetDocumentsKeeps
  <2>2. CASE OnEvent
    BY <2>2, OnEventKeeps
  <2>3. CASE WriteAd
    BY <2>3, WriteAdKeeps
  <2>4. CASE RunTask
    BY <2>4, RunTaskKeeps
  <2>5. CASE ResumeStartWithCredentials
    BY <2>5, ResumeStartKeeps
  <2>6. CASE OnStreamFinish
    BY <2>6, OnStreamFinishKeeps
  <2>7. CASE BackoffElapsed
    BY <2>7, BackoffElapsedKeeps
  <2>8. CASE IdleTimeout
    BY <2>8, IdleTimeoutKeeps
  <2>9. CASE OnlineStateTimeout
    BY <2>9, OnlineStateTimeoutKeeps
  <2>10. CASE NetworkChange
    BY <2>10, NetworkChangeKeeps
  <2>11. CASE OnStreamRead
    BY <2>11, OnStreamReadKeeps
  <2>12. CASE WriteAcknowledged
    BY <2>12, WriteAcknowledgedKeeps
  <2>13. CASE OtherWrites
    BY <2>13, ElsewhereKeeps DEF OtherWrites
  <2>14. CASE CommitOwn
    BY <2>14, ElsewhereKeeps DEF CommitOwn
  <2>15. CASE Serve
    BY <2>15, ServeKeeps
  <2>16. CASE Push
    BY <2>16, PushKeeps
  <2>17. CASE OnStreamFinishOK
    BY <2>17, OnStreamFinishOKKeeps
  <2>18. CASE WriteRejected
    BY <2>18, WriteRejectedKeeps
  <2> QED
    BY <1>1, <2>1, <2>2, <2>3, <2>4, <2>5, <2>6, <2>7, <2>8, <2>9, <2>10, <2>11, <2>12, <2>13,
       <2>14, <2>15, <2>16, <2>17, <2>18 DEF Next
<1>2. CASE UNCHANGED vars
  BY <1>2, ElsewhereKeeps DEF vars
<1> QED
  BY <1>1, <1>2

\* The invariant of the client: its connection, its lookups and its listeners agree
\* (Good, RoomInv), and every call is at its place on the way from the queue of tasks
\* over the listeners and the queue of events to its answer (OrderInv).
THEOREM ClientInvariant == Spec => []IInv
<1>1. Init => IInv
  BY InitIInv
<1>2. IInv /\ [Next]_vars => IInv'
  BY StepIInv
<1> QED
  BY <1>1, <1>2, PTL DEF Spec

\* Calls are answered in the order they were made (query_core.cc, GetDocuments), although
\* each listener is added by a task, told over the user executor and removed by another
\* task: whoever asked for the ads again never gets the older list last.
THEOREM AnswersInOrder == Spec => []InOrder
<1>1. IInv => InOrder
  <2> SUFFICES ASSUME IInv, NEW c \in Calls, NEW e \in Calls, c < e, answer[e] # Waiting
               PROVE  answer[c] # Waiting
    BY DEF InOrder
  <2>1. PICK k \in Nat : InTurn(Done, k)
    BY DEF IInv, OrderInv, Turn
  <2>2. e \in Done
    BY DEF Done
  <2>3. c \in 1..e
    BY BoundsAssumption DEF Calls
  <2>4. c \in Done
    BY <2>1, <2>2, <2>3 DEF InTurn
  <2> QED
    BY <2>4 DEF Done
<1> QED
  BY <1>1, ClientInvariant, PTL

\* While a listener waits for its first event and nothing is known of the backend, the
\* timer of online_state_tracker.cc runs, unless the listener came to a stream that was
\* already started: however streams fail, restart and are given up meanwhile.
THEOREM WaitingIsWatched == Spec => []Watched
<1>1. IInv => Watched
  <2> SUFFICES ASSUME IInv, NEW c \in Calls, Waits(c), client.online = "Unknown", ~spent.reused
               PROVE  client.timer
    BY DEF Watched
  <2>1. client.listeners # <<>>
    BY EmptyRange DEF Waits
  <2>2. Query \in DOMAIN client.listen
    BY <2>1, GoodParts DEF Served
  <2> QED
    BY <2>2, GoodParts DEF Conn
<1> QED
  BY <1>1, ClientInvariant, PTL

\* With no fewer lookups than documents (max_concurrent_limbo_resolutions_), the remote
\* store listens to the query exactly while it has listeners, and to a document only while
\* the view has it in limbo. (With fewer lookups one may be started for a document that
\* left limbo while it was queued, see PumpEnqueuedLimboResolutions.)
THEOREM LookupsAreInUse == RoomEnough => (Spec => []LookupsInUse)
<1> SUFFICES ASSUME RoomEnough PROVE Spec => []LookupsInUse
  OBVIOUS
<1>1. IInv => LookupsInUse
  <2> SUFFICES ASSUME IInv PROVE LookupsInUse
    OBVIOUS
  <2>1. DOMAIN client.listen = DOMAIN client.lookups \cup {t \in {Query} : client.listeners # <<>>}
    BY GoodParts DEF Look, Served
  <2>2. Roomy(client)
    BY DEF IInv, RoomInv
  <2>3. {client.lookups[t].ad : t \in DOMAIN client.lookups} \subseteq InLimbo(client)
    BY <2>2 DEF Roomy, Room, Matched
  <2> QED
    BY <2>1, <2>3 DEF LookupsInUse, InLimbo
<1> QED
  BY <1>1, ClientInvariant, PTL
=============================================================================

------------------------ MODULE ConsultaStreamProofs ------------------------
(***************************************************************************)
(* What the client and the backend say to each other, for any documents,    *)
(* versions, calls and faults: no assertion of the client fails.            *)
(*                                                                          *)
(* Once more method by method: a lemma per method says what it keeps of the *)
(* conversation (Keeps, Calm) and of what is on disk (StoredKept).          *)
(***************************************************************************)
EXTENDS ConsultaProofs

-----------------------------------------------------------------------------
(* What is under way on the stream                                          *)

\* A watch or an unwatch of the query is answered in its turn, and the aggregator
\* counts the answers that are still to come. Wants and Gives are the two kinds of
\* message that say whether the phone listens to the query; whatever is on the
\* stream, the last of them is the one that counts.
Wants(m) == m.type \in {"added", "watch"} /\ m.target = Query
Gives(m) == m.type \in {"removed", "unwatch"} /\ m.target = Query
Owes(m) == Wants(m) \/ Gives(m)

Owing(q) == {i \in 1..Len(q) : Owes(q[i])}
Due(q) == Cardinality(Owing(q))
AsksOn(q) == \E i \in 1..Len(q) : Wants(q[i])
\* Every unwatch is followed by a watch.
Settled(q) == \A i \in 1..Len(q) : Gives(q[i]) => \E j \in (i + 1)..Len(q) : Wants(q[j])

\* Nothing about the query in it.
Mute(q) == \A m \in Range(q) : ~Owes(m)

LEMMA OwingFinite ==
    ASSUME NEW q, IsSeq(q)
    PROVE  IsFiniteSet(Owing(q)) /\ Due(q) \in Nat
<1> DEFINE n == Len(q)
<1>1. n \in Nat
  BY SeqFacts
<1> HIDE DEF n
<1>2. IsFiniteSet(1..n)
  BY <1>1, FS_Interval
<1>3. Owing(q) \subseteq 1..n
  BY DEF Owing, n
<1>4. IsFiniteSet(Owing(q))
  BY <1>2, <1>3, FS_Subset
<1> QED
  BY <1>4, FS_CardinalityType DEF Due

\* A run of numbers is counted the same further on.
LEMMA ShiftCount ==
    ASSUME NEW S \in SUBSET Nat, IsFiniteSet(S), NEW n \in Nat
    PROVE  LET T == {n + i : i \in S}
           IN IsFiniteSet(T) /\ Cardinality(T) = Cardinality(S)
<1> DEFINE T == {n + i : i \in S}
           f == [i \in S |-> n + i]
<1>1. f \in Bijection(S, T)
  BY DEF Bijection, Injection, Surjection, IsInjective
<1>2. ExistsBijection(S, T)
  BY <1>1 DEF ExistsBijection
<1> HIDE DEF T, f
<1> QED
  BY <1>2, FS_Bijection DEF T

LEMMA DueJoined ==
    ASSUME NEW p, NEW q, IsSeq(p), IsSeq(q)
    PROVE  Due(Joined(p, q)) = Due(p) + Due(q)
<1> DEFINE n == Len(p)
           all == Joined(p, q)
           A == Owing(p)
           B == Owing(q)
           C == {n + i : i \in B}
<1>1. /\ n \in Nat /\ Len(q) \in Nat /\ Len(all) = n + Len(q)
      /\ \A i \in 1..n : all[i] = p[i]
      /\ \A i \in 1..Len(q) : all[n + i] = q[i]
      /\ \A i \in 1..(n + Len(q)) : i \notin 1..n => i - n \in 1..Len(q) /\ all[i] = q[i - n]
  BY JoinedIs, SeqFacts
<1> HIDE DEF all, n
<1>2. \A i \in A : i \in 1..n /\ Owes(p[i])
  BY DEF Owing, n
<1>3. \A i \in B : i \in 1..Len(q) /\ Owes(q[i])
  BY DEF Owing
<1>4. Owing(all) = A \cup C
  <2>1. ASSUME NEW i \in Owing(all) PROVE i \in A \cup C
    <3>1. i \in 1..(n + Len(q)) /\ Owes(all[i])
      BY <1>1, <2>1 DEF Owing
    <3>2. CASE i \in 1..n
      BY <1>1, <3>1, <3>2 DEF Owing, n
    <3>3. CASE i \notin 1..n
      <4> DEFINE j == i - n
      <4>1. j \in 1..Len(q) /\ all[i] = q[j] /\ i = n + j
        BY <1>1, <3>1, <3>3
      <4> HIDE DEF j
      <4>2. j \in B
        BY <3>1, <4>1 DEF Owing
      <4> QED
        BY <4>1, <4>2
    <3> QED
      BY <3>2, <3>3
  <2>2. ASSUME NEW i \in A PROVE i \in Owing(all)
    BY <1>1, <1>2 DEF Owing
  <2>3. ASSUME NEW j \in B PROVE n + j \in Owing(all)
    BY <1>1, <1>3 DEF Owing
  <2> QED
    BY <2>1, <2>2, <2>3
<1>5. IsFiniteSet(A) /\ IsFiniteSet(B) /\ Cardinality(A) \in Nat /\ Cardinality(B) \in Nat
  BY OwingFinite DEF Due
<1>6. B \subseteq Nat
  BY <1>3
<1> HIDE DEF A, B
<1>7. IsFiniteSet(C) /\ Cardinality(C) = Cardinality(B)
  BY <1>1, <1>5, <1>6, ShiftCount
<1>8. A \cap C = {}
  BY <1>1, <1>2, <1>3
<1> HIDE DEF C
<1>9. Cardinality(A \cup C) = Cardinality(A) + Cardinality(C) - Cardinality({})
  BY <1>5, <1>7, <1>8, FS_Union
<1>10. Cardinality({}) = 0
  BY FS_EmptySet
<1>11. Cardinality(Owing(all)) = Cardinality(A) + Cardinality(B)
  BY <1>4, <1>5, <1>7, <1>9, <1>10
<1> QED
  BY <1>11 DEF Due, A, B, all

LEMMA SenseJoined ==
    ASSUME NEW p, NEW q, IsSeq(p), IsSeq(q)
    PROVE  /\ AsksOn(Joined(p, q)) <=> AsksOn(p) \/ AsksOn(q)
           /\ Settled(Joined(p, q)) <=> Settled(q) /\ (Settled(p) \/ AsksOn(q))
<1> DEFINE n == Len(p)
           k == Len(q)
           all == Joined(p, q)
<1>1. /\ n \in Nat /\ k \in Nat /\ Len(all) = n + k
      /\ \A i \in 1..n : all[i] = p[i]
      /\ \A i \in 1..k : all[n + i] = q[i]
      /\ \A i \in 1..(n + k) : i \notin 1..n => i - n \in 1..k /\ all[i] = q[i - n]
  BY JoinedIs, SeqFacts
<1>0. /\ AsksOn(all) <=> \E i \in 1..(n + k) : Wants(all[i])
      /\ AsksOn(p) <=> \E i \in 1..n : Wants(p[i])
      /\ AsksOn(q) <=> \E i \in 1..k : Wants(q[i])
      /\ Settled(all) <=> \A i \in 1..(n + k) :
                               Gives(all[i]) => \E j \in (i + 1)..(n + k) : Wants(all[j])
      /\ Settled(p) <=> \A i \in 1..n : Gives(p[i]) => \E j \in (i + 1)..n : Wants(p[j])
      /\ Settled(q) <=> \A i \in 1..k : Gives(q[i]) => \E j \in (i + 1)..k : Wants(q[j])
  BY <1>1 DEF AsksOn, Settled
<1> HIDE DEF all, n, k
<1>2. AsksOn(all) <=> AsksOn(p) \/ AsksOn(q)
  <2>1. ASSUME AsksOn(all) PROVE AsksOn(p) \/ AsksOn(q)
    <3>1. PICK i \in 1..(n + k) : Wants(all[i])
      BY <1>0, <2>1
    <3>2. CASE i \in 1..n
      BY <1>0, <1>1, <3>1, <3>2
    <3>3. CASE i \notin 1..n
      BY <1>0, <1>1, <3>1, <3>3
    <3> QED
      BY <3>2, <3>3
  <2>2. ASSUME AsksOn(p) PROVE AsksOn(all)
    BY <1>0, <1>1, <2>2
  <2>3. ASSUME AsksOn(q) PROVE AsksOn(all)
    <3>1. PICK i \in 1..k : Wants(q[i])
      BY <1>0, <2>3
    <3>2. n + i \in 1..(n + k) /\ Wants(all[n + i])
      BY <1>1, <3>1
    <3> QED
      BY <1>0, <3>2
  <2> QED
    BY <2>1, <2>2, <2>3
<1>3. ASSUME Settled(all) PROVE Settled(q) /\ (Settled(p) \/ AsksOn(q))
  <2>1. Settled(q)
    <3>1. ASSUME NEW i \in 1..k, Gives(q[i]) PROVE \E j \in (i + 1)..k : Wants(q[j])
      <4>1. n + i \in 1..(n + k) /\ Gives(all[n + i])
        BY <1>1, <3>1
      <4>2. PICK j \in (n + i + 1)..(n + k) : Wants(all[j])
        BY <1>0, <1>3, <4>1
      <4>3. j - n \in (i + 1)..k /\ Wants(q[j - n])
        BY <1>1, <4>2
      <4> QED
        BY <4>3
    <3> QED
      BY <1>0, <3>1
  <2>2. ASSUME ~AsksOn(q) PROVE Settled(p)
    <3>1. ASSUME NEW i \in 1..n, Gives(p[i]) PROVE \E j \in (i + 1)..n : Wants(p[j])
      <4>1. i \in 1..(n + k) /\ Gives(all[i])
        BY <1>1, <3>1
      <4>2. PICK j \in (i + 1)..(n + k) : Wants(all[j])
        BY <1>0, <1>3, <4>1
      <4>3. CASE j \in 1..n
        BY <1>1, <4>2, <4>3
      <4>4. CASE j \notin 1..n
        BY <1>0, <1>1, <2>2, <4>2, <4>4
      <4> QED
        BY <4>3, <4>4
    <3> QED
      BY <1>0, <3>1
  <2> QED
    BY <2>1, <2>2
<1>4. ASSUME Settled(q), Settled(p) \/ AsksOn(q) PROVE Settled(all)
  <2>1. ASSUME NEW i \in 1..(n + k), Gives(all[i]) PROVE \E j \in (i + 1)..(n + k) : Wants(all[j])
    <3>1. CASE i \notin 1..n
      <4>1. i - n \in 1..k /\ Gives(q[i - n])
        BY <1>1, <2>1, <3>1
      <4>2. PICK j \in (i - n + 1)..k : Wants(q[j])
        BY <1>0, <1>4, <4>1
      <4>3. n + j \in (i + 1)..(n + k) /\ Wants(all[n + j])
        BY <1>1, <4>1, <4>2
      <4> QED
        BY <4>3
    <3>2. CASE i \in 1..n /\ AsksOn(q)
      <4>1. PICK j \in 1..k : Wants(q[j])
        BY <1>0, <3>2
      <4>2. n + j \in (i + 1)..(n + k) /\ Wants(all[n + j])
        BY <1>1, <3>2, <4>1
      <4> QED
        BY <4>2
    <3>3. CASE i \in 1..n /\ Settled(p)
      <4>1. Gives(p[i])
        BY <1>1, <2>1, <3>3
      <4>2. PICK j \in (i + 1)..n : Wants(p[j])
        BY <1>0, <3>3, <4>1
      <4>3. j \in (i + 1)..(n + k) /\ Wants(all[j])
        BY <1>1, <3>3, <4>2
      <4> QED
        BY <4>3
    <3> QED
      BY <1>4, <3>1, <3>2, <3>3
  <2> QED
    BY <1>0, <2>1
<1> QED
  BY <1>2, <1>3, <1>4 DEF all

LEMMA MuteSays ==
    ASSUME NEW q, IsSeq(q), Mute(q)
    PROVE  Due(q) = 0 /\ ~AsksOn(q) /\ Settled(q)
<1>1. \A i \in 1..Len(q) : ~Owes(q[i])
  BY SeqFacts DEF Mute
<1>2. Owing(q) = {}
  BY <1>1 DEF Owing
<1> QED
  BY <1>1, <1>2, FS_EmptySet DEF Due, AsksOn, Settled, Owes

LEMMA OneSays ==
    ASSUME NEW m
    PROVE  /\ IsSeq(<<m>>)
           /\ Due(<<m>>) = IF Owes(m) THEN 1 ELSE 0
           /\ AsksOn(<<m>>) <=> Wants(m)
           /\ Settled(<<m>>) <=> ~Gives(m)
<1> DEFINE q == <<m>>
<1>1. IsSeq(q) /\ Len(q) = 1 /\ q[1] = m
  BY SeqOne
<1> HIDE DEF q
<1>2. Owing(q) = IF Owes(m) THEN {1} ELSE {}
  BY <1>1 DEF Owing
<1>3. Due(q) = IF Owes(m) THEN 1 ELSE 0
  BY <1>2, FS_Singleton, FS_EmptySet DEF Due
<1>4. (AsksOn(q) <=> Wants(m)) /\ (Settled(q) <=> ~Gives(m))
  BY <1>1 DEF AsksOn, Settled
<1> QED
  BY <1>1, <1>3, <1>4 DEF q

\* The messages of a stream, one more at the end or the first one gone.
LEMMA GrownSays ==
    ASSUME NEW q, IsSeq(q), NEW m
    PROVE  /\ Due(Grown(q, m)) = Due(q) + (IF Owes(m) THEN 1 ELSE 0)
           /\ AsksOn(Grown(q, m)) <=> AsksOn(q) \/ Wants(m)
           /\ Settled(Grown(q, m)) <=> ~Gives(m) /\ (Settled(q) \/ Wants(m))
<1>1. Grown(q, m) = Joined(q, <<m>>)
  <2>1. \E S : q \in Seq(S) /\ m \in S
    <3>1. PICK S : q \in Seq(S)
      BY DEF IsSeq
    <3>2. q \in Seq(S \cup {m})
      BY <3>1
    <3> QED
      BY <3>2
  <2> QED
    BY <2>1 DEF Grown, Joined
<1>2. IsSeq(<<m>>)
  BY SeqOne
<1> QED
  BY <1>1, <1>2, OneSays, DueJoined, SenseJoined

LEMMA TailSays ==
    ASSUME NEW q, IsSeq(q), q # <<>>
    PROVE  /\ Due(q) = (IF Owes(Head(q)) THEN 1 ELSE 0) + Due(Tail(q))
           /\ AsksOn(q) <=> Wants(Head(q)) \/ AsksOn(Tail(q))
           /\ Settled(q) <=> Settled(Tail(q)) /\ (~Gives(Head(q)) \/ AsksOn(Tail(q)))
<1> DEFINE m == Head(q)
           p == Tail(q)
<1>1. q = Joined(<<m>>, p) /\ IsSeq(p)
  <2>1. PICK S : q \in Seq(S)
    BY DEF IsSeq
  <2> QED
    BY <2>1, SeqTail DEF Joined
<1>2. IsSeq(<<m>>)
  BY SeqOne
<1> HIDE DEF m, p
<1>3. /\ Due(q) = Due(<<m>>) + Due(p)
      /\ AsksOn(q) <=> AsksOn(<<m>>) \/ AsksOn(p)
      /\ Settled(q) <=> Settled(p) /\ (Settled(<<m>>) \/ AsksOn(p))
  BY <1>1, <1>2, DueJoined, SenseJoined
<1> QED
  BY <1>3, OneSays DEF m, p

\* Something that is asked for is owed.
LEMMA NothingDue ==
    ASSUME NEW q, IsSeq(q)
    PROVE  /\ Due(q) \in Nat
           /\ AsksOn(q) \/ ~Settled(q) => Due(q) # 0
           /\ q = <<>> => Due(q) = 0 /\ Settled(q) /\ ~AsksOn(q)
<1>1. IsFiniteSet(Owing(q)) /\ Due(q) \in Nat
  BY OwingFinite
<1>2. ASSUME AsksOn(q) \/ ~Settled(q) PROVE Owing(q) # {}
  BY <1>2 DEF AsksOn, Settled, Owing, Owes
<1>3. Owing(q) # {} => Due(q) # 0
  BY <1>1, FS_EmptySet DEF Due
<1>4. ASSUME q = <<>> PROVE Due(q) = 0 /\ Settled(q) /\ ~AsksOn(q)
  BY <1>4, MuteSays, SeqEmpty DEF Mute
<1> QED
  BY <1>1, <1>2, <1>3, <1>4

-----------------------------------------------------------------------------
(* A conversation that makes sense                                          *)

ChangeKinds == {"none", "added", "modified", "removed"}
States == [pending : Int, current : BOOLEAN, changes : [Ads -> ChangeKinds]]
Remote(n) == [at : 0..n, data : 0..Mine]

\* What is written on the stream is well formed: b is that the backend refuses, n the
\* version of the collection.
Names(x, ad) == x \in Nat /\ IF x = Query THEN ad = "all" ELSE ad \in Ads
AskOk(m, n) == /\ m.type \in {"watch", "unwatch"} /\ m.target \in Nat
               /\ m.type = "watch" => Names(m.target, m.ad) /\ m.token \in 0..n
SaidOk(m, b, n) ==
  \/ /\ m \in [type : {"added", "removed", "current", "rejected"}, target : Nat]
     /\ m.type = "rejected" /\ m.target = Query => b
  \/ m \in [type : {"reset"}, target : {Query}] /\ ~b
  \/ /\ m \in [type : {"filter"}, target : Nat, count : 0..Cardinality(Ads)]
     /\ ~b /\ (m.target # Query => m.count \in {0, 1})
  \/ m \in [type : {"snapshot"}, version : 1..n]
  \/ /\ m.type = "docs" /\ m.target \in Nat /\ ~b
     /\ DOMAIN m.docs \subseteq Ads /\ \A d \in DOMAIN m.docs : m.docs[d] \in Remote(n)
Texts(s, b, n) ==
  /\ \A x \in DOMAIN s.listen : Names(x, s.listen[x].ad) /\ s.listen[x].token \in 0..n
  /\ \A x \in DOMAIN s.lookups : s.lookups[x].ad \in Ads
  /\ Range(s.enqueued) \subseteq Ads
  /\ \A m \in Range(s.up) : AskOk(m, n)
  /\ \A m \in Range(s.down) : SaidOk(m, b, n)
  /\ \A d \in DOMAIN s.agg.docs : s.agg.docs[d] \in Remote(n)

\* The aggregator has counted the answers to come, and what the phone wants is what
\* it said last: on is that it listens to the query, down what is still to be read.
Owe(s, b, on, down) ==
  s.stream = "Open" /\ ~b =>
    /\ TargetState(s, Query).pending = Due(down) + Due(s.up)
    /\ on => /\ Query \in DOMAIN s.agg.states
             /\ Settled(s.up) /\ (Settled(down) \/ AsksOn(s.up))

Modified(z) == {d \in Ads : z.changes[d] = "modified"}
Removals(z) == {d \in Ads : z.changes[d] = "removed"}

\* A document that changed is one the query has had: V are those. A backend that
\* refuses changes nothing.
Synced(s, b, on, V) ==
  /\ b => \A x \in DOMAIN s.agg.states : Modified(s.agg.states[x]) = {}
  /\ on /\ TargetState(s, Query).pending = 0 => Modified(TargetState(s, Query)) \subseteq V

\* A lookup hears of changes only after it has had its document.
News1(s, x) == s.lookups[x].received
               \/ (Modified(TargetState(s, x)) = {} /\ Removals(TargetState(s, x)) = {})
LookupNews(s) == \A x \in DOMAIN s.lookups : News1(s, x)

Typed(s) == \A x \in DOMAIN s.agg.states : s.agg.states[x] \in States
Talk(s, b, on, V) == Typed(s) /\ Owe(s, b, on, s.down) /\ Synced(s, b, on, V) /\ LookupNews(s)

Conversation == {"stream", "up", "down", "agg", "listen", "lookups", "enqueued"}
TextsKept(s, t) == \A b : \A n \in Nat : Texts(s, b, n) => Texts(t, b, n)
TalkKept(s, t) == \A b, on, V : Talk(s, b, on, V) => Talk(t, b, on, V)
Keeps(s, t) == TextsKept(s, t) /\ TalkKept(s, t)

LEMMA KeptSame == \A s : Keeps(s, s)
BY DEF Keeps, TextsKept, TalkKept

LEMMA KeptThen ==
    ASSUME NEW s, NEW t, NEW u, Keeps(s, t), Keeps(t, u)
    PROVE  Keeps(s, u)
BY DEF Keeps, TextsKept, TalkKept

LEMMA TalkFrame ==
    ASSUME NEW s, NEW t, t.stream = s.stream, t.up = s.up, t.down = s.down, t.agg = s.agg,
           t.lookups = s.lookups
    PROVE  TalkKept(s, t)
<1> SUFFICES ASSUME NEW b, NEW on, NEW V, Talk(s, b, on, V) PROVE Talk(t, b, on, V)
  BY DEF TalkKept
<1>1. \A x : TargetState(t, x) = TargetState(s, x)
  BY DEF TargetState
<1>2. Typed(t) /\ Owe(t, b, on, t.down)
  BY <1>1 DEF Talk, Typed, Owe
<1>3. Synced(t, b, on, V) /\ LookupNews(t)
  BY <1>1 DEF Talk, Synced, LookupNews, News1
<1> QED
  BY <1>2, <1>3 DEF Talk

LEMMA KeptFrame ==
    ASSUME NEW s, NEW t, NEW F, Alters(s, t, F), F \cap Conversation = {}
    PROVE  Keeps(s, t)
<1>1. /\ t.stream = s.stream /\ t.up = s.up /\ t.down = s.down /\ t.agg = s.agg
      /\ t.listen = s.listen /\ t.lookups = s.lookups /\ t.enqueued = s.enqueued
  BY DEF Alters, Fields, Conversation
<1>2. TextsKept(s, t)
  BY <1>1 DEF TextsKept, Texts
<1>3. TalkKept(s, t)
  BY <1>1, TalkFrame
<1> QED
  BY <1>2, <1>3 DEF Keeps

LEMMA KeptQuiet ==
    ASSUME NEW s, NEW t, NEW F, Quiet(s, t, F), F \cap Conversation = {}
    PROVE  Keeps(s, t)
<1>1. Alters(s, t, F \cup Broadcast) /\ (F \cup Broadcast) \cap Conversation = {}
  BY DEF Quiet, Broadcast, Conversation
<1> QED
  BY <1>1, KeptFrame

LEMMA NewStateIs ==
  /\ NewTargetState \in States /\ NewTargetState.pending = 0
  /\ Modified(NewTargetState) = {} /\ Removals(NewTargetState) = {}
BY DEF NewTargetState, States, Modified, Removals, ChangeKinds

LEMMA StateAt ==
    ASSUME NEW s, Typed(s), NEW x
    PROVE  TargetState(s, x) \in States
BY NewStateIs DEF TargetState, Typed

\* On a stream that is not open nothing was said.
LEMMA ClosedTalk ==
    ASSUME NEW t, NEW r, Conn(t, r), t.stream # "Open", NEW b, NEW on, NEW V
    PROVE  Talk(t, b, on, V)
<1>1. DOMAIN t.agg.states = {}
  BY NoStatesIs DEF Conn
<1>2. \A x : TargetState(t, x) = NewTargetState
  BY <1>1 DEF TargetState
<1>3. Typed(t) /\ Owe(t, b, on, t.down)
  BY <1>1 DEF Typed, Owe
<1>4. Synced(t, b, on, V) /\ LookupNews(t)
  BY <1>1, <1>2, NewStateIs DEF Synced, LookupNews, News1
<1> QED
  BY <1>3, <1>4 DEF Talk

LEMMA ClosedTexts ==
    ASSUME NEW s, NEW t, NEW r, Conn(t, r), t.stream # "Open",
           t.listen = s.listen, t.lookups = s.lookups, t.enqueued = s.enqueued
    PROVE  TextsKept(s, t)
<1> SUFFICES ASSUME NEW b, NEW n \in Nat, Texts(s, b, n) PROVE Texts(t, b, n)
  BY DEF TextsKept
<1>1. t.up = <<>> /\ t.down = <<>> /\ t.agg = NewAggregator
  BY DEF Conn
<1>2. DOMAIN t.agg.docs = {}
  BY <1>1 DEF NewAggregator, NoStates
<1>3. Range(t.up) = {} /\ Range(t.down) = {}
  BY <1>1, SeqEmpty
<1> QED
  BY <1>2, <1>3 DEF Texts

\* The state of one target is z, that of the others what it was.
StateIs(s, t, x, z) ==
  /\ TargetState(t, x) = z /\ \A y : y # x => TargetState(t, y) = TargetState(s, y)
  /\ DOMAIN t.agg.states = DOMAIN s.agg.states \cup {x}
  /\ \A y \in DOMAIN t.agg.states : t.agg.states[y] = TargetState(t, y)
  /\ \A y \in DOMAIN s.agg.states : s.agg.states[y] = TargetState(s, y)
StateGone(s, t, x) ==
  /\ TargetState(t, x) = NewTargetState
  /\ \A y : y # x => TargetState(t, y) = TargetState(s, y)
  /\ DOMAIN t.agg.states = DOMAIN s.agg.states \ {x}
  /\ \A y \in DOMAIN t.agg.states : t.agg.states[y] = TargetState(t, y)
  /\ \A y \in DOMAIN s.agg.states : s.agg.states[y] = TargetState(s, y)

LEMMA PutStateAt ==
    ASSUME NEW s, NEW t, NEW x, NEW z, t.agg.states = Put(s.agg.states, x, z)
    PROVE  StateIs(s, t, x, z)
<1> DEFINE old == s.agg.states
           new == t.agg.states
<1>1. new = Put(old, x, z)
  OBVIOUS
<1>2. /\ \A y : TargetState(t, y) = IF y \in DOMAIN new THEN new[y] ELSE NewTargetState
      /\ \A y : TargetState(s, y) = IF y \in DOMAIN old THEN old[y] ELSE NewTargetState
  BY DEF TargetState
<1> HIDE DEF old, new
<1>3. /\ DOMAIN new = DOMAIN old \cup {x} /\ new[x] = z
      /\ \A y \in DOMAIN old : y # x => new[y] = old[y]
  BY <1>1 DEF Put
<1>4. /\ TargetState(t, x) = z /\ \A y : y # x => TargetState(t, y) = TargetState(s, y)
      /\ DOMAIN new = DOMAIN old \cup {x}
      /\ \A y \in DOMAIN new : new[y] = TargetState(t, y)
      /\ \A y \in DOMAIN old : old[y] = TargetState(s, y)
  BY <1>2, <1>3
<1> QED
  BY <1>4 DEF old, new, StateIs

LEMMA DropStateAt ==
    ASSUME NEW s, NEW t, NEW x, t.agg.states = Drop(s.agg.states, x)
    PROVE  StateGone(s, t, x)
<1> DEFINE old == s.agg.states
           new == t.agg.states
<1>1. new = Drop(old, x)
  OBVIOUS
<1>2. /\ \A y : TargetState(t, y) = IF y \in DOMAIN new THEN new[y] ELSE NewTargetState
      /\ \A y : TargetState(s, y) = IF y \in DOMAIN old THEN old[y] ELSE NewTargetState
  BY DEF TargetState
<1> HIDE DEF old, new
<1>3. /\ DOMAIN new = DOMAIN old \ {x}
      /\ \A y \in DOMAIN old : y # x => new[y] = old[y]
  BY <1>1 DEF Drop
<1>4. /\ TargetState(t, x) = NewTargetState
      /\ \A y : y # x => TargetState(t, y) = TargetState(s, y)
      /\ DOMAIN new = DOMAIN old \ {x}
      /\ \A y \in DOMAIN new : new[y] = TargetState(t, y)
      /\ \A y \in DOMAIN old : old[y] = TargetState(s, y)
  BY <1>2, <1>3
<1> QED
  BY <1>4 DEF old, new, StateGone

-----------------------------------------------------------------------------
(* A request *)

LEMMA OneMoreIs ==
    ASSUME NEW z \in States
    PROVE  /\ OneMore(z) \in States /\ OneMore(z).pending = z.pending + 1
           /\ Modified(OneMore(z)) = Modified(z) /\ Removals(OneMore(z)) = Removals(z)
BY DEF OneMore, States, Modified, Removals

LEMMA SentTexts ==
    ASSUME NEW s, Shape(s), IsSeq(s.up), NEW x, NEW m, NEW b, NEW n,
           Texts(s, b, n), AskOk(m, n)
    PROVE  Texts(Sent(s, x, m), b, n)
<1> DEFINE t == Sent(s, x, m)
<1>1. /\ Alters(s, t, {"agg", "up", "idle"}) /\ t.up = Grown(s.up, m) /\ t.agg.docs = s.agg.docs
  <2>1. IsSent(s, t, x, m)
    BY SentIs
  <2> HIDE DEF t
  <2> QED
    BY <2>1 DEF IsSent
<1> HIDE DEF t
<1>2. t.listen = s.listen /\ t.lookups = s.lookups /\ t.enqueued = s.enqueued /\ t.down = s.down
  BY <1>1 DEF Alters, Fields
<1>3. Range(t.up) = Range(s.up) \cup {m}
  <2> DEFINE up == s.up
             new == t.up
  <2>1. new = Grown(up, m) /\ IsSeq(up)
    BY <1>1
  <2> HIDE DEF up, new
  <2>2. Range(new) = Range(up) \cup {m}
    BY <2>1, GrownIs
  <2> QED
    BY <2>2 DEF up, new
<1> QED
  BY <1>1, <1>2, <1>3 DEF Texts, t

\* The query is listened to after a watch, and not after an unwatch.
Turned(m, on) == IF m.target = Query THEN m.type = "watch" ELSE on

LEMMA SentTalk ==
    ASSUME NEW s, Shape(s), IsSeq(s.up), IsSeq(s.down), s.stream = "Open", NEW x, NEW m,
           m.type \in {"watch", "unwatch"}, m.target = x,
           NEW b, NEW on, NEW V, Talk(s, b, on, V)
    PROVE  Talk(Sent(s, x, m), b, Turned(m, on), V)
<1> DEFINE t == Sent(s, x, m)
           z == OneMore(TargetState(s, x))
           up == s.up
<1>1. /\ Alters(s, t, {"agg", "up", "idle"})
      /\ t.agg.states = Put(s.agg.states, x, z) /\ t.up = Grown(up, m)
  <2>1. IsSent(s, t, x, m)
    BY SentIs
  <2> HIDE DEF t
  <2> QED
    BY <2>1 DEF IsSent
<1>2. /\ TargetState(s, x) \in States /\ z \in States /\ z.pending = TargetState(s, x).pending + 1
      /\ Modified(z) = Modified(TargetState(s, x)) /\ Removals(z) = Removals(TargetState(s, x))
  <2>1. TargetState(s, x) \in States
    BY StateAt DEF Talk
  <2> QED
    BY <2>1, OneMoreIs
<1> HIDE DEF t, z
<1>3. t.stream = s.stream /\ t.lookups = s.lookups /\ t.down = s.down
  BY <1>1 DEF Alters, Fields
<1>4. /\ TargetState(t, x) = z /\ \A y : y # x => TargetState(t, y) = TargetState(s, y)
      /\ DOMAIN t.agg.states = DOMAIN s.agg.states \cup {x}
      /\ \A y \in DOMAIN t.agg.states : t.agg.states[y] = TargetState(t, y)
      /\ \A y \in DOMAIN s.agg.states : s.agg.states[y] = TargetState(s, y)
  <2>1. StateIs(s, t, x, z)
    BY <1>1, PutStateAt
  <2> QED
    BY <2>1 DEF StateIs
<1>5. IsSeq(up) /\ IsSeq(s.down) /\ up = s.up
  OBVIOUS
<1> HIDE DEF up
<1>6. /\ Due(t.up) = Due(up) + (IF Owes(m) THEN 1 ELSE 0)
      /\ AsksOn(t.up) <=> AsksOn(up) \/ Wants(m)
      /\ Settled(t.up) <=> ~Gives(m) /\ (Settled(up) \/ Wants(m))
  BY <1>1, <1>5, GrownSays
<1>7. Due(up) \in Nat /\ Due(s.down) \in Nat
  BY <1>5, NothingDue
<1>8. Typed(t)
  BY <1>2, <1>4 DEF Talk, Typed
<1>9. Owe(t, b, Turned(m, on), t.down)
  <2> SUFFICES ASSUME t.stream = "Open", ~b
               PROVE  /\ TargetState(t, Query).pending = Due(t.down) + Due(t.up)
                      /\ Turned(m, on) => /\ Query \in DOMAIN t.agg.states
                                          /\ Settled(t.up) /\ (Settled(t.down) \/ AsksOn(t.up))
    BY DEF Owe
  <2>1. /\ TargetState(s, Query).pending = Due(s.down) + Due(up)
        /\ on => /\ Query \in DOMAIN s.agg.states
                 /\ Settled(up) /\ (Settled(s.down) \/ AsksOn(up))
    BY <1>3, <1>5 DEF Talk, Owe
  <2>2. CASE x = Query
    <3>1. Owes(m) /\ (Wants(m) <=> m.type = "watch") /\ (Gives(m) <=> m.type = "unwatch")
      BY <2>2 DEF Owes, Wants, Gives
    <3>2. Turned(m, on) <=> m.type = "watch"
      BY <2>2 DEF Turned
    <3> QED
      BY <1>2, <1>3, <1>4, <1>6, <1>7, <2>1, <2>2, <3>1, <3>2
  <2>3. CASE x # Query
    <3>1. ~Owes(m) /\ ~Wants(m) /\ ~Gives(m) /\ (Turned(m, on) <=> on)
      BY <2>3 DEF Owes, Wants, Gives, Turned
    <3>2. TargetState(t, Query) = TargetState(s, Query)
      BY <1>4, <2>3
    <3> QED
      BY <1>3, <1>4, <1>6, <1>7, <2>1, <3>1, <3>2
  <2> QED
    BY <2>2, <2>3
<1>10. Synced(t, b, Turned(m, on), V)
  <2>1. b => \A y \in DOMAIN s.agg.states : Modified(TargetState(s, y)) = {}
    BY <1>4 DEF Talk, Synced
  <2>2. b => Modified(TargetState(s, x)) = {}
    BY <2>1, NewStateIs DEF TargetState
  <2>3. b => \A y \in DOMAIN t.agg.states : Modified(t.agg.states[y]) = {}
    BY <1>2, <1>4, <2>1, <2>2
  <2>4. ASSUME Turned(m, on), TargetState(t, Query).pending = 0
        PROVE  Modified(TargetState(t, Query)) \subseteq V
    <3>1. CASE b
      BY <1>2, <1>4, <2>1, <2>2, <3>1, NewStateIs DEF TargetState
    <3>2. CASE ~b /\ x = Query
      <4>1. TargetState(s, Query).pending = Due(s.down) + Due(up)
        BY <1>5, <3>2 DEF Talk, Owe
      <4> QED
        BY <1>2, <1>4, <1>7, <2>4, <3>2, <4>1
    <3>3. CASE x # Query
      <4>1. TargetState(t, Query) = TargetState(s, Query) /\ on
        BY <1>4, <2>4, <3>3 DEF Turned
      <4> QED
        BY <2>4, <4>1 DEF Talk, Synced
    <3> QED
      BY <3>1, <3>2, <3>3
  <2> QED
    BY <2>3, <2>4 DEF Synced
<1>11. LookupNews(t)
  <2>1. \A y : /\ Modified(TargetState(t, y)) = Modified(TargetState(s, y))
               /\ Removals(TargetState(t, y)) = Removals(TargetState(s, y))
    BY <1>2, <1>4
  <2> QED
    BY <1>3, <2>1 DEF Talk, LookupNews, News1
<1> QED
  BY <1>8, <1>9, <1>10, <1>11 DEF Talk, t

-----------------------------------------------------------------------------
(* Listening and no longer listening, and what is said of it                *)

\* What was there to be listened to, with one target more.
LEMMA ListenTexts ==
    ASSUME NEW s, NEW t, NEW x, NEW ad, NEW token, NEW b, NEW n, Texts(s, b, n),
           Names(x, ad), token \in 0..n,
           t.listen = Put(s.listen, x, [ad |-> ad, token |-> token]),
           t.lookups = s.lookups, t.enqueued = s.enqueued,
           (t.up = s.up /\ t.down = s.down /\ t.agg = s.agg)
             \/ (t.up = <<>> /\ t.down = <<>> /\ t.agg = NewAggregator)
    PROVE  Texts(t, b, n)
<1> DEFINE old == s.listen
           new == t.listen
           entry == [ad |-> ad, token |-> token]
<1>1. /\ \A y \in DOMAIN old : Names(y, old[y].ad) /\ old[y].token \in 0..n
      /\ new = Put(old, x, entry) /\ entry.ad = ad /\ entry.token = token
  BY DEF Texts
<1> HIDE DEF old, new, entry
<1>2. \A y \in DOMAIN new : Names(y, new[y].ad) /\ new[y].token \in 0..n
  BY <1>1 DEF Put
<1>3. /\ Range(t.up) \subseteq Range(s.up) /\ Range(t.down) \subseteq Range(s.down)
      /\ t.agg.docs = s.agg.docs \/ DOMAIN t.agg.docs = {}
  BY SeqEmpty DEF NewAggregator, NoStates
<1> QED
  BY <1>2, <1>3 DEF Texts, new

LEMMA RemoteListenTexts ==
    ASSUME NEW s, Shape(s), NEW r, Conn(s, r), NEW x, x \notin DOMAIN s.listen, NEW ad, NEW token,
           NEW b, NEW n \in Nat, Texts(s, b, n), Names(x, ad), token \in 0..n
    PROVE  Texts(RemoteListen(s, x, ad, token), b, n)
<1> DEFINE entry == [ad |-> ad, token |-> token]
           u == [s EXCEPT !.listen = Put(@, x, entry)]
           t == RemoteListen(s, x, ad, token)
<1>1. /\ Shape(u) /\ Alters(s, u, {"listen"}) /\ u.listen = Put(s.listen, x, entry)
      /\ u.agg = s.agg
  BY DEF Shape, Alters, Fields
<1>2. t = IF ShouldStartWatchStream(u) THEN StartWatchStream(u)
          ELSE IF s.stream = "Open" THEN SendWatchRequest(u, x, token) ELSE u
  BY DEF RemoteListen
<1>3. u.listen[x].ad = ad
  <2> DEFINE old == s.listen
             new == u.listen
  <2>1. new = Put(old, x, entry) /\ entry.ad = ad
    BY <1>1
  <2> HIDE DEF old, new, entry
  <2>2. new[x] = entry
    BY <2>1 DEF Put
  <2> QED
    BY <2>1, <2>2 DEF new
<1> HIDE DEF u, t
<1>4. /\ u.up = s.up /\ u.down = s.down /\ u.lookups = s.lookups /\ u.enqueued = s.enqueued
      /\ u.stream = s.stream
  BY <1>1 DEF Alters, Fields
<1>5. Texts(u, b, n)
  BY <1>1, <1>4, ListenTexts DEF entry
<1>6. CASE ShouldStartWatchStream(u)
  <2>1. t = StartWatchStream(u)
    BY <1>2, <1>6
  <2>2. Quiet(u, t, {"timer", "aborted", "agg", "stream"}) /\ t.agg = NewAggregator
    BY <1>1, <1>6, <2>1, StartWatchStreamIs
  <2>3. /\ t.up = u.up /\ t.down = u.down /\ t.lookups = u.lookups /\ t.enqueued = u.enqueued
        /\ t.listen = u.listen
    BY <2>2 DEF Quiet, Alters, Fields, Broadcast
  <2>4. u.up = <<>> /\ u.down = <<>>
    BY <1>4, <1>6 DEF Conn, ShouldStartWatchStream, IsStarted
  <2> QED
    BY <1>1, <1>4, <2>2, <2>3, <2>4, ListenTexts DEF t, entry
<1>7. CASE ~ShouldStartWatchStream(u) /\ s.stream = "Open"
  <2> DEFINE m == [type |-> "watch", target |-> x, ad |-> u.listen[x].ad, token |-> token]
  <2>1. t = Sent(u, x, m)
    BY <1>2, <1>7 DEF SendWatchRequest, Sent
  <2>2. AskOk(m, n)
    BY <1>3 DEF AskOk, Names
  <2> HIDE DEF m
  <2>3. IsSeq(u.up)
    BY <1>4 DEF Conn
  <2>4. Texts(Sent(u, x, m), b, n)
    BY <1>1, <1>5, <2>2, <2>3, SentTexts
  <2> QED
    BY <2>1, <2>4 DEF t
<1>8. CASE ~ShouldStartWatchStream(u) /\ s.stream # "Open"
  BY <1>2, <1>5, <1>8 DEF t
<1> QED
  BY <1>6, <1>7, <1>8

LEMMA RemoteListenTalk ==
    ASSUME NEW s, Shape(s), NEW r, Conn(s, r), NEW x, x \notin DOMAIN s.listen, NEW ad, NEW token,
           NEW b, NEW on, NEW V, Talk(s, b, on, V)
    PROVE  Talk(RemoteListen(s, x, ad, token), b, x = Query \/ on, V)
<1> DEFINE entry == [ad |-> ad, token |-> token]
           u == [s EXCEPT !.listen = Put(@, x, entry)]
           t == RemoteListen(s, x, ad, token)
           q == r \/ (x = Query /\ IsStarted(s) /\ s.online = "Unknown" /\ ~s.timer)
<1>1. Shape(u) /\ Alters(s, u, {"listen"})
  BY DEF Shape, Alters, Fields
<1>2. t = IF ShouldStartWatchStream(u) THEN StartWatchStream(u)
          ELSE IF s.stream = "Open" THEN SendWatchRequest(u, x, token) ELSE u
  BY DEF RemoteListen
<1>3. Conn(t, q)
  BY RemoteListenIs
<1> HIDE DEF u, t, q
<1>4. /\ u.up = s.up /\ u.down = s.down /\ u.lookups = s.lookups /\ u.agg = s.agg
      /\ u.stream = s.stream
  BY <1>1 DEF Alters, Fields
<1>5. Talk(u, b, on, V)
  BY <1>4, TalkFrame DEF TalkKept
<1>6. CASE t.stream # "Open"
  BY <1>3, <1>6, ClosedTalk DEF t
<1>7. CASE t.stream = "Open"
  <2>1. ~ShouldStartWatchStream(u)
    <3>1. ASSUME ShouldStartWatchStream(u) PROVE FALSE
      <4>1. t = StartWatchStream(u)
        BY <1>2, <3>1
      <4>2. t.stream \in {"Starting", "Backoff"}
        BY <1>1, <3>1, <4>1, StartWatchStreamIs
      <4> QED
        BY <1>7, <4>2
    <3> QED
      BY <3>1
  <2>2. s.stream = "Open"
    BY <1>2, <1>4, <1>7, <2>1
  <2> DEFINE m == [type |-> "watch", target |-> x, ad |-> u.listen[x].ad, token |-> token]
  <2>3. t = Sent(u, x, m)
    BY <1>2, <2>1, <2>2 DEF SendWatchRequest, Sent
  <2>4. m.type = "watch" /\ m.target = x
    OBVIOUS
  <2> HIDE DEF m
  <2>5. IsSeq(u.up) /\ IsSeq(u.down)
    BY <1>4 DEF Conn
  <2>6. Talk(t, b, Turned(m, on), V)
    BY <1>1, <1>4, <1>5, <2>2, <2>3, <2>4, <2>5, SentTalk
  <2>7. CASE x = Query
    <3>1. Turned(m, on) = TRUE /\ (x = Query \/ on) = TRUE
      BY <2>4, <2>7 DEF Turned
    <3> QED
      BY <2>6, <3>1 DEF t
  <2>8. CASE x # Query
    <3>1. Turned(m, on) = on
      BY <2>4, <2>8 DEF Turned
    <3>2. Talk(t, b, on, V)
      BY <2>6, <3>1
    <3> QED
      BY <2>8, <3>2 DEF t, Talk, Owe, Synced
  <2> QED
    BY <2>7, <2>8
<1> QED
  BY <1>6, <1>7

\* Less may be promised: that the phone does not listen, or that more is known.
LEMMA TalkLess ==
    ASSUME NEW s, NEW b, NEW on, NEW V, Talk(s, b, on, V), NEW on2, on2 => on,
           NEW W, V \subseteq W
    PROVE  Talk(s, b, on2, W)
BY DEF Talk, Owe, Synced

LEMMA DropTexts ==
    ASSUME NEW s, NEW t, NEW x, NEW b, NEW n, Texts(s, b, n),
           t.listen = Drop(s.listen, x), t.lookups = s.lookups, t.enqueued = s.enqueued,
           t.up = s.up, t.down = s.down, t.agg.docs = s.agg.docs
    PROVE  Texts(t, b, n)
<1> DEFINE old == s.listen
           new == t.listen
<1>1. /\ \A y \in DOMAIN old : Names(y, old[y].ad) /\ old[y].token \in 0..n
      /\ new = Drop(old, x)
  BY DEF Texts
<1> HIDE DEF old, new
<1>2. \A y \in DOMAIN new : Names(y, new[y].ad) /\ new[y].token \in 0..n
  BY <1>1 DEF Drop
<1> QED
  BY <1>2 DEF Texts, new

LEMMA RemoteStopListeningTalk ==
    ASSUME NEW s, Shape(s), NEW r, Conn(s, r), NEW x \in DOMAIN s.listen
    PROVE  LET t == RemoteStopListening(s, x)
           IN /\ TextsKept(s, t)
              /\ \A b, on, V : Talk(s, b, on, V) => Talk(t, b, x # Query /\ on, V)
<1> DEFINE c == Check(s, x \in DOMAIN s.listen)
           u == [c EXCEPT !.listen = Drop(@, x)]
           w == IF s.stream = "Open" THEN SendUnwatchRequest(u, x) ELSE u
           t == RemoteStopListening(s, x)
           Less(v) == \A b, on, V : Talk(s, b, on, V) => Talk(v, b, x # Query /\ on, V)
<1>1. t = IF DOMAIN w.listen # {} THEN w
          ELSE IF s.stream = "Open" THEN [w EXCEPT !.idle = TRUE]
          ELSE IF s.network THEN UpdateState(w, "Unknown") ELSE w
  BY DEF RemoteStopListening
<1>2. Shape(c) /\ Alters(s, c, {"aborted"})
  BY CheckIs
<1> HIDE DEF c
<1>3. /\ Shape(u) /\ Alters(s, u, {"listen", "aborted"}) /\ u.listen = Drop(s.listen, x)
      /\ u.agg = s.agg
  BY <1>2 DEF Shape, Alters, Fields
<1> HIDE DEF u, t
<1>4. /\ u.up = s.up /\ u.down = s.down /\ u.lookups = s.lookups /\ u.enqueued = s.enqueued
      /\ u.stream = s.stream
  BY <1>3 DEF Alters, Fields
<1>5. IsSeq(u.up) /\ IsSeq(u.down)
  BY <1>4 DEF Conn
<1>6. TextsKept(s, u)
  BY <1>3, <1>4, DropTexts DEF TextsKept
<1>7. TalkKept(s, u)
  BY <1>3, <1>4, TalkFrame
<1>8. TextsKept(s, w) /\ Less(w) /\ Shape(w)
  <2>1. CASE s.stream # "Open"
    <3>1. w = u
      BY <2>1
    <3>2. ASSUME NEW b, NEW on, NEW V, Talk(s, b, on, V) PROVE Talk(w, b, x # Query /\ on, V)
      <4>1. Talk(w, b, on, V)
        BY <1>7, <3>1, <3>2 DEF TalkKept
      <4> HIDE DEF w
      <4>2. (x # Query /\ on) => on
        OBVIOUS
      <4> QED
        BY <4>1, <4>2, TalkLess
    <3> HIDE DEF w
    <3> QED
      BY <1>3, <1>6, <3>1, <3>2
  <2>2. CASE s.stream = "Open"
    <3> DEFINE m == [type |-> "unwatch", target |-> x]
    <3>1. w = Sent(u, x, m)
      BY <2>2 DEF SendUnwatchRequest, Sent
    <3>2. m.type = "unwatch" /\ m.target = x
      OBVIOUS
    <3> HIDE DEF m, w
    <3>3. IsSent(u, w, x, m)
      BY <1>3, <3>1, SentIs
    <3>4. \A b, n : Texts(s, b, n) => AskOk(m, n)
      BY <3>2 DEF AskOk, Texts, Names
    <3>5. \A b : \A n \in Nat : Texts(u, b, n) /\ AskOk(m, n) => Texts(w, b, n)
      BY <1>3, <1>5, <3>1, SentTexts
    <3>6. ASSUME NEW b, NEW on, NEW V, Talk(s, b, on, V) PROVE Talk(w, b, x # Query /\ on, V)
      <4>1. Talk(u, b, on, V)
        BY <1>7, <3>6 DEF TalkKept
      <4>2. Talk(w, b, Turned(m, on), V)
        BY <1>3, <1>4, <1>5, <2>2, <3>1, <3>2, <4>1, SentTalk
      <4>3. (x # Query /\ on) => Turned(m, on)
        BY <3>2 DEF Turned
      <4> QED
        BY <4>2, <4>3, TalkLess
    <3>7. TextsKept(s, w)
      BY <1>6, <3>4, <3>5 DEF TextsKept
    <3>8. Shape(w)
      BY <3>3 DEF IsSent
    <3> QED
      BY <3>6, <3>7, <3>8
  <2> QED
    BY <2>1, <2>2
<1> HIDE DEF w
<1>9. Keeps(w, t)
  <2>1. CASE t = w
    BY <2>1, KeptSame
  <2>2. CASE t = [w EXCEPT !.idle = TRUE]
    <3>1. Alters(w, t, {"idle"})
      BY <1>8, <2>2 DEF Shape, Alters, Fields
    <3> QED
      BY <3>1, KeptFrame DEF Conversation
  <2>3. CASE t = UpdateState(w, "Unknown")
    <3>1. Quiet(w, t, {"timer", "failed"})
      BY <1>8, <2>3, UpdateStateIs
    <3> QED
      BY <3>1, KeptQuiet DEF Conversation
  <2> QED
    BY <1>1, <2>1, <2>2, <2>3
<1>10. TextsKept(s, t)
  BY <1>8, <1>9 DEF Keeps, TextsKept
<1>11. Less(t)
  BY <1>8, <1>9 DEF Keeps, TalkKept
<1> QED
  BY <1>10, <1>11 DEF t

-----------------------------------------------------------------------------
(* A stream that opens: everything is asked for once                        *)

LEMMA SendOneTalk ==
    ASSUME NEW s, Shape(s), IsSeq(s.up), IsSeq(s.down), s.stream = "Open", NEW x \in DOMAIN s.listen
    PROVE  LET t == SendOne(s, x)
           IN /\ TextsKept(s, t)
              /\ \A b, on, V : Talk(s, b, on, V) => Talk(t, b, x = Query \/ on, V)
<1> DEFINE m == [type |-> "watch", target |-> x, ad |-> s.listen[x].ad, token |-> s.listen[x].token]
           t == Sent(s, x, m)
<1>1. SendOne(s, x) = t
  BY DEF SendOne, SendWatchRequest, Sent
<1>2. m.type = "watch" /\ m.target = x
  OBVIOUS
<1>3. \A b, n : Texts(s, b, n) => AskOk(m, n)
  BY DEF Texts, AskOk, Names
<1> HIDE DEF m
<1>4. TextsKept(s, t)
  BY <1>3, SentTexts DEF TextsKept
<1>5. ASSUME NEW b, NEW on, NEW V, Talk(s, b, on, V) PROVE Talk(t, b, x = Query \/ on, V)
  <2>1. Talk(t, b, Turned(m, on), V)
    BY <1>2, <1>5, SentTalk
  <2>2. (x = Query \/ on) => Turned(m, on)
    BY <1>2 DEF Turned
  <2> HIDE DEF t
  <2> QED
    BY <2>1, <2>2, TalkLess
<1> HIDE DEF t
<1> QED
  BY <1>1, <1>4, <1>5

LEMMA SendWatchRequestsTalk ==
    ASSUME NEW s, Shape(s), NEW r, Conn(s, r), s.stream = "Open", NEW S, IsFiniteSet(S),
           S \subseteq DOMAIN s.listen
    PROVE  LET t == SendWatchRequests(s, S)
           IN /\ TextsKept(s, t)
              /\ \A b, V : Talk(s, b, FALSE, V) => Talk(t, b, Query \in S, V)
<1> DEFINE F == {"agg", "up", "idle"}
           Fine(done, t) == /\ Quiet(s, t, F) /\ Conn(t, r) /\ t.stream = "Open"
                            /\ TextsKept(s, t)
                            /\ \A b, V : Talk(s, b, FALSE, V) => Talk(t, b, Query \in done, V)
           after == SendWatchRequests(s, S)
<1>1. PICK R : /\ <<{}, s>> \in R
               /\ \A V : /\ <<{}, s>> \in V
                         /\ \A done, acc, x :
                               /\ <<done, acc>> \in V /\ done \subseteq S /\ x \in S \ done
                               /\ <<done \cup {x}, SendOne(acc, x)>> \in R
                               => <<done \cup {x}, SendOne(acc, x)>> \in V
                         => <<S, after>> \in V
  BY SendWatchRequestsKeep
<1> HIDE DEF after
<1> DEFINE V == {v \in R : Fine(v[1], v[2])}
<1>2. Fine({}, s)
  <2>1. (Query \in {}) = FALSE
    OBVIOUS
  <2> QED
    BY <2>1, QuietSame DEF TextsKept
<1>3. \A done, acc : \A x \in S : Fine(done, acc) => Fine(done \cup {x}, SendOne(acc, x))
  <2> SUFFICES ASSUME NEW done, NEW acc, NEW x \in S, Fine(done, acc)
               PROVE  Fine(done \cup {x}, SendOne(acc, x))
    OBVIOUS
  <2> DEFINE t == SendOne(acc, x)
  <2>1. Shape(acc) /\ acc.listen = s.listen /\ IsSeq(acc.up) /\ IsSeq(acc.down)
    BY DEF Quiet, Alters, Fields, Broadcast, Conn
  <2>2. Quiet(acc, t, F) /\ Conn(t, r) /\ t.stream = "Open"
    BY <2>1, SendOneIs
  <2>3. /\ TextsKept(acc, t)
        /\ \A b, on, W : Talk(acc, b, on, W) => Talk(t, b, x = Query \/ on, W)
    BY <2>1, SendOneTalk
  <2> HIDE DEF t
  <2>4. Quiet(s, t, F)
    BY <2>2, QuietThen
  <2>5. TextsKept(s, t)
    BY <2>3 DEF TextsKept
  <2>6. ASSUME NEW b, NEW W, Talk(s, b, FALSE, W) PROVE Talk(t, b, Query \in done \cup {x}, W)
    <3> DEFINE on == Query \in done
               now == x = Query \/ on
               then == Query \in done \cup {x}
    <3>1. Talk(acc, b, on, W)
      BY <2>6
    <3>2. Talk(t, b, now, W)
      BY <2>3, <3>1
    <3>3. then => now
      OBVIOUS
    <3> HIDE DEF now, then
    <3>4. Talk(t, b, then, W)
      BY <3>2, <3>3, TalkLess
    <3> QED
      BY <3>4 DEF then
  <2> QED
    BY <2>2, <2>4, <2>5, <2>6 DEF t
<1> HIDE DEF Fine
<1>4. <<S, after>> \in V
  BY <1>1, <1>2, <1>3
<1>5. Fine(S, after)
  BY <1>4
<1> QED
  BY <1>5 DEF Fine, after

LEMMA OnWatchStreamOpenTalk ==
    ASSUME NEW s, Shape(s), NEW r, Conn(s, r), s.stream = "Starting"
    PROVE  LET t == OnWatchStreamOpen(s)
           IN TextsKept(s, t) /\ \A b, V : Talk(t, b, Query \in DOMAIN t.listen, V)
<1> DEFINE u == [s EXCEPT !.stream = "Open"]
           S == DOMAIN s.listen
           t == SendWatchRequests(u, S)
<1>1. OnWatchStreamOpen(s) = t
  BY DEF OnWatchStreamOpen
<1>2. Shape(u) /\ Alters(s, u, {"stream"}) /\ u.stream = "Open"
  BY DEF Shape, Alters, Fields
<1>3. Quiet(s, t, {"stream", "agg", "up", "idle"})
  BY <1>1, OnWatchStreamOpenIs
<1> HIDE DEF u
<1>4. /\ u.up = s.up /\ u.down = s.down /\ u.network = s.network /\ u.agg = s.agg
      /\ u.failed = s.failed /\ u.timer = s.timer /\ u.online = s.online /\ u.idle = s.idle
      /\ u.listen = s.listen /\ u.lookups = s.lookups /\ u.enqueued = s.enqueued
  BY <1>2 DEF Alters, Fields
<1>5. Conn(u, r)
  BY <1>2, <1>4 DEF Conn, IsStarted
<1>6. u.up = <<>> /\ u.down = <<>> /\ u.agg = NewAggregator
  BY <1>4 DEF Conn
<1>7. \A b, V : Talk(u, b, FALSE, V)
  <2> SUFFICES ASSUME NEW b, NEW V PROVE Talk(u, b, FALSE, V)
    OBVIOUS
  <2>1. DOMAIN u.agg.states = {}
    BY <1>6, NoStatesIs
  <2>2. \A x : TargetState(u, x) = NewTargetState
    BY <2>1 DEF TargetState
  <2>3. Due(u.up) = 0 /\ Due(u.down) = 0
    BY <1>6, NothingDue, SeqEmpty
  <2>4. Typed(u) /\ Owe(u, b, FALSE, u.down)
    BY <2>1, <2>2, <2>3, NewStateIs DEF Typed, Owe
  <2>5. Synced(u, b, FALSE, V) /\ LookupNews(u)
    BY <2>1, <2>2, NewStateIs DEF Synced, LookupNews, News1
  <2> QED
    BY <2>4, <2>5 DEF Talk
<1>8. TextsKept(s, u)
  BY <1>4 DEF TextsKept, Texts
<1>9. IsFiniteSet(S) /\ S = DOMAIN u.listen
  BY <1>4 DEF Conn
<1> HIDE DEF S
<1>10. TextsKept(u, t) /\ \A b, V : Talk(u, b, FALSE, V) => Talk(t, b, Query \in S, V)
  BY <1>2, <1>5, <1>9, SendWatchRequestsTalk
<1> HIDE DEF t
<1>11. DOMAIN t.listen = S
  BY <1>3, <1>4, <1>9 DEF Quiet, Alters, Fields, Broadcast
<1>12. TextsKept(s, t)
  BY <1>8, <1>10 DEF TextsKept
<1>13. \A b, V : Talk(t, b, Query \in DOMAIN t.listen, V)
  BY <1>7, <1>10, <1>11
<1> QED
  BY <1>1, <1>12, <1>13

-----------------------------------------------------------------------------
(* Looking up documents in limbo                                            *)

LEMMA PumpOneKeeps ==
    ASSUME NEW s, NEW r, Shape(s), Conn(s, r), Look(s)
    PROVE  Keeps(s, PumpOne(s))
<1> DEFINE full == s.enqueued = <<>>
                   \/ Cardinality(DOMAIN s.active) >= MaxConcurrentLimboResolutions
           t == PumpOne(s)
<1>1. CASE full
  <2>1. t = s
    BY <1>1 DEF PumpOne
  <2> QED
    BY <2>1, KeptSame
<1>2. CASE ~full
  <2> DEFINE d == Head(s.enqueued)
             x == FreshId(s)
             active == IF d \in DOMAIN s.active THEN s.active ELSE Put(s.active, d, x)
             lookup == [ad |-> d, received |-> FALSE]
             lookups == Put(s.lookups, x, lookup)
             u == [s EXCEPT !.enqueued = Tail(@), !.active = active, !.lookups = lookups]
  <2>1. t = RemoteListen(u, x, d, 0)
    BY <1>2 DEF PumpOne
  <2>2. /\ Shape(u) /\ Alters(s, u, {"enqueued", "active", "lookups"})
        /\ u.enqueued = Tail(s.enqueued) /\ u.lookups = lookups
    BY DEF Shape, Alters, Fields
  <2>3. Range(u.enqueued) \subseteq Range(s.enqueued) /\ d \in Range(s.enqueued)
    BY <1>2, <2>2, SeqTail DEF Look
  <2>4. x \in Nat \ {0} /\ x \notin UsedIds(s)
    BY FreshIdIs
  <2>5. /\ x \in Nat /\ x # Query /\ x \notin DOMAIN s.listen /\ x \notin DOMAIN s.agg.states
        /\ x \notin DOMAIN s.lookups
    BY <2>4 DEF UsedIds, Look, Query
  <2> HIDE DEF t, u, active, d, x
  <2>6. /\ u.stream = s.stream /\ u.up = s.up /\ u.down = s.down /\ u.agg = s.agg
        /\ u.listen = s.listen
    BY <2>2 DEF Alters, Fields
  <2>7. Conn(u, r)
    BY <2>2, ConnSame
  <2>8. /\ \A y \in DOMAIN u.lookups : y = x \/ (y \in DOMAIN s.lookups /\ u.lookups[y] = s.lookups[y])
        /\ x \in DOMAIN u.lookups => u.lookups[x].ad = d
    <3> DEFINE old == s.lookups
               new == u.lookups
    <3>1. new = Put(old, x, lookup) /\ lookup.ad = d
      BY <2>2
    <3> HIDE DEF old, new, lookup
    <3>2. /\ \A y \in DOMAIN new : y = x \/ (y \in DOMAIN old /\ new[y] = old[y])
          /\ new[x] = lookup
      BY <3>1 DEF Put
    <3> QED
      BY <3>1, <3>2 DEF old, new
  <2> HIDE DEF lookups, lookup
  <2>9. TextsKept(s, t)
    <3> SUFFICES ASSUME NEW b, NEW n \in Nat, Texts(s, b, n) PROVE Texts(t, b, n)
      BY DEF TextsKept
    <3>1. d \in Ads
      BY <2>3 DEF Texts
    <3>2. Texts(u, b, n)
      BY <2>3, <2>6, <2>8, <3>1 DEF Texts
    <3>3. Names(x, d) /\ 0 \in 0..n
      BY <2>5, <3>1 DEF Names
    <3>4. Texts(RemoteListen(u, x, d, 0), b, n)
      BY <2>2, <2>5, <2>6, <2>7, <3>2, <3>3, RemoteListenTexts
    <3> QED
      BY <2>1, <3>4
  <2>10. TalkKept(s, t)
    <3> SUFFICES ASSUME NEW b, NEW on, NEW V, Talk(s, b, on, V) PROVE Talk(t, b, on, V)
      BY DEF TalkKept
    <3>1. \A y : TargetState(u, y) = TargetState(s, y)
      BY <2>6 DEF TargetState
    <3>2. Typed(u) /\ Owe(u, b, on, u.down) /\ Synced(u, b, on, V)
      BY <2>6, <3>1 DEF Talk, Typed, Owe, Synced
    <3>3. LookupNews(u)
      <4> SUFFICES ASSUME NEW y \in DOMAIN u.lookups PROVE News1(u, y)
        BY DEF LookupNews
      <4>1. CASE y = x
        <5>1. TargetState(u, x) = NewTargetState
          BY <2>5, <2>6 DEF TargetState
        <5> QED
          BY <4>1, <5>1, NewStateIs DEF News1
      <4>2. CASE y # x
        BY <2>8, <3>1, <4>2 DEF Talk, LookupNews, News1
      <4> QED
        BY <4>1, <4>2
    <3>4. Talk(u, b, on, V)
      BY <3>2, <3>3 DEF Talk
    <3>5. Talk(t, b, x = Query \/ on, V)
      BY <2>1, <2>2, <2>5, <2>6, <2>7, <3>4, RemoteListenTalk
    <3>6. on => x = Query \/ on
      OBVIOUS
    <3> QED
      BY <3>5, <3>6, TalkLess
  <2> QED
    BY <2>9, <2>10 DEF Keeps, t
<1> QED
  BY <1>1, <1>2

LEMMA PumpKeeps ==
    ASSUME NEW s, NEW r, Shape(s), Conn(s, r), Look(s)
    PROVE  Keeps(s, PumpEnqueuedLimboResolutions(s))
<1> DEFINE S == DOMAIN s.enqueued
           after == Pumping!Loop(0, s, S)
           Fine(t) == Limbo(s, t, r) /\ Keeps(s, t)
<1>1. IsFiniteSet(S)
  <2> DEFINE n == Len(s.enqueued)
  <2>1. n \in Nat /\ S = 1..n
    BY SeqFacts DEF Look
  <2> HIDE DEF S, n
  <2>2. IsFiniteSet(1..n)
    BY <2>1, FS_Interval
  <2> QED
    BY <2>1, <2>2
<1>0. PumpEnqueuedLimboResolutions(s) = after
  BY PumpLoop
<1> HIDE DEF S
<1>2. PICK R : /\ <<{}, s>> \in R
               /\ \A V : /\ <<{}, s>> \in V
                         /\ \A done, acc, x :
                               /\ <<done, acc>> \in V /\ done \subseteq S /\ x \in S \ done
                               /\ <<done \cup {x}, PumpOne(acc)>> \in R
                               => <<done \cup {x}, PumpOne(acc)>> \in V
                         => <<S, after>> \in V
  BY <1>1, PumpKeep
<1> HIDE DEF after
<1> DEFINE V == {v \in R : Fine(v[2])}
<1>3. Fine(s)
  BY LimboSame, KeptSame
<1>4. \A acc : Fine(acc) => Fine(PumpOne(acc))
  <2> SUFFICES ASSUME NEW acc, Fine(acc) PROVE Fine(PumpOne(acc))
    OBVIOUS
  <2>1. Shape(acc) /\ Conn(acc, r) /\ Look(acc)
    BY DEF Limbo, Quiet
  <2>2. Limbo(acc, PumpOne(acc), r) /\ Keeps(acc, PumpOne(acc))
    BY <2>1, PumpOneIs, PumpOneKeeps
  <2> QED
    BY <2>2, LimboThen, KeptThen
<1> HIDE DEF Fine
<1>5. <<S, after>> \in V
  BY <1>2, <1>3, <1>4
<1>6. Fine(after)
  BY <1>5
<1> QED
  BY <1>0, <1>6 DEF Fine

LEMMA TrackLimboChangeKeeps ==
    ASSUME NEW s, NEW r, Shape(s), Conn(s, r), Look(s), NEW d \in Ads
    PROVE  Keeps(s, TrackLimboChange(s, d))
<1> DEFINE t == TrackLimboChange(s, d)
<1>1. CASE d \in DOMAIN s.active
  <2>1. t = s
    BY <1>1 DEF TrackLimboChange
  <2> QED
    BY <2>1, KeptSame
<1>2. CASE d \notin DOMAIN s.active
  <2> DEFINE u == [s EXCEPT !.enqueued = Append(@, d)]
  <2>1. t = PumpEnqueuedLimboResolutions(u)
    BY <1>2 DEF TrackLimboChange
  <2>2. /\ Shape(u) /\ Alters(s, u, {"enqueued"}) /\ u.enqueued = Grown(s.enqueued, d)
    BY DEF Shape, Alters, Fields, Grown
  <2> HIDE DEF u, t
  <2>3. IsSeq(u.enqueued) /\ Range(u.enqueued) = Range(s.enqueued) \cup {d}
    <3> DEFINE old == s.enqueued
               all == u.enqueued
    <3>1. IsSeq(old) /\ all = Grown(old, d)
      BY <2>2 DEF Look
    <3> HIDE DEF old, all
    <3>2. IsSeq(all) /\ Range(all) = Range(old) \cup {d}
      BY <3>1, GrownIs
    <3> QED
      BY <3>2 DEF all, old
  <2>4. /\ u.active = s.active /\ u.lookups = s.lookups /\ u.listen = s.listen
        /\ u.view = s.view /\ u.stream = s.stream /\ u.up = s.up /\ u.down = s.down
        /\ u.agg = s.agg
    BY <2>2 DEF Alters, Fields
  <2>5. Conn(u, r) /\ Look(u)
    <3>1. Conn(u, r)
      BY <2>2, ConnSame
    <3> QED
      BY <2>3, <2>4, <3>1 DEF Look
  <2>6. Keeps(s, u)
    <3>1. TextsKept(s, u)
      BY <2>3, <2>4 DEF TextsKept, Texts
    <3> QED
      BY <2>4, <3>1, TalkFrame DEF Keeps
  <2>7. Keeps(u, t)
    BY <2>1, <2>2, <2>5, PumpKeeps
  <2> QED
    BY <2>6, <2>7, KeptThen DEF t
<1> QED
  BY <1>1, <1>2

\* With one lookup less there is less to hear.
LEMMA UnpairedKeeps ==
    ASSUME NEW s, Shape(s), NEW x
    PROVE  Keeps(s, Unpaired(s, x))
<1> DEFINE u == Unpaired(s, x)
<1>1. Alters(s, u, {"active", "lookups"}) /\ u.lookups = Drop(s.lookups, x)
  BY DEF Unpaired, Shape, Alters, Fields
<1> HIDE DEF u
<1>2. /\ u.stream = s.stream /\ u.up = s.up /\ u.down = s.down /\ u.agg = s.agg
      /\ u.listen = s.listen /\ u.enqueued = s.enqueued
  BY <1>1 DEF Alters, Fields
<1>3. \A y \in DOMAIN u.lookups : y \in DOMAIN s.lookups /\ u.lookups[y] = s.lookups[y]
  <2> DEFINE old == s.lookups
             new == u.lookups
  <2>1. new = Drop(old, x)
    BY <1>1
  <2> HIDE DEF old, new
  <2>2. \A y \in DOMAIN new : y \in DOMAIN old /\ new[y] = old[y]
    BY <2>1 DEF Drop
  <2> QED
    BY <2>2 DEF old, new
<1>4. TextsKept(s, u)
  BY <1>2, <1>3 DEF TextsKept, Texts
<1>5. TalkKept(s, u)
  <2> SUFFICES ASSUME NEW b, NEW on, NEW V, Talk(s, b, on, V) PROVE Talk(u, b, on, V)
    BY DEF TalkKept
  <2>1. \A y : TargetState(u, y) = TargetState(s, y)
    BY <1>2 DEF TargetState
  <2>2. Typed(u) /\ Owe(u, b, on, u.down) /\ Synced(u, b, on, V)
    BY <1>2, <2>1 DEF Talk, Typed, Owe, Synced
  <2>3. LookupNews(u)
    BY <1>3, <2>1 DEF Talk, LookupNews, News1
  <2> QED
    BY <2>2, <2>3 DEF Talk
<1> QED
  BY <1>4, <1>5 DEF Keeps, u

LEMMA RemoveLimboTargetKeeps ==
    ASSUME NEW s, NEW r, Shape(s), Conn(s, r), Look(s), NEW d
    PROVE  Keeps(s, RemoveLimboTarget(s, d))
<1> DEFINE t == RemoveLimboTarget(s, d)
<1>1. CASE d \notin DOMAIN s.active
  <2>1. t = s
    BY <1>1 DEF RemoveLimboTarget
  <2> QED
    BY <2>1, KeptSame
<1>2. CASE d \in DOMAIN s.active
  <2> DEFINE x == s.active[d]
             w == RemoteStopListening(s, x)
             u == Unpaired(w, x)
  <2>1. x \in DOMAIN s.lookups /\ s.lookups[x].ad = d /\ x \in DOMAIN s.listen /\ x # Query
    BY <1>2 DEF Look, Paired
  <2>2. t = PumpEnqueuedLimboResolutions([w EXCEPT !.active = Drop(@, d), !.lookups = Drop(@, x)])
    BY <1>2 DEF RemoveLimboTarget
  <2> HIDE DEF x
  <2>3. /\ Quiet(s, w, {"listen", "timer", "failed", "aborted", "agg", "up", "idle"})
        /\ w.listen = Drop(s.listen, x) /\ Conn(w, r)
    BY RemoteStopListeningIs
  <2>4. /\ TextsKept(s, w)
        /\ \A b, on, V : Talk(s, b, on, V) => Talk(w, b, x # Query /\ on, V)
    BY <2>1, RemoteStopListeningTalk
  <2> HIDE DEF w, t
  <2>5. Keeps(s, w)
    <3>1. ASSUME NEW b, NEW on, NEW V, Talk(s, b, on, V) PROVE Talk(w, b, on, V)
      <4>1. Talk(w, b, x # Query /\ on, V)
        BY <2>4, <3>1
      <4>2. on => x # Query /\ on
        BY <2>1
      <4> QED
        BY <4>1, <4>2, TalkLess
    <3> QED
      BY <2>4, <3>1 DEF Keeps, TalkKept
  <2>6. /\ w.active = s.active /\ w.lookups = s.lookups /\ w.enqueued = s.enqueued
        /\ Shape(w) /\ SameView(s.view, w.view)
    BY <2>3 DEF Quiet, Alters, Fields, Broadcast
  <2>7. t = PumpEnqueuedLimboResolutions(u)
    BY <2>1, <2>2, <2>6 DEF Unpaired
  <2>8. DOMAIN w.listen = DOMAIN s.listen \ {x}
    BY <2>3, DropIs
  <2>9. Shape(u) /\ Conn(u, r) /\ Look(u)
    <3>1. /\ IsSeq(w.enqueued) /\ Paired(w.active, w.lookups)
          /\ Query \notin DOMAIN w.lookups /\ x \in DOMAIN w.lookups
          /\ DOMAIN w.listen \ {Query} = DOMAIN w.lookups \ {x}
          /\ w.view # NoView => w.view.limbo \subseteq Ads
      BY <2>1, <2>6, <2>8 DEF Look, SameView
    <3> HIDE DEF u
    <3> QED
      BY <2>3, <2>6, <3>1, UnpairedIs DEF u
  <2>10. Keeps(w, u)
    BY <2>6, UnpairedKeeps
  <2> HIDE DEF u
  <2>11. Keeps(u, t)
    BY <2>7, <2>9, PumpKeeps
  <2>12. Keeps(w, t)
    BY <2>10, <2>11, KeptThen
  <2> QED
    BY <2>5, <2>12, KeptThen DEF t
<1> QED
  BY <1>1, <1>2

LEMMA RemoveLimboTargetsKeeps ==
    ASSUME NEW s, NEW r, Shape(s), Conn(s, r), Look(s), NEW S, IsFiniteSet(S)
    PROVE  Keeps(s, RemoveLimboTargets(s, S))
<1> DEFINE Fine(t) == Limbo(s, t, r) /\ Keeps(s, t)
           after == Removing!Loop(0, s, S)
<1>1. PICK R : /\ <<{}, s>> \in R
               /\ \A V : /\ <<{}, s>> \in V
                         /\ \A done, acc, x :
                               /\ <<done, acc>> \in V /\ done \subseteq S /\ x \in S \ done
                               /\ <<done \cup {x}, RemoveLimboTarget(acc, x)>> \in R
                               => <<done \cup {x}, RemoveLimboTarget(acc, x)>> \in V
                         => <<S, after>> \in V
  BY RemoveKeep
<1> HIDE DEF after
<1> DEFINE V == {v \in R : Fine(v[2])}
<1>2. Fine(s)
  BY LimboSame, KeptSame
<1>3. \A acc, x : Fine(acc) => Fine(RemoveLimboTarget(acc, x))
  <2> SUFFICES ASSUME NEW acc, NEW x, Fine(acc) PROVE Fine(RemoveLimboTarget(acc, x))
    OBVIOUS
  <2> DEFINE t == RemoveLimboTarget(acc, x)
  <2>1. Shape(acc) /\ Conn(acc, r) /\ Look(acc)
    BY DEF Limbo, Quiet
  <2>2. Limbo(acc, t, r) /\ Keeps(acc, t)
    BY <2>1, RemoveLimboTargetIs, RemoveLimboTargetKeeps
  <2> HIDE DEF t
  <2>3. Limbo(s, t, r) /\ Keeps(s, t)
    BY <2>2, LimboThen, KeptThen
  <2> QED
    BY <2>3 DEF t
<1> HIDE DEF Fine
<1>4. <<S, after>> \in V
  BY <1>1, <1>2, <1>3
<1>5. Fine(after)
  BY <1>4
<1> QED
  BY <1>5, RemoveLoop DEF Fine, after

LEMMA TrackLimboChangesKeeps ==
    ASSUME NEW s, NEW r, Shape(s), Conn(s, r), Look(s), NEW S, S \subseteq Ads
    PROVE  Keeps(s, TrackLimboChanges(s, S))
<1> DEFINE Fine(t) == Limbo(s, t, r) /\ Keeps(s, t)
           after == Tracking!Loop(0, s, S)
<1>0. IsFiniteSet(S)
  BY FS_Subset, BoundsAssumption
<1>1. PICK R : /\ <<{}, s>> \in R
               /\ \A V : /\ <<{}, s>> \in V
                         /\ \A done, acc, x :
                               /\ <<done, acc>> \in V /\ done \subseteq S /\ x \in S \ done
                               /\ <<done \cup {x}, TrackLimboChange(acc, x)>> \in R
                               => <<done \cup {x}, TrackLimboChange(acc, x)>> \in V
                         => <<S, after>> \in V
  BY <1>0, TrackKeep
<1> HIDE DEF after
<1> DEFINE V == {v \in R : Fine(v[2])}
<1>2. Fine(s)
  BY LimboSame, KeptSame
<1>3. \A acc : \A x \in S : Fine(acc) => Fine(TrackLimboChange(acc, x))
  <2> SUFFICES ASSUME NEW acc, NEW x \in S, Fine(acc) PROVE Fine(TrackLimboChange(acc, x))
    OBVIOUS
  <2> DEFINE t == TrackLimboChange(acc, x)
  <2>1. Shape(acc) /\ Conn(acc, r) /\ Look(acc) /\ x \in Ads
    BY DEF Limbo, Quiet
  <2>2. Limbo(acc, t, r) /\ Keeps(acc, t)
    BY <2>1, TrackLimboChangeIs, TrackLimboChangeKeeps
  <2> HIDE DEF t
  <2>3. Limbo(s, t, r) /\ Keeps(s, t)
    BY <2>2, LimboThen, KeptThen
  <2> QED
    BY <2>3 DEF t
<1> HIDE DEF Fine
<1>4. <<S, after>> \in V
  BY <1>1, <1>2, <1>3
<1>5. Fine(after)
  BY <1>4
<1> QED
  BY <1>5, TrackLoop DEF Fine, after

-----------------------------------------------------------------------------
(* The view and what the query has had                                      *)

SyncedOf(s) == IF s.view = NoView THEN Ads ELSE s.view.synced

LEMMA EmitNewSnapshotsKeeps ==
    ASSUME NEW s, NEW r, Good(s, r), NEW changed, NEW tc
    PROVE  LET t == EmitNewSnapshots(s, changed, tc)
           IN /\ Keeps(s, t)
              /\ tc = NoChange => SyncedOf(t) = SyncedOf(s)
              /\ tc # NoChange => SyncedOf(t) \subseteq SyncedOf(s) \cup tc.added
<1> DEFINE t == EmitNewSnapshots(s, changed, tc)
<1>1. CASE s.view = NoView
  <2>1. t = s
    BY <1>1 DEF EmitNewSnapshots
  <2> QED
    BY <2>1, KeptSame
<1>2. CASE s.view # NoView
  <2> DEFINE docs == ComputeDocumentChanges(s, changed)
             view == ApplyChanges(s.view, docs, tc)
             gone == s.view.limbo \ view.limbo
             new == view.limbo \ s.view.limbo
             a == RemoveLimboTargets(s, gone)
             b == TrackLimboChanges(a, new)
             cond == tc = NoChange \/ tc.modified \subseteq s.view.synced \cup tc.added
             c == Check(b, cond)
  <2>1. t = WithView(c, view)
    BY <1>2 DEF EmitNewSnapshots, UpdateTrackedLimboDocuments
  <2>2. Shape(s) /\ Conn(s, r) /\ Look(s)
    BY DEF Good
  <2>3. /\ DOMAIN view = ViewFields /\ view # NoView
        /\ view.limbo = LimboOf(view) \/ view.limbo = s.view.limbo
        /\ view.synced = IF tc = NoChange THEN s.view.synced
                         ELSE (s.view.synced \cup tc.added) \ tc.removed
    <3> DEFINE old == s.view
               v == ApplyChanges(old, docs, tc)
    <3>1. DOMAIN old = ViewFields
      BY <1>2, <2>2 DEF Shape
    <3> HIDE DEF docs, old
    <3>2. /\ DOMAIN v = ViewFields /\ v # NoView
          /\ v.state \in {"Synced", "Local"}
          /\ v.docs = docs
          /\ v.synced = IF tc = NoChange THEN old.synced ELSE (old.synced \cup tc.added) \ tc.removed
          /\ v.current = IF tc = NoChange THEN old.current ELSE tc.current
          /\ v.limbo = IF v.current THEN LimboOf(v) ELSE old.limbo
      BY <3>1, ApplyChangesIs
    <3> QED
      BY <3>2 DEF old
  <2> HIDE DEF view, docs
  <2>4. view.limbo \subseteq Ads /\ s.view.limbo \subseteq Ads
    BY <1>2, <2>2, <2>3 DEF Look, LimboOf
  <2> DEFINE then == view.limbo
             before == s.view.limbo
  <2>5. gone \subseteq before /\ new \subseteq then /\ before \subseteq Ads /\ then \subseteq Ads
    BY <2>4
  <2> HIDE DEF then, before
  <2> HIDE DEF gone, new
  <2>6. IsFiniteSet(gone) /\ IsFiniteSet(new) /\ new \subseteq Ads
    <3>1. gone \subseteq Ads /\ new \subseteq Ads
      BY <2>5
    <3> QED
      BY <3>1, FS_Subset, BoundsAssumption
  <2>7. Limbo(s, a, r) /\ Keeps(s, a)
    BY <2>2, <2>6, RemoveLimboTargetsIs, RemoveLimboTargetsKeeps
  <2> HIDE DEF a
  <2>8. Shape(a) /\ Conn(a, r) /\ Look(a)
    BY <2>7 DEF Limbo, Quiet
  <2>9. Limbo(a, b, r) /\ Keeps(a, b)
    BY <2>6, <2>8, TrackLimboChangesIs, TrackLimboChangesKeeps
  <2> HIDE DEF b
  <2>10. Shape(b) /\ Keeps(s, b)
    BY <2>7, <2>9, KeptThen DEF Limbo, Quiet
  <2> HIDE DEF cond
  <2>11. Shape(c) /\ Alters(b, c, {"aborted"})
    BY <2>10, CheckIs
  <2> HIDE DEF c, t
  <2>12. Alters(c, t, {"view", "mail", "raised"}) /\ t.view = view
    BY <2>1, <2>3, <2>11, WithViewIs
  <2>13. Keeps(b, c) /\ Keeps(c, t)
    BY <2>11, <2>12, KeptFrame DEF Conversation
  <2>14. Keeps(s, c)
    BY <2>10, <2>13, KeptThen
  <2>15. Keeps(s, t)
    BY <2>13, <2>14, KeptThen
  <2>16. SyncedOf(t) = view.synced /\ SyncedOf(s) = s.view.synced
    BY <1>2, <2>3, <2>12 DEF SyncedOf
  <2> QED
    BY <2>3, <2>15, <2>16 DEF t
<1> QED
  BY <1>1, <1>2

-----------------------------------------------------------------------------
(* An event, for the conversation                                           *)

\* The targets S have no news in the aggregator.
Cleared(s, S) ==
  \A x \in S : Modified(TargetState(s, x)) = {} /\ Removals(TargetState(s, x)) = {}

LEMMA ReceivedByLookupsKeeps ==
    ASSUME NEW s, NEW r, Good(s, r), NEW changes, NEW S, S \subseteq DOMAIN s.lookups
    PROVE  LET t == ReceivedByLookups(s, changes, S)
           IN TextsKept(s, t) /\ (Cleared(s, S) => TalkKept(s, t))
<1> DEFINE t == ReceivedByLookups(s, changes, S)
<1>1. /\ Alters(s, t, {"aborted", "lookups"})
      /\ DOMAIN t.lookups = DOMAIN s.lookups
      /\ \A y \in DOMAIN s.lookups : /\ t.lookups[y].ad = s.lookups[y].ad
                                     /\ y \notin S => t.lookups[y] = s.lookups[y]
  BY ReceivedByLookupsIs
<1> HIDE DEF t
<1>2. /\ t.stream = s.stream /\ t.up = s.up /\ t.down = s.down /\ t.agg = s.agg
      /\ t.listen = s.listen /\ t.enqueued = s.enqueued
  BY <1>1 DEF Alters, Fields
<1>3. TextsKept(s, t)
  BY <1>1, <1>2 DEF TextsKept, Texts
<1>4. ASSUME Cleared(s, S), NEW b, NEW on, NEW V, Talk(s, b, on, V) PROVE Talk(t, b, on, V)
  <2>1. \A x : TargetState(t, x) = TargetState(s, x)
    BY <1>2 DEF TargetState
  <2>2. Typed(t) /\ Owe(t, b, on, t.down)
    BY <1>2, <1>4, <2>1 DEF Talk, Typed, Owe
  <2>3. Synced(t, b, on, V)
    BY <1>2, <1>4, <2>1 DEF Talk, Synced
  <2>4. LookupNews(t)
    <3> SUFFICES ASSUME NEW x \in DOMAIN s.lookups PROVE News1(t, x)
      BY <1>1 DEF LookupNews
    <3>1. CASE x \in S
      BY <1>4, <2>1, <3>1 DEF News1, Cleared
    <3>2. CASE x \notin S
      <4>1. News1(s, x)
        BY <1>4 DEF Talk, LookupNews
      <4> QED
        BY <1>1, <2>1, <3>2, <4>1 DEF News1
    <3> QED
      BY <3>1, <3>2
  <2> QED
    BY <2>2, <2>3, <2>4 DEF Talk
<1> QED
  BY <1>3, <1>4 DEF TalkKept, t

\* The event of a snapshot finds its targets cleared; that of a rejection has none.
LEMMA ApplyRemoteEventKeeps ==
    ASSUME NEW s, NEW r, Good(s, r), NEW event
    PROVE  LET t == ApplyRemoteEvent(s, event)
           IN /\ TextsKept(s, t)
              /\ Cleared(s, DOMAIN event.changes \cap DOMAIN s.lookups) => TalkKept(s, t)
              /\ Query \notin DOMAIN event.changes => SyncedOf(t) = SyncedOf(s)
<1> DEFINE changes == event.changes
           S == DOMAIN changes \cap DOMAIN s.lookups
           a == ReceivedByLookups(s, changes, S)
           b == LocalApplyRemoteEvent(a, event)
           tc == IF Query \in DOMAIN changes THEN changes[Query] ELSE NoChange
           docs == ChangedDocs(s, event)
           t == EmitNewSnapshots(b, docs, tc)
<1>1. ApplyRemoteEvent(s, event) = t
  BY DEF ApplyRemoteEvent
<1> HIDE DEF changes, docs, tc
<1>2. Handled(s, a, r) /\ Alters(s, a, {"aborted", "lookups"})
  BY ReceivedByLookupsIs
<1>3. TextsKept(s, a) /\ (Cleared(s, S) => TalkKept(s, a))
  BY ReceivedByLookupsKeeps
<1> HIDE DEF S, a
<1>4. /\ Handled(a, b, r)
      /\ Alters(a, b, {"aborted", "remoteKeys", "token", "cache", "lastRemote"})
  BY <1>2, LocalApplyRemoteEventIs DEF Handled
<1> HIDE DEF b
<1>5. Keeps(a, b)
  BY <1>4, KeptFrame DEF Conversation
<1>6. Keeps(b, t) /\ (tc = NoChange => SyncedOf(t) = SyncedOf(b))
  BY <1>4, EmitNewSnapshotsKeeps DEF Handled
<1> HIDE DEF t
<1>7. SyncedOf(b) = SyncedOf(s)
  BY <1>2, <1>4 DEF SyncedOf, Alters, Fields
<1>8. TextsKept(s, t)
  BY <1>3, <1>5, <1>6 DEF Keeps, TextsKept
<1>9. Cleared(s, S) => TalkKept(s, t)
  BY <1>3, <1>5, <1>6 DEF Keeps, TalkKept
<1>10. Query \notin DOMAIN event.changes => SyncedOf(t) = SyncedOf(s)
  BY <1>6, <1>7 DEF tc, changes
<1> QED
  BY <1>1, <1>8, <1>9, <1>10 DEF S, changes

\* What holds of the conversation between two handlers.
Sense(s, b) == Talk(s, b, Query \in DOMAIN s.listen, SyncedOf(s))

LEMMA SenseFrom ==
    ASSUME NEW t, NEW b, NEW on, NEW V, Talk(t, b, on, V),
           Query \in DOMAIN t.listen => on /\ V \subseteq SyncedOf(t)
    PROVE  Sense(t, b)
BY DEF Sense, Talk, Owe, Synced

LEMMA SyncedSame ==
    ASSUME NEW s, NEW t, SameView(s.view, t.view)
    PROVE  SyncedOf(t) = SyncedOf(s)
BY DEF SameView, SyncedOf

-----------------------------------------------------------------------------
(* A target that is refused                                                 *)

\* The query is refused only by a backend that refuses everything.
LEMMA RejectedTalk ==
    ASSUME NEW s, NEW r, Shape(s), Conn(s, r), s.stream = "Open", NEW x
    PROVE  LET u == Rejected(s, x)
           IN /\ TextsKept(s, u)
              /\ \A b, on, V : Talk(s, b, on, V) /\ (x = Query => b)
                                 => Talk(u, b, x # Query /\ on, V)
<1> DEFINE u == Rejected(s, x)
<1>1. /\ Alters(s, u, {"listen", "agg"}) /\ u.listen = Drop(s.listen, x)
      /\ u.agg.states = Drop(s.agg.states, x) /\ u.agg.docs = s.agg.docs
  BY RejectedIs
<1> HIDE DEF u
<1>2. /\ u.stream = s.stream /\ u.up = s.up /\ u.down = s.down /\ u.lookups = s.lookups
      /\ u.enqueued = s.enqueued
  BY <1>1 DEF Alters, Fields
<1>3. TextsKept(s, u)
  <2> SUFFICES ASSUME NEW b, NEW n \in Nat, Texts(s, b, n) PROVE Texts(u, b, n)
    BY DEF TextsKept
  <2> QED
    BY <1>1, <1>2, DropTexts
<1>4. StateGone(s, u, x)
  BY <1>1, DropStateAt
<1>5. /\ TargetState(u, x) = NewTargetState
      /\ \A y : y # x => TargetState(u, y) = TargetState(s, y)
      /\ DOMAIN u.agg.states = DOMAIN s.agg.states \ {x}
      /\ \A y \in DOMAIN u.agg.states : u.agg.states[y] = TargetState(u, y)
      /\ \A y \in DOMAIN s.agg.states : s.agg.states[y] = TargetState(s, y)
  BY <1>4 DEF StateGone
<1>6. ASSUME NEW b, NEW on, NEW V, Talk(s, b, on, V), x = Query => b
      PROVE  Talk(u, b, x # Query /\ on, V)
  <2>1. Typed(u)
    BY <1>5, <1>6 DEF Talk, Typed
  <2>2. Owe(u, b, x # Query /\ on, u.down)
    BY <1>2, <1>5, <1>6 DEF Talk, Owe
  <2>3. Synced(u, b, x # Query /\ on, V)
    <3>1. b => \A y \in DOMAIN u.agg.states : Modified(u.agg.states[y]) = {}
      BY <1>5, <1>6 DEF Talk, Synced
    <3>2. x # Query => TargetState(u, Query) = TargetState(s, Query)
      BY <1>5
    <3> QED
      BY <1>6, <3>1, <3>2 DEF Talk, Synced
  <2>4. LookupNews(u)
    <3> SUFFICES ASSUME NEW y \in DOMAIN s.lookups PROVE News1(u, y)
      BY <1>2 DEF LookupNews
    <3>1. News1(s, y)
      BY <1>6 DEF Talk, LookupNews
    <3> QED
      BY <1>2, <1>5, <3>1, NewStateIs DEF News1
  <2> QED
    BY <2>1, <2>2, <2>3, <2>4 DEF Talk
<1> QED
  BY <1>3, <1>6 DEF u

LEMMA ProcessTargetErrorSense ==
    ASSUME NEW s, NEW r, Good(s, r), s.stream = "Open", NEW x
    PROVE  LET t == ProcessTargetError(s, x)
           IN /\ TextsKept(s, t)
              /\ \A b : Sense(s, b) /\ (x = Query => b) => Sense(t, b)
<1> DEFINE t == ProcessTargetError(s, x)
           u == Rejected(s, x)
<1>0. Shape(s) /\ Conn(s, r) /\ Look(s) /\ Served(s)
  BY DEF Good
<1>1. CASE x \notin DOMAIN s.listen
  <2>1. t = s
    BY <1>1 DEF ProcessTargetError
  <2> QED
    BY <2>1 DEF TextsKept
<1>2. CASE x \in DOMAIN s.listen
  <2>1. t = HandleRejectedListen(u, x)
    BY <1>2 DEF ProcessTargetError, Rejected
  <2>2. /\ Shape(u) /\ Alters(s, u, {"listen", "agg"}) /\ Conn(u, r)
        /\ DOMAIN u.listen = DOMAIN s.listen \ {x}
    BY <1>0, RejectedIs
  <2>3. /\ TextsKept(s, u)
        /\ \A b, on, V : Talk(s, b, on, V) /\ (x = Query => b)
                           => Talk(u, b, x # Query /\ on, V)
    BY <1>0, RejectedTalk
  <2> HIDE DEF u, t
  <2>4. /\ u.enqueued = s.enqueued /\ u.active = s.active /\ u.lookups = s.lookups
        /\ u.listeners = s.listeners /\ u.view = s.view
    BY <2>2 DEF Alters, Fields
  <2>5. CASE x \in DOMAIN s.lookups
    <3> DEFINE a == Unpaired(u, x)
               b == PumpEnqueuedLimboResolutions(a)
               d == u.lookups[x].ad
               docs == Put(NoStates, d, [at |-> 0, data |-> Gone])
               event == [version |-> 0, changes |-> NoStates, resets |-> {}, docs |-> docs]
    <3>1. t = ApplyRemoteEvent(b, event)
      BY <2>1, <2>4, <2>5 DEF HandleRejectedListen, Unpaired
    <3>2. /\ Shape(a) /\ Alters(u, a, {"active", "lookups"}) /\ Conn(a, r) /\ Look(a)
      <4>1. /\ IsSeq(u.enqueued) /\ Paired(u.active, u.lookups)
            /\ Query \notin DOMAIN u.lookups /\ x \in DOMAIN u.lookups
            /\ DOMAIN u.listen \ {Query} = DOMAIN u.lookups \ {x}
            /\ u.view # NoView => u.view.limbo \subseteq Ads
        BY <1>0, <2>2, <2>4, <2>5 DEF Look
      <4> HIDE DEF a
      <4> QED
        BY <2>2, <4>1, UnpairedIs DEF a
    <3>3. Keeps(u, a)
      BY <2>2, UnpairedKeeps
    <3> HIDE DEF a
    <3>4. /\ a.listen = u.listen /\ a.listeners = u.listeners /\ a.view = u.view
      BY <3>2 DEF Alters, Fields
    <3>5. Good(a, r)
      BY <1>0, <2>2, <2>4, <2>5, <3>2, <3>4 DEF Good, Served, Look
    <3>6. Limbo(a, b, r) /\ Keeps(a, b)
      BY <3>2, PumpIs, PumpKeeps
    <3> HIDE DEF b
    <3>7. Good(b, r)
      BY <3>5, <3>6, LimboGood
    <3> HIDE DEF d, docs
    <3>8. DOMAIN event.changes = {}
      BY NoStatesIs
    <3> HIDE DEF event
    <3>9. Cleared(b, DOMAIN event.changes \cap DOMAIN b.lookups) /\ Query \notin DOMAIN event.changes
      BY <3>8 DEF Cleared
    <3>10. TextsKept(b, t) /\ TalkKept(b, t) /\ SyncedOf(t) = SyncedOf(b)
      BY <3>1, <3>7, <3>9, ApplyRemoteEventKeeps
    <3>11. SyncedOf(t) = SyncedOf(s)
      <4>1. SyncedOf(b) = SyncedOf(a)
        BY <3>6, SyncedSame DEF Limbo, Quiet
      <4>2. SyncedOf(a) = SyncedOf(s)
        BY <2>4, <3>4 DEF SyncedOf
      <4> QED
        BY <3>10, <4>1, <4>2
    <3>12. Good(t, r) /\ x # Query
      <4>1. Handled(s, t, r)
        BY <1>0, ProcessTargetErrorIs DEF t
      <4> QED
        BY <1>0, <2>5, <4>1 DEF Handled, Look
    <3>13. TextsKept(s, t)
      BY <2>3, <3>3, <3>6, <3>10 DEF Keeps, TextsKept
    <3>14. ASSUME NEW c, Sense(s, c)
           PROVE  Talk(t, c, x # Query /\ Query \in DOMAIN s.listen, SyncedOf(s))
      <4>1. Talk(u, c, x # Query /\ Query \in DOMAIN s.listen, SyncedOf(s))
        BY <2>3, <3>12, <3>14 DEF Sense
      <4>2. Talk(a, c, x # Query /\ Query \in DOMAIN s.listen, SyncedOf(s))
        BY <3>3, <4>1 DEF Keeps, TalkKept
      <4>3. Talk(b, c, x # Query /\ Query \in DOMAIN s.listen, SyncedOf(s))
        BY <3>6, <4>2 DEF Keeps, TalkKept
      <4> QED
        BY <3>10, <4>3 DEF TalkKept
    <3>15. Query \in DOMAIN t.listen => Query \in DOMAIN s.listen
      <4>1. Alters(b, t, EventF)
        BY <3>1, <3>7, ApplyRemoteEventIs
      <4>2. t.listeners = b.listeners
        BY <4>1 DEF Alters, EventF, LimboF, Broadcast, Fields
      <4>3. b.listeners = a.listeners
        BY <3>6 DEF Limbo, Quiet, Alters, LimboF, Broadcast, Fields
      <4> QED
        BY <1>0, <2>4, <3>4, <3>12, <4>2, <4>3 DEF Good, Served
    <3>16. ASSUME NEW c, Sense(s, c) PROVE Sense(t, c)
      BY <3>11, <3>12, <3>14, <3>15, <3>16, SenseFrom
    <3> QED
      BY <3>13, <3>16 DEF t
  <2>6. CASE x \notin DOMAIN s.lookups
    <3> DEFINE e == OnError(u)
               n == [e EXCEPT !.view = NoView]
               limbo == s.view.limbo
    <3>1. x = Query /\ s.view # NoView /\ limbo \subseteq Ads
      BY <1>0, <1>2, <2>6 DEF Look, Served
    <3>2. t = RemoveLimboTargets(n, limbo)
      BY <2>1, <2>4, <2>6 DEF HandleRejectedListen, RemoveAndCleanupTarget
    <3>3. /\ Shape(e) /\ Alters(u, e, {"mail", "raised", "listeners"})
      <4>1. Shape(e)
        BY <2>2, OnErrorIs
      <4> QED
        BY <2>2, <4>1, OnErrorIs
    <3> HIDE DEF e
    <3>4. Shape(n) /\ Alters(e, n, {"view"})
      BY <3>3 DEF Shape, Alters, Fields
    <3> HIDE DEF n, limbo
    <3>5. Keeps(u, e) /\ Keeps(e, n)
      BY <3>3, <3>4, KeptFrame DEF Conversation
    <3>6. Conn(n, r) /\ Look(n) /\ n.listen = u.listen
      <4>1. Conn(e, r)
        BY <2>2, <3>3, ConnSame
      <4>2. Conn(n, r)
        BY <3>4, <4>1, ConnSame
      <4>3. /\ n.listen = u.listen /\ n.enqueued = u.enqueued /\ n.active = u.active
            /\ n.lookups = u.lookups
        BY <3>3, <3>4 DEF Alters, Fields
      <4>4. n.view = NoView
        <5>1. DOMAIN e = Fields
          BY <3>3 DEF Shape
        <5> QED
          BY <5>1 DEF n, Fields
      <4>5. Look(n)
        BY <1>0, <2>2, <2>4, <3>1, <4>3, <4>4 DEF Look
      <4> QED
        BY <4>2, <4>3, <4>5
    <3>7. IsFiniteSet(limbo)
      BY <3>1, FS_Subset, BoundsAssumption
    <3>8. Limbo(n, t, r) /\ Keeps(n, t)
      BY <3>2, <3>4, <3>6, <3>7, RemoveLimboTargetsIs, RemoveLimboTargetsKeeps
    <3>9. TextsKept(s, t)
      BY <2>3, <3>5, <3>8 DEF Keeps, TextsKept
    <3>10. Query \notin DOMAIN t.listen
      BY <2>2, <3>1, <3>6, <3>8 DEF Limbo
    <3>11. ASSUME NEW b, Sense(s, b), b PROVE Sense(t, b)
      <4>1. Talk(u, b, x # Query /\ Query \in DOMAIN s.listen, SyncedOf(s))
        BY <2>3, <3>11 DEF Sense
      <4>2. \E on, V : Talk(u, b, on, V)
        BY <4>1
      <4>3. PICK on, V : Talk(u, b, on, V)
        BY <4>2
      <4>4. Talk(t, b, on, V)
        BY <3>5, <3>8, <4>3 DEF Keeps, TalkKept
      <4> QED
        BY <3>10, <4>4, SenseFrom
    <3> QED
      BY <3>1, <3>9, <3>11 DEF t
  <2> QED
    BY <2>5, <2>6
<1> QED
  BY <1>1, <1>2

-----------------------------------------------------------------------------
(* The aggregator, for the conversation                                     *)

\* What is written and what is meant, together.
Fits(s, b, n, on, V) == Texts(s, b, n) /\ Talk(s, b, on, V)

AggParts(s, t) ==
  /\ t.stream = s.stream /\ t.up = s.up /\ t.down = s.down /\ t.listen = s.listen
  /\ t.lookups = s.lookups /\ t.enqueued = s.enqueued /\ t.view = s.view

LEMMA AggSameParts ==
    ASSUME NEW s, NEW t, NEW F, Alters(s, t, F), F \subseteq {"agg", "aborted"}
    PROVE  AggParts(s, t)
BY DEF AggParts, Alters, Fields

LEMMA AggKeys ==
    ASSUME NEW s, NEW t, AggParts(s, t)
    PROVE  \A x : GetRemoteKeys(t, x) = GetRemoteKeys(s, x)
BY DEF AggParts, GetRemoteKeys

LEMMA AggTexts ==
    ASSUME NEW s, NEW t, AggParts(s, t), NEW b, NEW n, Texts(s, b, n),
           \A d \in DOMAIN t.agg.docs : t.agg.docs[d] \in Remote(n)
    PROVE  Texts(t, b, n)
BY DEF AggParts, Texts

\* The changes to the documents of a target that the client believes.
NewsFit(s, b, on, V, x, z) ==
  /\ b => Modified(z) = {}
  /\ x = Query /\ on /\ z.pending = 0 => Modified(z) \subseteq V
  /\ x \in DOMAIN s.lookups => s.lookups[x].received \/ (Modified(z) = {} /\ Removals(z) = {})

LEMMA ChangedNews ==
    ASSUME NEW s, NEW t, AggParts(s, t), NEW x, NEW z \in States, StateIs(s, t, x, z),
           NEW b, NEW on, NEW V, Typed(s), Synced(s, b, on, V), LookupNews(s),
           NewsFit(s, b, on, V, x, z)
    PROVE  Typed(t) /\ Synced(t, b, on, V) /\ LookupNews(t)
<1>1. /\ TargetState(t, x) = z /\ \A y : y # x => TargetState(t, y) = TargetState(s, y)
      /\ DOMAIN t.agg.states = DOMAIN s.agg.states \cup {x}
      /\ \A y \in DOMAIN t.agg.states : t.agg.states[y] = TargetState(t, y)
      /\ \A y \in DOMAIN s.agg.states : s.agg.states[y] = TargetState(s, y)
  BY DEF StateIs
<1>2. t.lookups = s.lookups
  BY DEF AggParts
<1>3. Typed(t)
  BY <1>1 DEF Typed
<1>4. Synced(t, b, on, V)
  <2>1. b => \A y \in DOMAIN t.agg.states : Modified(t.agg.states[y]) = {}
    BY <1>1 DEF Synced, NewsFit
  <2>2. CASE x = Query
    BY <1>1, <2>1, <2>2 DEF Synced, NewsFit
  <2>3. CASE x # Query
    <3>1. TargetState(t, Query) = TargetState(s, Query)
      BY <1>1, <2>3
    <3> QED
      BY <2>1, <3>1 DEF Synced
  <2> QED
    BY <2>2, <2>3
<1>5. LookupNews(t)
  <2> SUFFICES ASSUME NEW y \in DOMAIN s.lookups PROVE News1(t, y)
    BY <1>2 DEF LookupNews
  <2>1. CASE y = x
    BY <1>1, <1>2, <2>1 DEF News1, NewsFit
  <2>2. CASE y # x
    <3>1. News1(s, y)
      BY DEF LookupNews
    <3> QED
      BY <1>1, <1>2, <2>2, <3>1 DEF News1
  <2> QED
    BY <2>1, <2>2
<1> QED
  BY <1>3, <1>4, <1>5

LEMMA ChangedTalk ==
    ASSUME NEW s, NEW t, AggParts(s, t), NEW x, NEW z \in States, StateIs(s, t, x, z),
           z.pending = TargetState(s, x).pending,
           NEW b, NEW on, NEW V, Talk(s, b, on, V), NewsFit(s, b, on, V, x, z)
    PROVE  Talk(t, b, on, V)
<1>1. Typed(t) /\ Synced(t, b, on, V) /\ LookupNews(t)
  BY ChangedNews DEF Talk
<1>2. Owe(t, b, on, t.down)
  <2>1. TargetState(t, Query).pending = TargetState(s, Query).pending
    <3>1. CASE x = Query
      BY <3>1 DEF StateIs
    <3>2. CASE x # Query
      BY <3>2 DEF StateIs
    <3> QED
      BY <3>1, <3>2
  <2>2. DOMAIN s.agg.states \subseteq DOMAIN t.agg.states
    BY DEF StateIs
  <2> QED
    BY <2>1, <2>2 DEF Talk, Owe, AggParts
<1> QED
  BY <1>1, <1>2 DEF Talk

\* A target whose state goes: it is not the query, or no one wants the query.
LEMMA GoneNews ==
    ASSUME NEW s, NEW t, AggParts(s, t), NEW x, StateGone(s, t, x),
           NEW b, NEW on, NEW V, Typed(s), Synced(s, b, on, V), LookupNews(s)
    PROVE  Typed(t) /\ Synced(t, b, on, V) /\ LookupNews(t)
<1>1. /\ TargetState(t, x) = NewTargetState
      /\ \A y : y # x => TargetState(t, y) = TargetState(s, y)
      /\ DOMAIN t.agg.states = DOMAIN s.agg.states \ {x}
      /\ \A y \in DOMAIN t.agg.states : t.agg.states[y] = TargetState(t, y)
      /\ \A y \in DOMAIN s.agg.states : s.agg.states[y] = TargetState(s, y)
  BY DEF StateGone
<1>2. t.lookups = s.lookups
  BY DEF AggParts
<1>3. Typed(t)
  BY <1>1 DEF Typed
<1>4. Synced(t, b, on, V)
  <2>1. b => \A y \in DOMAIN t.agg.states : Modified(t.agg.states[y]) = {}
    BY <1>1 DEF Synced
  <2>2. CASE x = Query
    BY <1>1, <2>1, <2>2, NewStateIs DEF Synced
  <2>3. CASE x # Query
    <3>1. TargetState(t, Query) = TargetState(s, Query)
      BY <1>1, <2>3
    <3> QED
      BY <2>1, <3>1 DEF Synced
  <2> QED
    BY <2>2, <2>3
<1>5. LookupNews(t)
  <2> SUFFICES ASSUME NEW y \in DOMAIN s.lookups PROVE News1(t, y)
    BY <1>2 DEF LookupNews
  <2>1. CASE y = x
    BY <1>1, <2>1, NewStateIs DEF News1
  <2>2. CASE y # x
    <3>1. News1(s, y)
      BY DEF LookupNews
    <3> QED
      BY <1>1, <1>2, <2>2, <3>1 DEF News1
  <2> QED
    BY <2>1, <2>2
<1> QED
  BY <1>3, <1>4, <1>5

\* One document of a target.
Marked(z, d, type) == [z EXCEPT !.changes[d] = type]

LEMMA MarkedIs ==
    ASSUME NEW z \in States, NEW d, NEW type \in ChangeKinds
    PROVE  LET m == Marked(z, d, type)
           IN /\ m \in States /\ m.pending = z.pending
              /\ type # "modified" => Modified(m) \subseteq Modified(z)
              /\ type # "removed" => Removals(m) \subseteq Removals(z)
              /\ Modified(m) \subseteq Modified(z) \cup {d}
<1> DEFINE m == Marked(z, d, type)
<1>1. /\ m \in States /\ m.pending = z.pending
      /\ \A e \in Ads : m.changes[e] = IF e = d THEN type ELSE z.changes[e]
  BY DEF Marked, States
<1> HIDE DEF m
<1> QED
  BY <1>1 DEF Modified, Removals, m

LEMMA ActiveIs ==
    ASSUME NEW s, NEW x
    PROVE  IsActiveTarget(s, x) <=> x \in DOMAIN s.listen /\ TargetState(s, x).pending = 0
BY NewStateIs DEF IsActiveTarget, IsPending, TargetState

\* The news of the documents the backend may tell the client of.
LEMMA MarkedNews ==
    ASSUME NEW s, NEW x, IsActiveTarget(s, x), NEW d, NEW type \in ChangeKinds,
           NEW b, NEW on, NEW V, Talk(s, b, on, V), GetRemoteKeys(s, Query) \subseteq V,
           type \in {"modified", "removed"} => d \in GetRemoteKeys(s, x),
           type = "modified" => ~b
    PROVE  NewsFit(s, b, on, V, x, Marked(TargetState(s, x), d, type))
<1> DEFINE z == TargetState(s, x)
           m == Marked(z, d, type)
<1>1. z \in States /\ z.pending = 0
  BY StateAt, ActiveIs DEF Talk
<1>0. z = TargetState(s, x)
  OBVIOUS
<1> HIDE DEF z
<1>2. /\ m.pending = 0
      /\ type # "modified" => Modified(m) \subseteq Modified(z)
      /\ type # "removed" => Removals(m) \subseteq Removals(z)
      /\ Modified(m) \subseteq Modified(z) \cup {d}
  BY <1>1, MarkedIs
<1> HIDE DEF m
<1>3. b => Modified(m) = {}
  <2>1. b => Modified(z) = {}
    <3>1. CASE x \in DOMAIN s.agg.states
      BY <1>0, <3>1 DEF Talk, Synced, TargetState
    <3>2. CASE x \notin DOMAIN s.agg.states
      BY <1>0, <3>2, NewStateIs DEF TargetState
    <3> QED
      BY <3>1, <3>2
  <2> QED
    BY <1>2, <2>1
<1>4. ASSUME x = Query, on PROVE Modified(m) \subseteq V
  <2>1. Modified(z) \subseteq V
    BY <1>0, <1>1, <1>4 DEF Talk, Synced
  <2> QED
    BY <1>2, <1>4, <2>1
<1>5. ASSUME x \in DOMAIN s.lookups
      PROVE  s.lookups[x].received \/ (Modified(m) = {} /\ Removals(m) = {})
  <2>1. News1(s, x)
    BY <1>5 DEF Talk, LookupNews
  <2>2. d \in GetRemoteKeys(s, x) => s.lookups[x].received
    BY <1>5 DEF GetRemoteKeys
  <2> QED
    BY <1>0, <1>2, <2>1, <2>2 DEF News1
<1> QED
  BY <1>3, <1>4, <1>5 DEF NewsFit, m, z

\* The state of a document comes with it.
LEMMA PutDocs ==
    ASSUME NEW s, NEW t, NEW d, NEW doc, NEW n, t.agg.docs = Put(s.agg.docs, d, doc),
           \A e \in DOMAIN s.agg.docs : s.agg.docs[e] \in Remote(n), doc \in Remote(n)
    PROVE  \A e \in DOMAIN t.agg.docs : t.agg.docs[e] \in Remote(n)
<1> DEFINE old == s.agg.docs
           new == t.agg.docs
           R == Remote(n)
<1>1. new = Put(old, d, doc) /\ doc \in R /\ \A e \in DOMAIN old : old[e] \in R
  OBVIOUS
<1> HIDE DEF old, new, R
<1>2. \A e \in DOMAIN new : new[e] \in R
  BY <1>1 DEF Put
<1> QED
  BY <1>2 DEF old, new, R

LEMMA MarkFits ==
    ASSUME NEW s, Shape(s), NEW x, IsActiveTarget(s, x), NEW d, NEW type \in ChangeKinds,
           NEW b, NEW n, NEW on, NEW V, Fits(s, b, n, on, V), GetRemoteKeys(s, Query) \subseteq V,
           type \in {"modified", "removed"} => d \in GetRemoteKeys(s, x),
           type = "modified" => ~b
    PROVE  LET u == SetTargetState(s, x, Marked(TargetState(s, x), d, type))
           IN /\ Fits(u, b, n, on, V) /\ Shape(u) /\ u.agg.docs = s.agg.docs
              /\ \A doc \in Remote(n) :
                   Fits([u EXCEPT !.agg.docs = Put(@, d, doc)], b, n, on, V)
<1> DEFINE z == Marked(TargetState(s, x), d, type)
           u == SetTargetState(s, x, z)
<1>1. NewsFit(s, b, on, V, x, z)
  BY MarkedNews DEF Fits
<1>2. z \in States /\ z.pending = TargetState(s, x).pending
  <2>1. TargetState(s, x) \in States
    BY StateAt DEF Fits, Talk
  <2> QED
    BY <2>1, MarkedIs
<1> HIDE DEF z
<1>3. IsSet(s, u, x, z)
  BY SetTargetStateIs
<1> HIDE DEF u
<1>4. AggParts(s, u) /\ StateIs(s, u, x, z) /\ Shape(u) /\ u.agg.docs = s.agg.docs
  <2>1. Alters(s, u, {"agg"}) /\ u.agg.states = Put(s.agg.states, x, z)
    BY <1>3 DEF IsSet
  <2> QED
    BY <1>3, <2>1, AggSameParts, PutStateAt DEF IsSet
<1>5. Fits(u, b, n, on, V)
  <2>1. Talk(u, b, on, V)
    BY <1>1, <1>2, <1>4, ChangedTalk DEF Fits
  <2>2. \A e \in DOMAIN s.agg.docs : s.agg.docs[e] \in Remote(n)
    BY DEF Fits, Texts
  <2>3. Texts(u, b, n)
    BY <1>4, <2>2, AggTexts DEF Fits
  <2> QED
    BY <2>1, <2>3 DEF Fits
<1>6. ASSUME NEW doc \in Remote(n) PROVE Fits([u EXCEPT !.agg.docs = Put(@, d, doc)], b, n, on, V)
  <2> DEFINE docs == Put(u.agg.docs, d, doc)
             w == [u EXCEPT !.agg.docs = docs]
  <2>1. [u EXCEPT !.agg.docs = Put(@, d, doc)] = w
    BY <1>4 DEF Shape, Fields
  <2> HIDE DEF docs
  <2>2. Alters(u, w, {"agg"}) /\ w.agg.docs = docs /\ w.agg.states = u.agg.states
    BY <1>4 DEF Shape, Alters, Fields
  <2> HIDE DEF w
  <2>3. AggParts(u, w)
    BY <2>2, AggSameParts
  <2>4. \A e \in DOMAIN w.agg.docs : w.agg.docs[e] \in Remote(n)
    <3>1. w.agg.docs = Put(u.agg.docs, d, doc)
      BY <2>2 DEF docs
    <3>2. \A e \in DOMAIN u.agg.docs : u.agg.docs[e] \in Remote(n)
      BY <1>5 DEF Fits, Texts
    <3> QED
      BY <1>6, <3>1, <3>2, PutDocs
  <2>5. Texts(w, b, n)
    BY <1>5, <2>3, <2>4, AggTexts DEF Fits
  <2>6. \A y : TargetState(w, y) = TargetState(u, y)
    BY <2>2 DEF TargetState
  <2>7. Talk(u, b, on, V) /\ w.agg.states = u.agg.states
    BY <1>5, <2>2 DEF Fits
  <2>8. Typed(w) /\ Owe(w, b, on, w.down)
    BY <2>3, <2>6, <2>7 DEF Talk, Typed, Owe, AggParts
  <2>9. Synced(w, b, on, V) /\ LookupNews(w)
    BY <2>3, <2>6, <2>7 DEF Talk, Synced, LookupNews, News1, AggParts
  <2> QED
    BY <2>1, <2>5, <2>8, <2>9 DEF Talk, Fits
<1> QED
  BY <1>4, <1>5, <1>6 DEF u, z

LEMMA AddDocumentFits ==
    ASSUME NEW s, Shape(s), NEW x, NEW d, NEW n, NEW doc \in Remote(n),
           NEW on, NEW V, Fits(s, FALSE, n, on, V), GetRemoteKeys(s, Query) \subseteq V
    PROVE  Fits(AddDocumentToTarget(s, x, d, doc), FALSE, n, on, V)
<1> DEFINE type == IF d \in GetRemoteKeys(s, x) THEN "modified" ELSE "added"
           u == SetTargetState(s, x, Marked(TargetState(s, x), d, type))
           w == [u EXCEPT !.agg.docs = Put(@, d, doc)]
           t == AddDocumentToTarget(s, x, d, doc)
<1>1. t = IF ~IsActiveTarget(s, x) THEN s ELSE w
  BY DEF AddDocumentToTarget, Marked
<1>2. type \in ChangeKinds /\ (type \in {"modified", "removed"} => d \in GetRemoteKeys(s, x))
  BY DEF ChangeKinds
<1> HIDE DEF t, type
<1>3. IsActiveTarget(s, x) => Fits(w, FALSE, n, on, V)
  BY <1>2, MarkFits
<1> QED
  BY <1>1, <1>3 DEF t

LEMMA RemoveDocumentFits ==
    ASSUME NEW s, Shape(s), NEW x, NEW d, NEW n, NEW doc \in Remote(n),
           NEW b, NEW on, NEW V, Fits(s, b, n, on, V), GetRemoteKeys(s, Query) \subseteq V
    PROVE  Fits(RemoveDocumentFromTarget(s, x, d, doc), b, n, on, V)
<1> DEFINE type == IF d \in GetRemoteKeys(s, x) THEN "removed" ELSE "none"
           u == SetTargetState(s, x, Marked(TargetState(s, x), d, type))
           w == [u EXCEPT !.agg.docs = Put(@, d, doc)]
           t == RemoveDocumentFromTarget(s, x, d, doc)
<1>1. t = IF ~IsActiveTarget(s, x) THEN s ELSE IF doc = NoChange THEN u ELSE w
  BY DEF RemoveDocumentFromTarget, Marked
<1>2. /\ type \in ChangeKinds /\ (type \in {"modified", "removed"} => d \in GetRemoteKeys(s, x))
      /\ type # "modified"
  BY DEF ChangeKinds
<1> HIDE DEF t, type
<1>3. IsActiveTarget(s, x) => Fits(w, b, n, on, V) /\ Fits(u, b, n, on, V)
  BY <1>2, MarkFits
<1> QED
  BY <1>1, <1>3 DEF t

LEMMA HandleDocumentChangeFits ==
    ASSUME NEW s, Shape(s), NEW x, NEW d, NEW n, NEW doc \in Remote(n),
           NEW on, NEW V, Fits(s, FALSE, n, on, V), GetRemoteKeys(s, Query) \subseteq V
    PROVE  Fits(HandleDocumentChange(s, x, d, doc), FALSE, n, on, V)
BY AddDocumentFits, RemoveDocumentFits DEF HandleDocumentChange

LEMMA StepKeys ==
    ASSUME NEW s, NEW t, AggStep(s, t)
    PROVE  AggParts(s, t) /\ GetRemoteKeys(t, Query) = GetRemoteKeys(s, Query)
BY AggSameParts, AggKeys DEF AggStep

LEMMA HandleDocumentChangesFits ==
    ASSUME NEW s, Shape(s), NEW x, NEW docs, IsFiniteSet(DOMAIN docs), NEW n,
           \A d \in DOMAIN docs : docs[d] \in Remote(n),
           NEW on, NEW V, Fits(s, FALSE, n, on, V), GetRemoteKeys(s, Query) \subseteq V
    PROVE  Fits(HandleDocumentChanges(s, x, docs), FALSE, n, on, V)
<1> DEFINE Fine(t) == AggStep(s, t) /\ Fits(t, FALSE, n, on, V)
           S == DOMAIN docs
           p == <<x, docs>>
           after == Handling!Loop(p, s, S)
<1>0. HandleDocumentChanges(s, x, docs) = after
  BY HandleLoop
<1>b. \A d \in S : p[2][d] \in Remote(n)
  OBVIOUS
<1> HIDE DEF S, p
<1>a. IsFiniteSet(S)
  BY DEF S
<1>1. PICK R : /\ <<{}, s>> \in R
               /\ \A U : /\ <<{}, s>> \in U
                         /\ \A done, acc, y :
                               /\ <<done, acc>> \in U /\ done \subseteq S /\ y \in S \ done
                               /\ <<done \cup {y}, DocOf(p, acc, y)>> \in R
                               => <<done \cup {y}, DocOf(p, acc, y)>> \in U
                         => <<S, after>> \in U
  BY <1>a, HandleKeep
<1> HIDE DEF after
<1> DEFINE U == {v \in R : Fine(v[2])}
<1>2. Fine(s)
  BY AggSame
<1>3. \A acc, y : Fine(acc) /\ y \in S => Fine(DocOf(p, acc, y))
  <2> SUFFICES ASSUME NEW acc, NEW y, Fine(acc), y \in S PROVE Fine(DocOf(p, acc, y))
    OBVIOUS
  <2> DEFINE t == DocOf(p, acc, y)
             c == p[1]
             doc == p[2][y]
  <2>1. Shape(acc) /\ t = HandleDocumentChange(acc, c, y, doc) /\ doc \in Remote(n)
    BY <1>b DEF AggStep, DocOf
  <2> HIDE DEF t, c, doc
  <2>2. AggStep(acc, t)
    BY <2>1, HandleDocumentChangeIs
  <2>3. AggStep(s, t)
    BY <2>2, AggThen
  <2>4. GetRemoteKeys(acc, Query) \subseteq V
    BY StepKeys
  <2>5. Fits(t, FALSE, n, on, V)
    BY <2>1, <2>4, HandleDocumentChangeFits
  <2> QED
    BY <2>3, <2>5 DEF t
<1> HIDE DEF Fine
<1>4. <<S, after>> \in U
  BY <1>1, <1>2, <1>3
<1>5. Fine(after)
  BY <1>4
<1> QED
  BY <1>0, <1>5 DEF Fine

LEMMA SynthesizeDeleteFits ==
    ASSUME NEW s, Shape(s), NEW x, NEW n \in Nat, NEW version \in 0..n,
           NEW b, NEW on, NEW V, Fits(s, b, n, on, V), GetRemoteKeys(s, Query) \subseteq V
    PROVE  Fits(SynthesizeDelete(s, x, version), b, n, on, V)
<1> DEFINE t == SynthesizeDelete(s, x, version)
           d == s.listen[x].ad
           doc == [at |-> version, data |-> Gone]
           u == RemoveDocumentFromTarget(s, x, d, doc)
<1>1. t = s \/ t = u
  BY DEF SynthesizeDelete
<1>2. doc \in Remote(n)
  BY BoundsAssumption DEF Remote, Gone, Mine
<1> HIDE DEF t, d, doc
<1>3. Fits(u, b, n, on, V)
  BY <1>2, RemoveDocumentFits
<1> QED
  BY <1>1, <1>3 DEF t

LEMMA PrepareRemoteEventFits ==
    ASSUME NEW s, Shape(s), IsFiniteSet(DOMAIN s.agg.states), NEW n \in Nat, NEW v \in 0..n,
           NEW b, NEW on, NEW V, Fits(s, b, n, on, V), GetRemoteKeys(s, Query) \subseteq V
    PROVE  Fits(PrepareRemoteEvent(s, v), b, n, on, V)
<1> DEFINE Fine(t) == AggStep(s, t) /\ Fits(t, b, n, on, V)
           S == ActiveStates(s)
           after == Synthesizing!Loop(v, s, S)
<1>0. PrepareRemoteEvent(s, v) = after
  BY SynthesizeLoop
<1>a. IsFiniteSet(S)
  <2>1. S \subseteq DOMAIN s.agg.states
    BY DEF ActiveStates
  <2> QED
    BY <2>1, FS_Subset
<1> HIDE DEF S
<1>1. PICK R : /\ <<{}, s>> \in R
               /\ \A U : /\ <<{}, s>> \in U
                         /\ \A done, acc, y :
                               /\ <<done, acc>> \in U /\ done \subseteq S /\ y \in S \ done
                               /\ <<done \cup {y}, SynthesizeDelete(acc, y, v)>> \in R
                               => <<done \cup {y}, SynthesizeDelete(acc, y, v)>> \in U
                         => <<S, after>> \in U
  BY <1>a, SynthesizeKeep
<1> HIDE DEF after
<1> DEFINE U == {w \in R : Fine(w[2])}
<1>2. Fine(s)
  BY AggSame
<1>3. \A acc, y : Fine(acc) => Fine(SynthesizeDelete(acc, y, v))
  <2> SUFFICES ASSUME NEW acc, NEW y, Fine(acc) PROVE Fine(SynthesizeDelete(acc, y, v))
    OBVIOUS
  <2> DEFINE t == SynthesizeDelete(acc, y, v)
  <2>1. Shape(acc)
    BY DEF AggStep
  <2>2. AggStep(acc, t)
    BY <2>1, SynthesizeDeleteIs
  <2>3. GetRemoteKeys(acc, Query) \subseteq V
    BY StepKeys
  <2>4. Fits(t, b, n, on, V)
    BY <2>1, <2>3, SynthesizeDeleteFits
  <2> HIDE DEF t
  <2>5. AggStep(s, t)
    BY <2>2, AggThen
  <2> QED
    BY <2>4, <2>5 DEF t
<1> HIDE DEF Fine
<1>4. <<S, after>> \in U
  BY <1>1, <1>2, <1>3
<1>5. Fine(after)
  BY <1>4
<1> QED
  BY <1>0, <1>5 DEF Fine

\* A state of a target that is put there as a whole.
LEMMA SetFits ==
    ASSUME NEW s, Shape(s), NEW x, NEW z \in States, z.pending = TargetState(s, x).pending,
           NEW b, NEW n, NEW on, NEW V, Fits(s, b, n, on, V), NewsFit(s, b, on, V, x, z)
    PROVE  LET u == SetTargetState(s, x, z) IN Fits(u, b, n, on, V) /\ Shape(u)
<1> DEFINE u == SetTargetState(s, x, z)
<1>1. IsSet(s, u, x, z)
  BY SetTargetStateIs
<1> HIDE DEF u
<1>2. AggParts(s, u) /\ StateIs(s, u, x, z) /\ Shape(u) /\ u.agg.docs = s.agg.docs
  <2>1. Alters(s, u, {"agg"}) /\ u.agg.states = Put(s.agg.states, x, z)
    BY <1>1 DEF IsSet
  <2> QED
    BY <1>1, <2>1, AggSameParts, PutStateAt DEF IsSet
<1>3. Talk(u, b, on, V)
  BY <1>2, ChangedTalk DEF Fits
<1>4. \A e \in DOMAIN s.agg.docs : s.agg.docs[e] \in Remote(n)
  BY DEF Fits, Texts
<1>5. Texts(u, b, n)
  BY <1>2, <1>4, AggTexts DEF Fits
<1> QED
  BY <1>2, <1>3, <1>5 DEF Fits, u

\* What was known of a target fits.
LEMMA OldNews ==
    ASSUME NEW s, NEW x, NEW b, NEW on, NEW V, Typed(s), Synced(s, b, on, V), LookupNews(s),
           NEW z, Modified(z) \subseteq Modified(TargetState(s, x)),
           Removals(z) \subseteq Removals(TargetState(s, x)),
           x = Query /\ on /\ z.pending = 0 =>
             TargetState(s, x).pending = 0 \/ Modified(z) = {}
    PROVE  NewsFit(s, b, on, V, x, z)
<1> DEFINE old == TargetState(s, x)
<1>1. b => Modified(old) = {}
  <2>1. CASE x \in DOMAIN s.agg.states
    BY <2>1 DEF Synced, TargetState
  <2>2. CASE x \notin DOMAIN s.agg.states
    BY <2>2, NewStateIs DEF TargetState
  <2> QED
    BY <2>1, <2>2
<1>2. x = Query /\ on /\ z.pending = 0 => Modified(z) \subseteq V
  BY DEF Synced
<1>3. x \in DOMAIN s.lookups => s.lookups[x].received \/ (Modified(z) = {} /\ Removals(z) = {})
  BY DEF LookupNews, News1
<1> QED
  BY <1>1, <1>2, <1>3 DEF NewsFit

LEMMA HandleTargetCurrentFits ==
    ASSUME NEW s, Shape(s), NEW x, NEW b, NEW n, NEW on, NEW V, Fits(s, b, n, on, V)
    PROVE  Fits(HandleTargetCurrent(s, x), b, n, on, V)
<1> DEFINE old == TargetState(s, x)
           z == [old EXCEPT !.current = TRUE]
           u == SetTargetState(s, x, z)
           t == HandleTargetCurrent(s, x)
<1>1. t = s \/ t = u
  BY DEF HandleTargetCurrent
<1>2. old \in States
  BY StateAt DEF Fits, Talk
<1>3. old = TargetState(s, x)
  OBVIOUS
<1> HIDE DEF old, t
<1>4. /\ z \in States /\ z.pending = old.pending /\ Modified(z) = Modified(old)
      /\ Removals(z) = Removals(old)
  BY <1>2 DEF States, Modified, Removals
<1> HIDE DEF z
<1>5. NewsFit(s, b, on, V, x, z)
  BY <1>3, <1>4, OldNews DEF Fits, Talk
<1>6. Fits(u, b, n, on, V)
  BY <1>3, <1>4, <1>5, SetFits
<1> QED
  BY <1>1, <1>6 DEF t

LEMMA AggSameFits ==
    ASSUME NEW s, NEW t, AggParts(s, t), t.agg.states = s.agg.states, t.agg.docs = s.agg.docs,
           NEW b, NEW n, NEW on, NEW V, Fits(s, b, n, on, V)
    PROVE  Fits(t, b, n, on, V)
<1>1. \A y : TargetState(t, y) = TargetState(s, y)
  BY DEF TargetState
<1>2. Texts(t, b, n)
  <2>1. \A e \in DOMAIN s.agg.docs : s.agg.docs[e] \in Remote(n)
    BY DEF Fits, Texts
  <2> QED
    BY <2>1, AggTexts DEF Fits
<1>3. Typed(t) /\ Owe(t, b, on, t.down)
  BY <1>1 DEF Fits, Talk, Typed, Owe, AggParts
<1>4. Synced(t, b, on, V) /\ LookupNews(t)
  BY <1>1 DEF Fits, Talk, Synced, LookupNews, News1, AggParts
<1> QED
  BY <1>2, <1>3, <1>4 DEF Fits, Talk

\* All documents of the query are thrown away; nothing is said of changes.
AllRemoved(s, x) ==
  [NewTargetState EXCEPT !.changes = [d \in Ads |-> IF d \in GetRemoteKeys(s, x) THEN "removed"
                                                    ELSE "none"]]

LEMMA ResetTargetFits ==
    ASSUME NEW s, Shape(s), Query \notin DOMAIN s.lookups, IsActiveTarget(s, Query),
           NEW b, NEW n \in Nat, NEW on, NEW V, Fits(s, b, n, on, V)
    PROVE  LET t == ResetTarget(s, Query) IN Fits(t, b, n, on, V) /\ Shape(t)
<1> DEFINE c == Check(s, Query \in DOMAIN s.agg.states /\ ~IsPending(s, Query))
           z == AllRemoved(s, Query)
           t == ResetTarget(s, Query)
<1>1. t = SetTargetState(c, Query, z)
  BY DEF ResetTarget, AllRemoved
<1>2. Shape(c) /\ Alters(s, c, {"aborted"})
  BY CheckIs
<1>3. z \in States /\ z.pending = 0 /\ Modified(z) = {}
  <2> DEFINE f == [d \in Ads |-> IF d \in GetRemoteKeys(s, Query) THEN "removed" ELSE "none"]
  <2>1. f \in [Ads -> ChangeKinds] /\ \A d \in Ads : f[d] # "modified"
    BY DEF ChangeKinds
  <2>2. z = [NewTargetState EXCEPT !.changes = f]
    BY DEF AllRemoved
  <2> HIDE DEF f, z
  <2>3. z = [pending |-> 0, current |-> FALSE, changes |-> f]
    BY <2>2 DEF NewTargetState
  <2>4. z.pending = 0 /\ z.current = FALSE /\ z.changes = f
    BY <2>3
  <2> QED
    BY <2>1, <2>3, <2>4 DEF States, Modified
<1> HIDE DEF c, z, t
<1>4. Keeps(s, c)
  BY <1>2, KeptFrame DEF Conversation
<1>5. Fits(c, b, n, on, V)
  BY <1>4 DEF Keeps, TextsKept, TalkKept, Fits
<1>6. c.agg = s.agg /\ c.lookups = s.lookups
  BY <1>2 DEF Alters, Fields
<1>7. z.pending = TargetState(c, Query).pending
  <2>1. TargetState(c, Query) = TargetState(s, Query)
    BY <1>6 DEF TargetState
  <2> QED
    BY <1>3, <2>1, ActiveIs
<1>8. NewsFit(c, b, on, V, Query, z)
  BY <1>3, <1>6 DEF NewsFit
<1>9. Fits(SetTargetState(c, Query, z), b, n, on, V) /\ Shape(SetTargetState(c, Query, z))
  BY <1>2, <1>3, <1>5, <1>7, <1>8, SetFits
<1> QED
  BY <1>1, <1>9 DEF t

LEMMA HandleTargetResetFits ==
    ASSUME NEW s, Shape(s), Query \notin DOMAIN s.lookups,
           NEW b, NEW n \in Nat, NEW on, NEW V, Fits(s, b, n, on, V)
    PROVE  Fits(HandleTargetReset(s, Query), b, n, on, V)
<1>1. CASE IsActiveTarget(s, Query)
  BY <1>1, ResetTargetFits DEF HandleTargetReset
<1>2. CASE ~IsActiveTarget(s, Query)
  BY <1>2 DEF HandleTargetReset
<1> QED
  BY <1>1, <1>2

LEMMA HandleExistenceFilterFits ==
    ASSUME NEW s, Shape(s), Query \notin DOMAIN s.lookups, NEW x, NEW count,
           NEW b, NEW n \in Nat, NEW on, NEW V, Fits(s, b, n, on, V),
           GetRemoteKeys(s, Query) \subseteq V
    PROVE  Fits(HandleExistenceFilter(s, x, count), b, n, on, V)
<1> DEFINE d == s.listen[x].ad
           doc == [at |-> 0, data |-> Gone]
           a == RemoveDocumentFromTarget(s, x, d, doc)
           c == Check(s, count = 1)
           u == ResetTarget(s, x)
           w == [u EXCEPT !.agg.resets = @ \cup {x}]
           t == HandleExistenceFilter(s, x, count)
<1>1. t = s \/ t = a \/ t = c \/ (x = Query /\ IsActiveTarget(s, x) /\ t = w)
  BY DEF HandleExistenceFilter
<1>2. Fits(a, b, n, on, V)
  <2>1. doc \in Remote(n)
    BY BoundsAssumption DEF Remote, Gone, Mine
  <2> HIDE DEF d, doc
  <2> QED
    BY <2>1, RemoveDocumentFits
<1>3. Fits(c, b, n, on, V)
  <2>1. Alters(s, c, {"aborted"})
    BY CheckIs
  <2> HIDE DEF c
  <2>2. Keeps(s, c)
    BY <2>1, KeptFrame DEF Conversation
  <2> QED
    BY <2>2 DEF Keeps, TextsKept, TalkKept, Fits
<1>4. ASSUME x = Query, IsActiveTarget(s, x) PROVE Fits(w, b, n, on, V)
  <2>1. Fits(u, b, n, on, V) /\ Shape(u)
    BY <1>4, ResetTargetFits
  <2> HIDE DEF u
  <2>2. Alters(u, w, {"agg"}) /\ w.agg.states = u.agg.states /\ w.agg.docs = u.agg.docs
    BY <2>1 DEF Shape, Alters, Fields
  <2> HIDE DEF w
  <2>3. AggParts(u, w)
    BY <2>2, AggSameParts
  <2> QED
    BY <2>1, <2>2, <2>3, AggSameFits
<1> QED
  BY <1>1, <1>2, <1>3, <1>4

\* After a snapshot there is no news of the active targets.
Quieted(z) == [z EXCEPT !.changes = [d \in Ads |-> "none"]]

LEMMA QuietedIs ==
    ASSUME NEW z \in States
    PROVE  /\ Quieted(z) \in States /\ Quieted(z).pending = z.pending
           /\ Modified(Quieted(z)) = {} /\ Removals(Quieted(z)) = {}
BY DEF Quieted, States, ChangeKinds, Modified, Removals

LEMMA ClearPendingChangesFits ==
    ASSUME NEW s, Shape(s), NEW b, NEW n, NEW on, NEW V, Fits(s, b, n, on, V),
           on => Query \in DOMAIN s.listen
    PROVE  LET t == ClearPendingChanges(s)
           IN Fits(t, b, n, on, {}) /\ Cleared(t, ActiveStates(s))
<1> DEFINE t == ClearPendingChanges(s)
           old == s.agg.states
           new == t.agg.states
           Active(y) == IsActiveTarget(s, y)
<1>1. Alters(s, t, {"agg"}) /\ t.agg.docs = NoStates
  BY DEF ClearPendingChanges, Shape, Alters, Fields
<1>2. new = [y \in DOMAIN old |-> IF Active(y) THEN Quieted(old[y]) ELSE old[y]]
  BY DEF ClearPendingChanges, Shape, Fields, Quieted
<1>3. /\ \A y : TargetState(s, y) = IF y \in DOMAIN old THEN old[y] ELSE NewTargetState
      /\ \A y : TargetState(t, y) = IF y \in DOMAIN new THEN new[y] ELSE NewTargetState
  BY DEF TargetState
<1>4. \A y \in DOMAIN old : old[y] \in States
  BY DEF Fits, Talk, Typed
<1>5. ActiveStates(s) = {y \in DOMAIN old : Active(y)}
  BY DEF ActiveStates
<1>6. \A y : Active(y) <=> y \in DOMAIN s.listen /\ TargetState(s, y).pending = 0
  BY ActiveIs
<1> HIDE DEF Active, old, t
<1>7. /\ DOMAIN new = DOMAIN old
      /\ \A y \in DOMAIN old : new[y] = IF Active(y) THEN Quieted(old[y]) ELSE old[y]
  BY <1>2
<1> HIDE DEF new
<1>8. AggParts(s, t)
  BY <1>1, AggSameParts
<1>9. \A y \in DOMAIN new : /\ new[y] \in States /\ new[y].pending = old[y].pending
                            /\ Modified(new[y]) \subseteq Modified(old[y])
                            /\ Removals(new[y]) \subseteq Removals(old[y])
                            /\ Active(y) => Modified(new[y]) = {} /\ Removals(new[y]) = {}
  BY <1>4, <1>7, QuietedIs
<1>10. /\ \A y : /\ TargetState(t, y).pending = TargetState(s, y).pending
                 /\ Modified(TargetState(t, y)) \subseteq Modified(TargetState(s, y))
                 /\ Removals(TargetState(t, y)) \subseteq Removals(TargetState(s, y))
                 /\ Active(y) => Modified(TargetState(t, y)) = {} /\ Removals(TargetState(t, y)) = {}
  BY <1>3, <1>7, <1>9, NewStateIs
<1>11. Texts(t, b, n)
  <2>1. DOMAIN t.agg.docs = {}
    BY <1>1, NoStatesIs
  <2> QED
    BY <1>8, <2>1, AggTexts DEF Fits
<1>12. Typed(t)
  BY <1>9 DEF Typed, new
<1>13. Owe(t, b, on, t.down)
  <2>1. DOMAIN t.agg.states = DOMAIN s.agg.states
    BY <1>7 DEF old, new
  <2> QED
    BY <1>8, <1>10, <2>1 DEF Fits, Talk, Owe, AggParts
<1>14. Synced(t, b, on, {})
  <2>1. \A y \in DOMAIN t.agg.states : /\ y \in DOMAIN s.agg.states
                                       /\ Modified(t.agg.states[y]) \subseteq Modified(s.agg.states[y])
    BY <1>7, <1>9 DEF old, new
  <2>2. b => \A y \in DOMAIN t.agg.states : Modified(t.agg.states[y]) = {}
    BY <2>1 DEF Fits, Talk, Synced
  <2>3. on /\ TargetState(t, Query).pending = 0 => Modified(TargetState(t, Query)) = {}
    BY <1>6, <1>10
  <2> QED
    BY <2>2, <2>3 DEF Synced
<1>15. LookupNews(t)
  <2> SUFFICES ASSUME NEW y \in DOMAIN s.lookups PROVE News1(t, y)
    BY <1>8 DEF LookupNews, AggParts
  <2>1. News1(s, y)
    BY DEF Fits, Talk, LookupNews
  <2>2. t.lookups = s.lookups
    BY <1>8 DEF AggParts
  <2> QED
    BY <1>10, <2>1, <2>2 DEF News1
<1>16. Cleared(t, ActiveStates(s))
  BY <1>5, <1>10 DEF Cleared
<1> QED
  BY <1>11, <1>12, <1>13, <1>14, <1>15, <1>16 DEF Fits, Talk, t

-----------------------------------------------------------------------------
(* A message of the backend is read                                         *)

\* The message at the head of q is not yet taken account of.
Hears(s, b, n, on, V, q) ==
  /\ Texts(s, b, n) /\ Typed(s) /\ Synced(s, b, on, V) /\ LookupNews(s)
  /\ IsSeq(q) /\ q # <<>> /\ s.down = Tail(q) /\ Owe(s, b, on, q)

LEMMA HeardOther ==
    ASSUME NEW s, NEW b, NEW n, NEW on, NEW V, NEW q, Hears(s, b, n, on, V, q), ~Owes(Head(q))
    PROVE  Fits(s, b, n, on, V)
<1> DEFINE m == Head(q)
           p == Tail(q)
<1>1. /\ Due(q) = (IF Owes(m) THEN 1 ELSE 0) + Due(p)
      /\ Settled(q) <=> Settled(p) /\ (~Gives(m) \/ AsksOn(p))
  BY TailSays DEF Hears
<1>2. s.down = p /\ ~Owes(m) /\ ~Gives(m) /\ Owe(s, b, on, q) /\ IsSeq(p)
  <2>1. IsSeq(p)
    <3>1. PICK S : q \in Seq(S)
      BY DEF Hears, IsSeq
    <3> QED
      BY <3>1, SeqTail DEF Hears
  <2> QED
    BY <2>1 DEF Hears, Owes
<1> HIDE DEF m, p
<1>3. Due(p) \in Nat
  BY <1>2, NothingDue
<1>4. Owe(s, b, on, s.down)
  BY <1>1, <1>2, <1>3 DEF Owe
<1> QED
  BY <1>4 DEF Hears, Fits, Talk

\* The answer to a request is struck off what is owed.
LEMMA HeardOwe ==
    ASSUME NEW s, NEW t, AggParts(s, t), NEW q, IsSeq(q), q # <<>>, s.down = Tail(q), IsSeq(s.up),
           Head(q).type \in {"added", "removed"}, NEW x, Head(q).target = x,
           TargetState(s, x) \in States, NEW b, NEW on, Owe(s, b, on, q),
           TargetState(t, x).pending = TargetState(s, x).pending - 1,
           \A y : y # x => TargetState(t, y) = TargetState(s, y),
           DOMAIN s.agg.states \ {x} \subseteq DOMAIN t.agg.states,
           x \in DOMAIN t.agg.states
             \/ (Head(q).type = "removed" /\ TargetState(t, x).pending = 0)
    PROVE  Owe(t, b, on, t.down)
<1> DEFINE m == Head(q)
           p == Tail(q)
           up == s.up
<1>1. /\ Due(q) = (IF Owes(m) THEN 1 ELSE 0) + Due(p)
      /\ AsksOn(q) <=> Wants(m) \/ AsksOn(p)
      /\ Settled(q) <=> Settled(p) /\ (~Gives(m) \/ AsksOn(p))
  BY TailSays
<1>2. IsSeq(p)
  <2>1. PICK S : q \in Seq(S)
    BY DEF IsSeq
  <2> QED
    BY <2>1, SeqTail
<1>3. /\ t.down = p /\ t.up = up /\ t.stream = s.stream /\ s.up = up /\ IsSeq(up)
      /\ m.type \in {"added", "removed"} /\ m.target = x
      /\ x \in DOMAIN t.agg.states \/ (m.type = "removed" /\ TargetState(t, x).pending = 0)
  BY DEF AggParts
<1> HIDE DEF m, p, up
<1>4. /\ Due(p) \in Nat /\ Due(up) \in Nat
      /\ AsksOn(p) => Due(p) # 0
      /\ AsksOn(up) => Due(up) # 0
  BY <1>2, <1>3, NothingDue
<1> SUFFICES ASSUME s.stream = "Open", ~b
             PROVE  /\ TargetState(t, Query).pending = Due(p) + Due(up)
                    /\ on => /\ Query \in DOMAIN t.agg.states
                             /\ Settled(up) /\ (Settled(p) \/ AsksOn(up))
  BY <1>3 DEF Owe
<1>5. /\ TargetState(s, Query).pending = Due(q) + Due(up)
      /\ on => Query \in DOMAIN s.agg.states /\ Settled(up) /\ (Settled(q) \/ AsksOn(up))
  BY <1>3 DEF Owe
<1>6. CASE x = Query
  <2>1. Owes(m) /\ (Wants(m) <=> m.type = "added") /\ (Gives(m) <=> m.type = "removed")
    BY <1>3, <1>6 DEF Owes, Wants, Gives
  <2>2. TargetState(s, Query).pending = 1 + Due(p) + Due(up)
    BY <1>1, <1>4, <1>5, <2>1
  <2>3. TargetState(t, Query).pending = Due(p) + Due(up)
    BY <1>4, <1>6, <2>2
  <2>4. ASSUME on PROVE Settled(p) \/ AsksOn(up)
    BY <1>1, <1>5, <2>4
  <2>5. ASSUME on PROVE Query \in DOMAIN t.agg.states
    <3>1. CASE x \in DOMAIN t.agg.states
      BY <1>6, <3>1
    <3>2. CASE m.type = "removed" /\ TargetState(t, x).pending = 0
      <4>1. Due(p) = 0 /\ Due(up) = 0
        BY <1>4, <1>6, <2>3, <3>2
      <4>2. ~AsksOn(p) /\ ~AsksOn(up)
        BY <1>4, <4>1
      <4> QED
        BY <1>1, <1>5, <2>1, <2>5, <3>2, <4>2
    <3> QED
      BY <1>3, <3>1, <3>2
  <2> QED
    BY <1>5, <2>3, <2>4, <2>5
<1>7. CASE x # Query
  <2>1. ~Owes(m) /\ ~Wants(m) /\ ~Gives(m)
    BY <1>3, <1>7 DEF Owes, Wants, Gives
  <2>2. TargetState(t, Query) = TargetState(s, Query)
    BY <1>7
  <2>3. Query \in DOMAIN s.agg.states => Query \in DOMAIN t.agg.states
    BY <1>7
  <2> QED
    BY <1>1, <1>4, <1>5, <2>1, <2>2, <2>3
<1> QED
  BY <1>6, <1>7

LEMMA StateIsThen ==
    ASSUME NEW s, NEW u, NEW w, NEW x, NEW z, StateIs(s, u, x, z)
    PROVE  /\ \A z2 : StateIs(u, w, x, z2) => StateIs(s, w, x, z2)
           /\ StateGone(u, w, x) => StateGone(s, w, x)
BY DEF StateIs, StateGone

OneLess(z) == [z EXCEPT !.pending = @ - 1]

LEMMA OneLessIs ==
    ASSUME NEW z \in States
    PROVE  /\ OneLess(z) \in States /\ OneLess(z).pending = z.pending - 1
           /\ Modified(OneLess(z)) = Modified(z) /\ Removals(OneLess(z)) = Removals(z)
BY DEF OneLess, States, Modified, Removals

\* One answer less is owed for x, and its state is z.
LEMMA HeardIs ==
    ASSUME NEW s, NEW t, AggParts(s, t), t.agg.docs = s.agg.docs, IsSeq(s.up), NEW x, NEW z \in States,
           StateIs(s, t, x, z), TargetState(s, x) \in States,
           z.pending = TargetState(s, x).pending - 1,
           Modified(z) \subseteq Modified(TargetState(s, x)),
           Removals(z) \subseteq Removals(TargetState(s, x)),
           z.pending = 0 => Modified(z) = {},
           NEW b, NEW n, NEW on, NEW V, NEW q, Hears(s, b, n, on, V, q),
           Head(q).type \in {"added", "removed"}, Head(q).target = x
    PROVE  Fits(t, b, n, on, V)
<1>1. NewsFit(s, b, on, V, x, z)
  BY OldNews DEF Hears
<1>2. Typed(t) /\ Synced(t, b, on, V) /\ LookupNews(t)
  BY <1>1, ChangedNews DEF Hears
<1>3. Owe(t, b, on, t.down)
  <2>1. /\ TargetState(t, x) = z /\ \A y : y # x => TargetState(t, y) = TargetState(s, y)
        /\ DOMAIN t.agg.states = DOMAIN s.agg.states \cup {x}
    BY DEF StateIs
  <2> QED
    BY <2>1, HeardOwe DEF Hears
<1>4. Texts(t, b, n)
  <2>1. \A e \in DOMAIN s.agg.docs : s.agg.docs[e] \in Remote(n)
    BY DEF Hears, Texts
  <2> QED
    BY <2>1, AggTexts DEF Hears
<1> QED
  BY <1>2, <1>3, <1>4 DEF Fits, Talk

LEMMA HeardGone ==
    ASSUME NEW s, NEW t, AggParts(s, t), t.agg.docs = s.agg.docs, IsSeq(s.up), NEW x,
           StateGone(s, t, x), TargetState(s, x) \in States, TargetState(s, x).pending = 1,
           NEW b, NEW n, NEW on, NEW V, NEW q, Hears(s, b, n, on, V, q),
           Head(q).type = "removed", Head(q).target = x
    PROVE  Fits(t, b, n, on, V)
<1>1. Typed(t) /\ Synced(t, b, on, V) /\ LookupNews(t)
  BY GoneNews DEF Hears
<1>2. Owe(t, b, on, t.down)
  <2>1. /\ TargetState(t, x) = NewTargetState
        /\ \A y : y # x => TargetState(t, y) = TargetState(s, y)
        /\ DOMAIN t.agg.states = DOMAIN s.agg.states \ {x}
    BY DEF StateGone
  <2>2. TargetState(t, x).pending = TargetState(s, x).pending - 1 /\ TargetState(t, x).pending = 0
    BY <2>1, NewStateIs
  <2> QED
    BY <2>1, <2>2, HeardOwe DEF Hears
<1>3. Texts(t, b, n)
  <2>1. \A e \in DOMAIN s.agg.docs : s.agg.docs[e] \in Remote(n)
    BY DEF Hears, Texts
  <2> QED
    BY <2>1, AggTexts DEF Hears
<1> QED
  BY <1>1, <1>2, <1>3 DEF Fits, Talk

\* What RecordTargetResponse does.
LEMMA ResponseIs ==
    ASSUME NEW s, Shape(s), NEW x, TargetState(s, x) \in States
    PROVE  LET u == RecordTargetResponse(s, x)
               z == OneLess(TargetState(s, x))
           IN /\ Shape(u) /\ AggParts(s, u) /\ u.agg.docs = s.agg.docs /\ StateIs(s, u, x, z)
              /\ TargetState(u, x) = z /\ (IsPending(u, x) <=> z.pending # 0)
<1> DEFINE z == OneLess(TargetState(s, x))
           u == RecordTargetResponse(s, x)
<1>1. u = SetTargetState(s, x, z)
  BY DEF RecordTargetResponse, OneLess
<1> HIDE DEF u, z
<1>2. IsSet(s, u, x, z)
  BY <1>1, SetTargetStateIs
<1>3. AggParts(s, u) /\ StateIs(s, u, x, z) /\ Shape(u) /\ u.agg.docs = s.agg.docs
  <2>1. Alters(s, u, {"agg"}) /\ u.agg.states = Put(s.agg.states, x, z)
    BY <1>2 DEF IsSet
  <2> QED
    BY <1>2, <2>1, AggSameParts, PutStateAt DEF IsSet
<1>4. TargetState(u, x) = z /\ x \in DOMAIN u.agg.states
  BY <1>3 DEF StateIs
<1>5. IsPending(u, x) <=> z.pending # 0
  BY <1>4 DEF IsPending, TargetState
<1> QED
  BY <1>3, <1>4, <1>5 DEF u, z

LEMMA HandleTargetAddedFits ==
    ASSUME NEW s, Shape(s), IsSeq(s.up), NEW x,
           NEW b, NEW n, NEW on, NEW V, NEW q, Hears(s, b, n, on, V, q),
           Head(q).type = "added", Head(q).target = x
    PROVE  Fits(HandleTargetAdded(s, x), b, n, on, V)
<1> DEFINE old == TargetState(s, x)
           z == OneLess(old)
           u == RecordTargetResponse(s, x)
           y == Quieted(z)
           w == SetTargetState(u, x, y)
           t == HandleTargetAdded(s, x)
<1>1. old \in States
  BY StateAt DEF Hears
<1>2. old = TargetState(s, x)
  OBVIOUS
<1>3. /\ Shape(u) /\ AggParts(s, u) /\ u.agg.docs = s.agg.docs /\ StateIs(s, u, x, z)
      /\ TargetState(u, x) = z /\ (IsPending(u, x) <=> z.pending # 0)
  BY <1>1, ResponseIs
<1>4. t = IF IsPending(u, x) THEN u ELSE w
  <2>1. [TargetState(u, x) EXCEPT !.changes = [d \in Ads |-> "none"]] = y
    BY <1>3 DEF Quieted
  <2> QED
    BY <2>1 DEF HandleTargetAdded
<1> HIDE DEF old, u, t
<1>5. /\ z \in States /\ z.pending = old.pending - 1
      /\ Modified(z) = Modified(old) /\ Removals(z) = Removals(old)
  BY <1>1, OneLessIs
<1> HIDE DEF z
<1>6. /\ y \in States /\ y.pending = z.pending /\ Modified(y) = {} /\ Removals(y) = {}
  BY <1>5, QuietedIs
<1> HIDE DEF y
<1>7. CASE IsPending(u, x)
  <2>1. Fits(u, b, n, on, V)
    BY <1>1, <1>2, <1>3, <1>5, <1>7, HeardIs
  <2> QED
    BY <1>4, <1>7, <2>1 DEF t
<1>8. CASE ~IsPending(u, x)
  <2>1. IsSet(u, w, x, y)
    BY <1>3, SetTargetStateIs
  <2> HIDE DEF w
  <2>2. AggParts(s, w) /\ w.agg.docs = s.agg.docs /\ StateIs(s, w, x, y)
    <3>1. Alters(u, w, {"agg"}) /\ w.agg.states = Put(u.agg.states, x, y) /\ w.agg.docs = u.agg.docs
      BY <2>1 DEF IsSet
    <3>2. AggParts(u, w) /\ StateIs(u, w, x, y)
      BY <3>1, AggSameParts, PutStateAt
    <3>3. AggParts(s, w)
      BY <1>3, <3>2 DEF AggParts
    <3> QED
      BY <1>3, <3>1, <3>2, <3>3, StateIsThen
  <2>3. Fits(w, b, n, on, V)
    BY <1>1, <1>2, <1>5, <1>6, <2>2, HeardIs
  <2> QED
    BY <1>4, <1>8, <2>3 DEF t
<1> QED
  BY <1>7, <1>8

LEMMA HandleTargetRemovedFits ==
    ASSUME NEW s, Shape(s), IsSeq(s.up), NEW x,
           NEW b, NEW n, NEW on, NEW V, NEW q, Hears(s, b, n, on, V, q),
           Head(q).type = "removed", Head(q).target = x
    PROVE  Fits(HandleTargetRemoved(s, x), b, n, on, V)
<1> DEFINE old == TargetState(s, x)
           z == OneLess(old)
           u == RecordTargetResponse(s, x)
           states == Drop(u.agg.states, x)
           w == [u EXCEPT !.agg.states = states]
           t == HandleTargetRemoved(s, x)
<1>1. old \in States
  BY StateAt DEF Hears
<1>2. old = TargetState(s, x)
  OBVIOUS
<1>3. /\ Shape(u) /\ AggParts(s, u) /\ u.agg.docs = s.agg.docs /\ StateIs(s, u, x, z)
      /\ TargetState(u, x) = z /\ (IsPending(u, x) <=> z.pending # 0)
  BY <1>1, ResponseIs
<1>4. t = IF IsPending(u, x) THEN u ELSE w
  BY <1>3 DEF HandleTargetRemoved, Shape, Fields
<1> HIDE DEF old, u, t
<1>5. /\ z \in States /\ z.pending = old.pending - 1 /\ old.pending \in Int
      /\ Modified(z) = Modified(old) /\ Removals(z) = Removals(old)
  BY <1>1, OneLessIs DEF States
<1> HIDE DEF z
<1>7. CASE IsPending(u, x)
  <2>1. Fits(u, b, n, on, V)
    BY <1>1, <1>2, <1>3, <1>5, <1>7, HeardIs
  <2> QED
    BY <1>4, <1>7, <2>1 DEF t
<1>8. CASE ~IsPending(u, x)
  <2>1. Alters(u, w, {"agg"}) /\ w.agg.states = states /\ w.agg.docs = u.agg.docs
    BY <1>3 DEF Shape, Alters, Fields
  <2> HIDE DEF w
  <2>2. AggParts(s, w) /\ w.agg.docs = s.agg.docs /\ StateGone(s, w, x)
    <3>1. AggParts(u, w) /\ StateGone(u, w, x)
      BY <2>1, AggSameParts, DropStateAt
    <3>2. AggParts(s, w)
      BY <1>3, <3>1 DEF AggParts
    <3> QED
      BY <1>3, <2>1, <3>1, <3>2, StateIsThen
  <2>3. old.pending = 1
    BY <1>3, <1>5, <1>8
  <2>4. Fits(w, b, n, on, V)
    BY <1>1, <1>2, <2>2, <2>3, HeardGone
  <2> QED
    BY <1>4, <1>8, <2>4 DEF t
<1> QED
  BY <1>7, <1>8

-----------------------------------------------------------------------------
(* A snapshot                                                               *)

LEMMA TokensFits ==
    ASSUME NEW s, Shape(s), NEW b, NEW n, NEW on, NEW V, Fits(s, b, n, on, V),
           NEW listen, NEW lost, SameTargets(s, listen),
           \A x \in DOMAIN s.listen : listen[x].ad = s.listen[x].ad /\ listen[x].token \in 0..n
    PROVE  LET t == Tokened(s, listen, lost)
           IN Fits(t, b, n, on, V) /\ (\A S : Cleared(s, S) => Cleared(t, S))
<1> DEFINE t == Tokened(s, listen, lost)
<1>1. Alters(s, t, {"listen", "lostReset"}) /\ t.listen = listen
  BY DEF Tokened, Shape, Alters, Fields
<1> HIDE DEF t
<1>2. /\ t.stream = s.stream /\ t.up = s.up /\ t.down = s.down /\ t.agg = s.agg
      /\ t.lookups = s.lookups /\ t.enqueued = s.enqueued
  BY <1>1 DEF Alters, Fields
<1>3. Talk(t, b, on, V)
  BY <1>2, TalkFrame DEF TalkKept, Fits
<1>4. Texts(t, b, n)
  <2>1. \A x \in DOMAIN t.listen : Names(x, t.listen[x].ad) /\ t.listen[x].token \in 0..n
    BY <1>1 DEF Fits, Texts, SameTargets
  <2> QED
    BY <1>2, <2>1 DEF Fits, Texts
<1>5. \A S : Cleared(s, S) => Cleared(t, S)
  BY <1>2 DEF Cleared, TargetState
<1> QED
  BY <1>3, <1>4, <1>5 DEF Fits, t

LEMMA SentCleared ==
    ASSUME NEW s, Shape(s), Typed(s), NEW x, NEW m, NEW S, Cleared(s, S)
    PROVE  Cleared(Sent(s, x, m), S)
<1> DEFINE t == Sent(s, x, m)
           z == OneMore(TargetState(s, x))
<1>1. t.agg.states = Put(s.agg.states, x, z)
  <2>1. IsSent(s, t, x, m)
    BY SentIs
  <2> HIDE DEF t
  <2> QED
    BY <2>1 DEF IsSent
<1>2. Modified(z) = Modified(TargetState(s, x)) /\ Removals(z) = Removals(TargetState(s, x))
  <2>1. TargetState(s, x) \in States
    BY StateAt
  <2> QED
    BY <2>1, OneMoreIs
<1> HIDE DEF t, z
<1>3. TargetState(t, x) = z /\ \A y : y # x => TargetState(t, y) = TargetState(s, y)
  <2>1. StateIs(s, t, x, z)
    BY <1>1, PutStateAt
  <2> QED
    BY <2>1 DEF StateIs
<1> QED
  BY <1>2, <1>3 DEF Cleared, t

\* The conversation about a query that is listened to while it is a target.
Meets(s, b, n, V) == Fits(s, b, n, Query \in DOMAIN s.listen, V)

LEMMA RewatchMeets ==
    ASSUME NEW s, Shape(s), NEW r, Conn(s, r), s.stream = "Open", NEW x,
           NEW b, NEW n \in Nat, NEW V, Meets(s, b, n, V)
    PROVE  LET t == Rewatch(s, x)
           IN Meets(t, b, n, V) /\ (\A S : Cleared(s, S) => Cleared(t, S))
<1> DEFINE t == Rewatch(s, x)
<1>1. CASE x \notin DOMAIN s.listen
  <2>1. t = s
    BY <1>1 DEF Rewatch
  <2> QED
    BY <2>1
<1>2. CASE x \in DOMAIN s.listen
  <2> DEFINE listen == [s.listen EXCEPT ![x].token = 0]
             lost == s.lostReset
             u == Tokened(s, listen, lost)
             out == [type |-> "unwatch", target |-> x]
             v == Sent(u, x, out)
             in == [type |-> "watch", target |-> x, ad |-> v.listen[x].ad, token |-> 0]
             w == Sent(v, x, in)
             on == Query \in DOMAIN s.listen
             off == Turned(out, on)
             again == Turned(in, off)
  <2>1. u = [s EXCEPT !.listen[x].token = 0]
    BY DEF Tokened, Shape, Fields
  <2>2. t = w
    BY <1>2, <2>1 DEF Rewatch, SendWatchRequest, SendUnwatchRequest, Sent
  <2>3. SameTargets(s, listen)
    BY DEF SameTargets
  <2>4. \A y \in DOMAIN s.listen : listen[y].ad = s.listen[y].ad /\ listen[y].token \in 0..n
    <3>1. \A y \in DOMAIN s.listen : s.listen[y].token \in 0..n
      BY DEF Meets, Fits, Texts
    <3> DEFINE old == s.listen
               new == listen
    <3>2. new = [old EXCEPT ![x].token = 0] /\ x \in DOMAIN old
      BY <1>2
    <3>3. \A y \in DOMAIN old : old[y].token \in 0..n
      BY <3>1
    <3>4. \A y \in DOMAIN old : y # x => new[y] = old[y]
      BY <3>2
    <3>5. new[x] = [old[x] EXCEPT !.token = 0]
      BY <3>2
    <3> HIDE DEF old, new
    <3> DEFINE e == old[x]
    <3>6. [e EXCEPT !.token = 0].ad = e.ad
      OBVIOUS
    <3>7. [e EXCEPT !.token = 0].token \in 0..n
      BY <3>3, <3>2
    <3>8. \A y \in DOMAIN old : new[y].ad = old[y].ad /\ new[y].token \in 0..n
      BY <3>3, <3>4, <3>5, <3>6, <3>7
    <3> QED
      BY <3>8 DEF old, new
  <2>5. Asks(s, u, r) /\ u.stream = "Open" /\ u.listen = listen
    <3>1. Asks(s, u, r)
      BY <2>3, TokensAsk
    <3>2. u.stream = s.stream /\ u.listen = listen
      BY DEF Tokened, Shape, Fields
    <3> QED
      BY <3>1, <3>2
  <2> HIDE DEF listen, lost
  <2>6. Fits(u, b, n, on, V) /\ \A S : Cleared(s, S) => Cleared(u, S)
    BY <2>3, <2>4, TokensFits DEF Meets
  <2> HIDE DEF u
  <2>7. Asks(u, v, r) /\ v.stream = "Open"
    BY <2>5, SentAsks DEF Asks
  <2>8. DOMAIN u.listen = DOMAIN s.listen /\ DOMAIN v.listen = DOMAIN s.listen
    BY <2>5, <2>7 DEF Asks
  <2>9. out.type = "unwatch" /\ out.target = x /\ AskOk(out, n)
    <3>1. x \in Nat
      BY <1>2, <2>6, <2>8 DEF Fits, Texts, Names
    <3> QED
      BY <3>1 DEF AskOk
  <2>10. in.type = "watch" /\ in.target = x /\ in.ad = v.listen[x].ad /\ in.token = 0
    OBVIOUS
  <2> HIDE DEF out, in
  <2>11. Shape(u) /\ IsSeq(u.up) /\ IsSeq(u.down)
    BY <2>5 DEF Asks, Conn
  <2>12. Texts(v, b, n) /\ Talk(v, b, off, V)
    <3>1. Texts(v, b, n)
      BY <2>6, <2>9, <2>11, SentTexts DEF Fits
    <3>2. Talk(v, b, off, V)
      BY <2>5, <2>6, <2>9, <2>11, SentTalk DEF Fits
    <3> QED
      BY <3>1, <3>2
  <2>13. \A S : Cleared(u, S) => Cleared(v, S)
    BY <2>6, <2>11, SentCleared DEF Fits, Talk
  <2> HIDE DEF v
  <2>14. Shape(v) /\ IsSeq(v.up) /\ IsSeq(v.down)
    BY <2>7 DEF Asks, Conn
  <2>15. AskOk(in, n)
    <3>1. Names(x, v.listen[x].ad)
      BY <1>2, <2>8, <2>12 DEF Texts
    <3> QED
      BY <2>10, <3>1 DEF AskOk, Names
  <2> HIDE DEF off
  <2>16. Texts(w, b, n) /\ Talk(w, b, again, V)
    <3>1. Texts(w, b, n)
      BY <2>12, <2>14, <2>15, SentTexts
    <3>2. Talk(w, b, again, V)
      BY <2>7, <2>10, <2>12, <2>14, SentTalk
    <3> QED
      BY <3>1, <3>2
  <2>17. \A S : Cleared(v, S) => Cleared(w, S)
    BY <2>12, <2>14, SentCleared DEF Talk
  <2>18. DOMAIN w.listen = DOMAIN s.listen
    <3>1. Asks(v, w, r)
      BY <2>7, <2>14, SentAsks DEF Asks
    <3> QED
      BY <2>8, <3>1 DEF Asks
  <2> HIDE DEF w, again
  <2>19. Query \in DOMAIN w.listen => again
    <3>1. CASE x = Query
      BY <2>10, <3>1 DEF again, Turned
    <3>2. CASE x # Query
      BY <2>9, <2>10, <2>18, <3>2 DEF again, off, on, Turned
    <3> QED
      BY <3>1, <3>2
  <2>20. Meets(w, b, n, V)
    <3>1. Talk(w, b, Query \in DOMAIN w.listen, V)
      BY <2>16, <2>19, TalkLess
    <3> QED
      BY <2>16, <3>1 DEF Meets, Fits
  <2> QED
    BY <2>2, <2>6, <2>13, <2>17, <2>20
<1> QED
  BY <1>1, <1>2

LEMMA RewatchAllMeets ==
    ASSUME NEW s, Shape(s), NEW r, Conn(s, r), s.stream = "Open", NEW S, IsFiniteSet(S),
           NEW b, NEW n \in Nat, NEW V, Meets(s, b, n, V), NEW C, Cleared(s, C)
    PROVE  LET t == RewatchAll(s, S) IN Meets(t, b, n, V) /\ Cleared(t, C)
<1> DEFINE Fine(t) == Asks(s, t, r) /\ t.stream = "Open" /\ Meets(t, b, n, V) /\ Cleared(t, C)
           after == Rewatching!Loop(0, s, S)
<1>0. RewatchAll(s, S) = after
  BY RewatchLoop
<1>1. PICK R : /\ <<{}, s>> \in R
               /\ \A U : /\ <<{}, s>> \in U
                         /\ \A done, acc, x :
                               /\ <<done, acc>> \in U /\ done \subseteq S /\ x \in S \ done
                               /\ <<done \cup {x}, Rewatch(acc, x)>> \in R
                               => <<done \cup {x}, Rewatch(acc, x)>> \in U
                         => <<S, after>> \in U
  BY RewatchKeep
<1> HIDE DEF after
<1> DEFINE U == {v \in R : Fine(v[2])}
<1>2. Fine(s)
  BY DEF Asks, Alters, Shape
<1>3. \A acc, x : Fine(acc) => Fine(Rewatch(acc, x))
  <2> SUFFICES ASSUME NEW acc, NEW x, Fine(acc) PROVE Fine(Rewatch(acc, x))
    OBVIOUS
  <2> DEFINE t == Rewatch(acc, x)
  <2>1. Shape(acc) /\ Conn(acc, r)
    BY DEF Asks
  <2>2. Asks(acc, t, r) /\ t.stream = "Open"
    BY <2>1, RewatchIs
  <2>3. Meets(t, b, n, V) /\ Cleared(t, C)
    BY <2>1, RewatchMeets
  <2> HIDE DEF t
  <2>4. Asks(s, t, r)
    BY <2>2, AsksThen
  <2> QED
    BY <2>2, <2>3, <2>4 DEF t
<1> HIDE DEF Fine
<1>4. <<S, after>> \in U
  BY <1>1, <1>2, <1>3
<1>5. Fine(after)
  BY <1>4
<1> QED
  BY <1>0, <1>5 DEF Fine

LEMMA KeysOfQuery ==
    ASSUME NEW s, Look(s)
    PROVE  GetRemoteKeys(s, Query) \subseteq SyncedOf(s)
BY DEF GetRemoteKeys, SyncedOf, Look

LEMMA TargetChangeIs ==
    ASSUME NEW z
    PROVE  TargetChange(z).modified = Modified(z) /\ TargetChange(z).removed = Removals(z)
BY DEF TargetChange, KeysOf, Modified, Removals

\* A snapshot ends in an event that has nothing but what the backend has said.
SnapshotOf(s, t, r, n, version) ==
  \E w, event :
     /\ t = ApplyRemoteEvent(w, event) /\ Good(w, r)
     /\ Alters(s, w, Requests \cup {"aborted"}) /\ event.version = version
     /\ \A x \in DOMAIN event.changes : event.changes[x].added \subseteq Ads
     /\ \A d \in DOMAIN event.docs : event.docs[d] \in Remote(n)

\* A snapshot finds the assertions on its way fulfilled.
LEMMA RaiseWatchSnapshotSense ==
    ASSUME NEW s, NEW r, Good(s, r), s.stream = "Open", NEW n \in Nat, NEW version \in 0..n,
           version >= s.lastRemote, NEW b, Texts(s, b, n), Sense(s, b)
    PROVE  LET t == RaiseWatchSnapshot(s, version)
           IN /\ Texts(t, b, n) /\ Sense(t, b) /\ t.aborted = s.aborted
              /\ SnapshotOf(s, t, r, n, version)
<1> DEFINE p == PrepareRemoteEvent(s, version)
           event == RemoteEvent(p, version)
           c == ClearPendingChanges(p)
           listen == [x \in DOMAIN c.listen |-> IF x \in DOMAIN event.changes
                                                THEN [c.listen[x] EXCEPT !.token = version]
                                                ELSE c.listen[x]]
           lost == c.lostReset \/ \E x \in event.resets : LosesReset(p, x)
           u == Tokened(c, listen, lost)
           S == event.resets
           w == RewatchAll(u, S)
           t == ApplyRemoteEvent(w, event)
           C == ActiveStates(p)
           on == Query \in DOMAIN s.listen
           V == SyncedOf(s)
<1>0. Shape(s) /\ Conn(s, r) /\ IsFiniteSet(DOMAIN s.agg.states) /\ Look(s) /\ Served(s)
  BY DEF Good, Conn
<1>1. AggStep(s, p) /\ p.aborted = s.aborted
  BY <1>0, PrepareRemoteEventIs
<1>2. Fits(p, b, n, on, V)
  <2>1. Fits(s, b, n, on, V)
    BY DEF Fits, Sense
  <2>2. GetRemoteKeys(s, Query) \subseteq V
    BY <1>0, KeysOfQuery
  <2> HIDE DEF on, V
  <2> QED
    BY <1>0, <2>1, <2>2, PrepareRemoteEventFits
<1>3. DOMAIN event.changes = C /\ \A x \in C : event.changes[x] = TargetChange(p.agg.states[x])
  BY DEF RemoteEvent
<1>4. event.version = version /\ event.resets = p.agg.resets /\ event.docs = p.agg.docs
  BY DEF RemoteEvent
<1>a. \A x \in DOMAIN event.changes : event.changes[x].added \subseteq Ads
  <2> SUFFICES ASSUME NEW x \in C PROVE event.changes[x].added \subseteq Ads
    BY <1>3
  <2> DEFINE z == p.agg.states[x]
             tc == event.changes[x]
  <2>1. tc = TargetChange(z)
    BY <1>3
  <2> HIDE DEF z, tc
  <2>2. tc.added \subseteq Ads
    BY <2>1 DEF TargetChange, KeysOf
  <2> QED
    BY <2>2 DEF tc
<1>b. \A d \in DOMAIN event.docs : event.docs[d] \in Remote(n)
  BY <1>2, <1>4 DEF Fits, Texts
<1> HIDE DEF p, event
<1>5. AggParts(s, p) /\ Shape(p)
  BY <1>1, StepKeys DEF AggStep
<1>6. LookupsOk(s, event)
  <2> SUFFICES ASSUME NEW x \in C, x \in DOMAIN s.lookups, ~s.lookups[x].received
               PROVE  event.changes[x].modified = {} /\ event.changes[x].removed = {}
    BY <1>3 DEF LookupsOk, NewsOk
  <2>1. News1(p, x) /\ p.lookups = s.lookups
    BY <1>2, <1>5 DEF Fits, Talk, LookupNews, AggParts
  <2>2. Modified(TargetState(p, x)) = {} /\ Removals(TargetState(p, x)) = {}
    BY <2>1 DEF News1
  <2> DEFINE z == p.agg.states[x]
             tc == event.changes[x]
  <2>3. TargetState(p, x) = z
    BY DEF C, ActiveStates, TargetState
  <2>4. tc = TargetChange(z)
    BY <1>3
  <2> HIDE DEF z, tc
  <2>5. tc.modified = {} /\ tc.removed = {}
    BY <2>2, <2>3, <2>4, TargetChangeIs
  <2> QED
    BY <2>5 DEF tc
<1>7. QueryOk(s, event)
  <2> SUFFICES ASSUME s.view # NoView, Query \in C
               PROVE  event.changes[Query].modified \subseteq s.view.synced
    BY <1>3 DEF QueryOk
  <2>1. on /\ TargetState(p, Query).pending = 0 /\ TargetState(p, Query) = p.agg.states[Query]
    <3>1. Query \in DOMAIN p.agg.states /\ IsActiveTarget(p, Query)
      BY DEF C, ActiveStates
    <3> QED
      BY <1>5, <3>1, ActiveIs DEF TargetState, AggParts
  <2>2. Modified(TargetState(p, Query)) \subseteq V
    BY <1>2, <2>1 DEF Fits, Talk, Synced
  <2>3. V = s.view.synced
    BY DEF SyncedOf
  <2> DEFINE z == p.agg.states[Query]
             tc == event.changes[Query]
  <2>4. tc = TargetChange(z)
    BY <1>3
  <2> HIDE DEF z, tc
  <2>5. tc.modified = Modified(z)
    BY <2>4, TargetChangeIs
  <2>6. tc.modified \subseteq s.view.synced
    <3> HIDE DEF V
    <3> QED
      BY <2>1, <2>2, <2>3, <2>5 DEF z
  <2> QED
    BY <2>6 DEF tc
<1>8. AggStep(p, c)
  BY <1>5, ClearPendingChangesIs
<1>9. Fits(c, b, n, on, {}) /\ Cleared(c, C)
  <2>1. on => Query \in DOMAIN p.listen
    BY <1>5 DEF AggParts
  <2> HIDE DEF on, V
  <2> QED
    BY <1>2, <1>5, <2>1, ClearPendingChangesFits
<1> HIDE DEF C
<1>10. AggStep(s, c)
  BY <1>1, <1>8, AggThen
<1>11. AggParts(s, c) /\ Shape(c)
  BY <1>10, StepKeys DEF AggStep
<1> HIDE DEF c
<1>12. Handled(s, c, r)
  BY <1>10, AggHandled
<1>13. Good(c, r) /\ Conn(c, r)
  BY <1>12 DEF Handled, Good
<1>14. RaiseWatchSnapshot(s, version) = t
  <2>1. [c EXCEPT !.listen = [x \in DOMAIN @ |-> IF x \in DOMAIN event.changes
                                             THEN [@[x] EXCEPT !.token = version] ELSE @[x]],
                  !.lostReset = @ \/ \E x \in event.resets : LosesReset(p, x)] = u
    BY <1>11 DEF Shape, Fields, Tokened
  <2> QED
    BY <2>1 DEF RaiseWatchSnapshot, p, c, event
<1>15. SameTargets(c, listen)
  BY DEF SameTargets
<1>16. \A x \in DOMAIN c.listen : listen[x].ad = c.listen[x].ad /\ listen[x].token \in 0..n
  <2>1. \A x \in DOMAIN c.listen : c.listen[x].token \in 0..n
    BY <1>9 DEF Fits, Texts
  <2> SUFFICES ASSUME NEW x \in DOMAIN c.listen
               PROVE  listen[x].ad = c.listen[x].ad /\ listen[x].token \in 0..n
    OBVIOUS
  <2> DEFINE e == c.listen[x]
             f == [e EXCEPT !.token = version]
  <2>2. listen[x] = IF x \in DOMAIN event.changes THEN f ELSE e
    OBVIOUS
  <2>3. e.token \in 0..n
    BY <2>1
  <2> HIDE DEF e, listen
  <2>4. f.ad = e.ad
    OBVIOUS
  <2>5. f.token = version \/ f = e
    <3>1. CASE "token" \in DOMAIN e
      BY <3>1
    <3>2. CASE "token" \notin DOMAIN e
      BY <3>2
    <3> QED
      BY <3>1, <3>2
  <2> HIDE DEF f
  <2>6. listen[x].ad = e.ad /\ listen[x].token \in 0..n
    BY <2>2, <2>3, <2>4, <2>5
  <2> QED
    BY <2>6 DEF e
<1> HIDE DEF listen, lost
<1>17. Fits(u, b, n, on, {}) /\ Cleared(u, C)
  <2> HIDE DEF on, V
  <2> QED
    BY <1>9, <1>11, <1>15, <1>16, TokensFits
<1>18. Asks(c, u, r)
  BY <1>11, <1>13, <1>15, TokensAsk
<1>19. u.stream = "Open"
  <2>1. c.stream = "Open"
    BY <1>11 DEF AggParts
  <2>2. u.stream = c.stream
    BY <1>11 DEF Tokened, Shape, Fields
  <2> QED
    BY <2>1, <2>2
<1> HIDE DEF u
<1>20. Meets(u, b, n, {})
  <2>1. DOMAIN u.listen = DOMAIN s.listen
    BY <1>11, <1>18 DEF Asks, AggParts
  <2> QED
    BY <1>17, <2>1 DEF Meets
<1>21. IsFiniteSet(S)
  <2>1. S \subseteq {Query}
    BY <1>0, <1>1, <1>4 DEF AggStep, Conn
  <2> HIDE DEF S
  <2>2. IsFiniteSet({Query})
    BY FS_Singleton
  <2> QED
    BY <2>1, <2>2, FS_Subset
<1> HIDE DEF S
<1>22. Shape(u) /\ Conn(u, r)
  BY <1>18 DEF Asks
<1>23. Asks(u, w, r)
  BY <1>19, <1>21, <1>22, RewatchAllIs
<1>24. Meets(w, b, n, {}) /\ Cleared(w, C)
  BY <1>17, <1>19, <1>20, <1>21, <1>22, RewatchAllMeets
<1> HIDE DEF w
<1>25. Asks(c, w, r)
  BY <1>18, <1>23, AsksThen
<1>26. Good(w, r)
  BY <1>13, <1>25, AsksHandled DEF Handled
<1>c. Alters(s, w, Requests \cup {"aborted"})
  BY <1>10, <1>25 DEF AggStep, Asks, Alters, Requests
<1>27. Cleared(w, DOMAIN event.changes \cap DOMAIN w.lookups)
  BY <1>3, <1>24 DEF Cleared
<1>28. TextsKept(w, t) /\ TalkKept(w, t)
  BY <1>26, <1>27, ApplyRemoteEventKeeps
<1>29. Handled(w, t, r) /\ Alters(w, t, EventF)
  BY <1>26, ApplyRemoteEventIs
<1> HIDE DEF t
<1>30. Texts(t, b, n) /\ Talk(t, b, Query \in DOMAIN w.listen, {})
  BY <1>24, <1>28 DEF Meets, Fits, TextsKept, TalkKept
<1>31. Query \in DOMAIN t.listen => Query \in DOMAIN w.listen
  <2>1. t.listeners = w.listeners
    BY <1>29 DEF Alters, EventF, LimboF, Broadcast, Fields
  <2>2. Served(t) /\ Served(w)
    BY <1>26, <1>29 DEF Handled, Good
  <2> QED
    BY <2>1, <2>2 DEF Served
<1>32. Sense(t, b)
  BY <1>30, <1>31, SenseFrom
<1>33. t.aborted = s.aborted
  <2>1. RaiseWatchSnapshot(s, version).aborted = s.aborted
    BY <1>6, <1>7, RaiseWatchSnapshotIs DEF event, p
  <2> QED
    BY <1>14, <2>1
<1>34. SnapshotOf(s, t, r, n, version)
  <2>1. t = ApplyRemoteEvent(w, event)
    BY DEF t
  <2> QED
    BY <1>4, <1>26, <1>a, <1>b, <1>c, <2>1 DEF SnapshotOf
<1> QED
  BY <1>14, <1>30, <1>32, <1>33, <1>34

\* A message of the backend, on an open stream, that the client takes off q.
LEMMA HandleWatchChangeSense ==
    ASSUME NEW s, NEW r, Good(s, r), s.stream = "Open", NEW b \in BOOLEAN, NEW n \in Nat, NEW q,
           Hears(s, b, n, Query \in DOMAIN s.listen, SyncedOf(s), q), NEW m, m = Head(q),
           MessageOk(m), SaidOk(m, b, n)
    PROVE  LET t == HandleWatchChange(s, m)
           IN Texts(t, b, n) /\ Sense(t, b) /\ t.aborted = s.aborted
<1> DEFINE t == HandleWatchChange(s, m)
           x == m.target
           on == Query \in DOMAIN s.listen
           V == SyncedOf(s)
<1>0. Shape(s) /\ Look(s) /\ IsSeq(s.up) /\ Conn(s, r)
  BY DEF Good, Conn
<1>1. Hears(s, b, n, on, V, q) /\ GetRemoteKeys(s, Query) \subseteq V
  BY <1>0, KeysOfQuery
<1>2. ASSUME NEW u, AggStep(s, u), Fits(u, b, n, on, V) PROVE Texts(u, b, n) /\ Sense(u, b)
  <2>1. u.listen = s.listen /\ u.view = s.view
    BY <1>2, StepKeys DEF AggParts
  <2>2. SyncedOf(u) = SyncedOf(s)
    BY <2>1 DEF SyncedOf
  <2> QED
    BY <1>2, <2>1, <2>2 DEF Fits, Sense
<1>3. Query \notin DOMAIN s.lookups
  BY <1>0 DEF Look
<1>4. ASSUME Fits(s, b, n, on, V) PROVE Texts(s, b, n) /\ Sense(s, b)
  BY <1>4 DEF Fits, Sense
<1>5. on = (Query \in DOMAIN s.listen)
  OBVIOUS
<1> HIDE DEF on, V
<1>6. m.type \notin {"added", "removed"} => Fits(s, b, n, on, V)
  <2>1. ASSUME m.type \notin {"added", "removed"} PROVE m.type \notin {"watch", "unwatch"}
    BY <2>1 DEF MessageOk, MessageTypes
  <2>2. ASSUME m.type \notin {"added", "removed"} PROVE ~Owes(Head(q))
    BY <2>1, <2>2 DEF Owes, Wants, Gives
  <2> QED
    BY <1>1, <2>2, HeardOther
<1>10. CASE m.type = "added"
  <2>1. t = HandleTargetAdded(s, x)
    BY <1>10 DEF HandleWatchChange
  <2>2. Fits(t, b, n, on, V)
    BY <1>0, <1>1, <1>10, <2>1, HandleTargetAddedFits
  <2>3. AggStep(s, t) /\ t.aborted = s.aborted
    BY <1>0, <2>1, HandleTargetAddedIs
  <2> QED
    BY <1>2, <2>2, <2>3
<1>11. CASE m.type = "removed"
  <2>1. t = HandleTargetRemoved(s, x)
    BY <1>11 DEF HandleWatchChange
  <2>2. Fits(t, b, n, on, V)
    BY <1>0, <1>1, <1>11, <2>1, HandleTargetRemovedFits
  <2>3. AggStep(s, t) /\ t.aborted = s.aborted
    BY <1>0, <2>1, HandleTargetRemovedIs
  <2> QED
    BY <1>2, <2>2, <2>3
<1>12. CASE m.type = "current"
  <2>1. t = HandleTargetCurrent(s, x)
    BY <1>12 DEF HandleWatchChange
  <2>2. Fits(t, b, n, on, V)
    BY <1>0, <1>6, <1>12, <2>1, HandleTargetCurrentFits
  <2>3. AggStep(s, t) /\ t.aborted = s.aborted
    BY <1>0, <2>1, HandleTargetCurrentIs
  <2> QED
    BY <1>2, <2>2, <2>3
<1>13. CASE m.type = "rejected"
  <2>1. t = ProcessTargetError(s, x)
    BY <1>13 DEF HandleWatchChange
  <2>2. x = Query => b
    BY <1>13 DEF SaidOk
  <2>3. Texts(s, b, n) /\ Sense(s, b)
    BY <1>4, <1>6, <1>13
  <2>4. TextsKept(s, t) /\ (Sense(s, b) /\ (x = Query => b) => Sense(t, b))
    BY <2>1, ProcessTargetErrorSense
  <2>5. t.aborted = s.aborted
    BY <2>1, ProcessTargetErrorIs
  <2> QED
    BY <2>2, <2>3, <2>4, <2>5 DEF TextsKept
<1>14. CASE m.type = "filter"
  <2> DEFINE count == m.count
  <2>1. t = HandleExistenceFilter(s, x, count)
    BY <1>14 DEF HandleWatchChange
  <2>2. ~b /\ (x # Query => count \in {0, 1})
    BY <1>14 DEF SaidOk
  <2> HIDE DEF count, x
  <2>3. Fits(t, b, n, on, V)
    BY <1>0, <1>1, <1>3, <1>6, <1>14, <2>1, HandleExistenceFilterFits
  <2>4. AggStep(s, t)
    BY <1>0, <2>1, HandleExistenceFilterIs
  <2>5. t.aborted = s.aborted
    <3>1. CASE x # Query
      BY <1>0, <2>1, <2>2, <3>1, HandleExistenceFilterIs
    <3>2. CASE x = Query /\ on
      <4>1. Query \in DOMAIN s.agg.states
        BY <1>6, <1>14, <2>2, <3>2 DEF Fits, Talk, Owe
      <4> QED
        BY <1>0, <2>1, <3>2, <4>1, HandleExistenceFilterIs
    <3>3. CASE x = Query /\ ~on
      <4>1. ~IsActiveTarget(s, x)
        BY <1>5, <3>3 DEF IsActiveTarget
      <4>2. t = s
        BY <2>1, <4>1 DEF HandleExistenceFilter
      <4> QED
        BY <4>2
    <3> QED
      BY <3>1, <3>2, <3>3
  <2> QED
    BY <1>2, <2>3, <2>4, <2>5
<1>15. CASE m.type = "docs"
  <2> DEFINE docs == m.docs
  <2>1. t = HandleDocumentChanges(s, x, docs)
    BY <1>15 DEF HandleWatchChange
  <2>2. b = FALSE /\ \A d \in DOMAIN docs : docs[d] \in Remote(n)
    BY <1>15 DEF SaidOk
  <2>3. IsFiniteSet(DOMAIN docs)
    BY <1>15 DEF MessageOk
  <2> HIDE DEF docs, x
  <2>4. Fits(t, b, n, on, V)
    <3>1. Fits(s, FALSE, n, on, V)
      BY <1>6, <1>15, <2>2
    <3>2. Fits(t, FALSE, n, on, V)
      BY <1>0, <1>1, <2>1, <2>2, <2>3, <3>1, HandleDocumentChangesFits
    <3> QED
      BY <2>2, <3>2
  <2>5. AggStep(s, t) /\ t.aborted = s.aborted
    BY <1>0, <2>1, <2>3, HandleDocumentChangesIs
  <2> QED
    BY <1>2, <2>4, <2>5
<1>16. CASE m.type = "snapshot"
  <2> DEFINE version == m.version
  <2>1. t = IF version >= s.lastRemote THEN RaiseWatchSnapshot(s, version) ELSE s
    BY <1>16 DEF HandleWatchChange
  <2>2. version \in 0..n
    BY <1>16 DEF SaidOk
  <2> HIDE DEF version
  <2>3. Texts(s, b, n) /\ Sense(s, b)
    BY <1>4, <1>6, <1>16
  <2>4. CASE version >= s.lastRemote
    BY <2>1, <2>2, <2>3, <2>4, RaiseWatchSnapshotSense
  <2>5. CASE ~(version >= s.lastRemote)
    <3>1. t = s
      BY <2>1, <2>5
    <3> QED
      BY <2>3, <3>1
  <2> QED
    BY <2>4, <2>5
<1>17. CASE m.type = "reset"
  <2>1. x = Query /\ ~b
    BY <1>17 DEF SaidOk
  <2>2. t = HandleTargetReset(s, Query)
    BY <1>17, <2>1 DEF HandleWatchChange
  <2>3. Fits(s, b, n, on, V)
    BY <1>6, <1>17
  <2> HIDE DEF t
  <2>4. Fits(t, b, n, on, V)
    BY <1>0, <1>3, <2>2, <2>3, HandleTargetResetFits
  <2>5. AggStep(s, t)
    BY <1>0, <2>2, HandleTargetResetIs
  <2>6. ~IsActiveTarget(s, Query) \/ Query \in DOMAIN s.agg.states
    <3>1. CASE on
      BY <2>1, <2>3, <3>1 DEF Fits, Talk, Owe
    <3>2. CASE ~on
      BY <1>5, <3>2 DEF IsActiveTarget
    <3> QED
      BY <3>1, <3>2
  <2>7. t.aborted = s.aborted
    BY <1>0, <2>2, <2>6, HandleTargetResetIs
  <2>8. Texts(t, b, n) /\ Sense(t, b)
    BY <1>2, <2>4, <2>5
  <2> QED
    BY <2>7, <2>8 DEF t
<1> QED
  BY <1>10, <1>11, <1>12, <1>13, <1>14, <1>15, <1>16, <1>17 DEF MessageOk, MessageTypes

-----------------------------------------------------------------------------
(* The other tasks of the worker queue                                      *)

\* A step that no assertion stops and after which the conversation still makes sense.
Calm(s, t) == TextsKept(s, t) /\ (\A b : Sense(s, b) => Sense(t, b)) /\ t.aborted = s.aborted

LEMMA CalmQuiet ==
    ASSUME NEW s, NEW t, NEW F, Quiet(s, t, F), F \cap Conversation = {}, t.aborted = s.aborted
    PROVE  Calm(s, t)
<1>1. Keeps(s, t)
  BY KeptQuiet
<1>2. SyncedOf(t) = SyncedOf(s)
  BY SyncedSame DEF Quiet
<1>3. t.listen = s.listen
  BY DEF Quiet, Alters, Fields, Broadcast, Conversation
<1>4. \A b : Sense(s, b) => Sense(t, b)
  BY <1>1, <1>2, <1>3 DEF Sense, Keeps, TalkKept
<1> QED
  BY <1>1, <1>4 DEF Calm, Keeps

\* A stream that is closed takes what was said with it.
LEMMA CalmClosed ==
    ASSUME NEW s, NEW t, NEW r, NEW F, Quiet(s, t, F), Conn(t, r), t.stream # "Open",
           F \cap {"listen", "lookups", "enqueued"} = {}, t.aborted = s.aborted
    PROVE  Calm(s, t)
<1>1. t.listen = s.listen /\ t.lookups = s.lookups /\ t.enqueued = s.enqueued
  BY DEF Quiet, Alters, Fields, Broadcast
<1>2. TextsKept(s, t)
  BY <1>1, ClosedTexts
<1>3. \A b : Sense(t, b)
  BY ClosedTalk DEF Sense
<1> QED
  BY <1>2, <1>3 DEF Calm

\* A message shows that the backend is there.
LEMMA ToldOnline ==
    ASSUME NEW s, NEW r, Good(s, r), s.stream = "Open", NEW b \in BOOLEAN, NEW n \in Nat, NEW q,
           Hears(s, b, n, Query \in DOMAIN s.listen, SyncedOf(s), q)
    PROVE  LET u == UpdateState(s, "Online")
           IN /\ Good(u, r) /\ u.stream = "Open" /\ u.aborted = s.aborted
              /\ Hears(u, b, n, Query \in DOMAIN u.listen, SyncedOf(u), q)
<1> DEFINE F == {"timer", "failed"}
           u == UpdateState(s, "Online")
           on == Query \in DOMAIN s.listen
           V == SyncedOf(s)
<1>1. Shape(s) /\ Conn(s, r)
  BY DEF Good
<1>2. Quiet(s, u, F) /\ u.online = "Online" /\ u.timer = FALSE /\ u.failed = FALSE
  BY <1>1, UpdateStateIs
<1> HIDE DEF u
<1>3. /\ u.up = s.up /\ u.down = s.down /\ u.network = s.network /\ u.agg = s.agg
      /\ u.idle = s.idle /\ u.stream = s.stream /\ u.listen = s.listen
      /\ u.lookups = s.lookups /\ u.enqueued = s.enqueued /\ u.aborted = s.aborted
  BY <1>2 DEF Quiet, Alters, Fields, Broadcast
<1>4. Conn(u, r)
  BY <1>1, <1>2, <1>3 DEF Conn, IsStarted
<1>5. F \subseteq Fields \ {"listen", "enqueued", "active", "lookups", "listeners"}
  BY DEF Fields
<1> HIDE DEF F
<1>6. Good(u, r)
  BY <1>2, <1>4, <1>5, QuietHandled DEF Handled
<1>7. SyncedOf(u) = V
  BY <1>2, SyncedSame DEF Quiet
<1>8. (Query \in DOMAIN u.listen) = on
  BY <1>3
<1> HIDE DEF on, V
<1>9. Hears(s, b, n, on, V, q)
  BY DEF on, V
<1>10. Hears(u, b, n, on, V, q)
  <2>1. \A x : TargetState(u, x) = TargetState(s, x)
    BY <1>3 DEF TargetState
  <2>2. Texts(u, b, n)
    BY <1>3, <1>9 DEF Hears, Texts
  <2>3. Typed(u) /\ Owe(u, b, on, q)
    BY <1>3, <1>9, <2>1 DEF Hears, Typed, Owe
  <2>4. Synced(u, b, on, V) /\ LookupNews(u)
    BY <1>3, <1>9, <2>1 DEF Hears, Synced, LookupNews, News1
  <2> QED
    BY <1>3, <1>9, <2>2, <2>3, <2>4 DEF Hears
<1>11. Hears(u, b, n, Query \in DOMAIN u.listen, SyncedOf(u), q)
  BY <1>7, <1>8, <1>10
<1> QED
  BY <1>3, <1>6, <1>11 DEF u

LEMMA OnWatchStreamChangeSense ==
    ASSUME NEW s, NEW r, Good(s, r), s.stream = "Open", NEW b \in BOOLEAN, NEW n \in Nat, NEW q,
           Hears(s, b, n, Query \in DOMAIN s.listen, SyncedOf(s), q), NEW m, m = Head(q),
           MessageOk(m), SaidOk(m, b, n)
    PROVE  LET t == OnWatchStreamChange(s, m)
           IN Texts(t, b, n) /\ Sense(t, b) /\ t.aborted = s.aborted
<1> DEFINE u == UpdateState(s, "Online")
           t == HandleWatchChange(u, m)
<1>1. /\ Good(u, r) /\ u.stream = "Open" /\ u.aborted = s.aborted
      /\ Hears(u, b, n, Query \in DOMAIN u.listen, SyncedOf(u), q)
  BY ToldOnline
<1> HIDE DEF u
<1>2. Texts(t, b, n) /\ Sense(t, b) /\ t.aborted = u.aborted
  BY <1>1, HandleWatchChangeSense
<1> HIDE DEF t
<1> QED
  BY <1>1, <1>2 DEF t, u, OnWatchStreamChange

\* A write of the phone touches its view alone.
LEMMA WrittenCalm ==
    ASSUME NEW s, NEW r, Good(s, r), NEW mutation, NEW cache, NEW changed
    PROVE  Calm(s, EmitNewSnapshots(Written(s, mutation, cache), changed, NoChange))
<1> DEFINE F == {"mutation", "cache"}
           u == Written(s, mutation, cache)
           tc == NoChange
           w == EmitNewSnapshots(u, changed, tc)
<1>1. Shape(s) /\ Conn(s, r)
  BY DEF Good
<1>2. Shape(u) /\ Alters(s, u, F) /\ u.aborted = s.aborted
  BY <1>1 DEF Written, Shape, Alters, Fields
<1>a. HandledWell(s, w, r)
  BY WrittenIs
<1> HIDE DEF u
<1>3. Conn(u, r)
  BY <1>1, <1>2, ConnSame
<1>4. Quiet(s, u, F)
  BY <1>1, <1>2, QuietFrame
<1>5. F \subseteq Fields \ {"listen", "enqueued", "active", "lookups", "listeners"}
      /\ F \cap Conversation = {}
  BY DEF Fields, Conversation
<1> HIDE DEF F
<1>6. Good(u, r)
  BY <1>3, <1>4, <1>5, QuietHandled DEF Handled
<1>7. Calm(s, u)
  BY <1>2, <1>4, <1>5, CalmQuiet
<1>8. tc = NoChange
  OBVIOUS
<1> HIDE DEF tc
<1>9. Keeps(u, w) /\ SyncedOf(w) = SyncedOf(u)
  BY <1>6, <1>8, EmitNewSnapshotsKeeps
<1>10. Alters(u, w, LimboF \cup Broadcast)
  BY <1>6, EmitNewSnapshotsIs
<1> HIDE DEF w
<1>11. Query \in DOMAIN w.listen => Query \in DOMAIN u.listen
  <2>1. w.listeners = u.listeners
    BY <1>10 DEF Alters, LimboF, Broadcast, Fields
  <2>2. Served(w) /\ Served(u)
    BY <1>6, <1>a DEF HandledWell, Handled, Good
  <2> QED
    BY <2>1, <2>2 DEF Served
<1>12. ASSUME NEW b, Sense(u, b) PROVE Sense(w, b)
  <2>1. Talk(w, b, Query \in DOMAIN u.listen, SyncedOf(u))
    BY <1>9, <1>12 DEF Sense, Keeps, TalkKept
  <2> QED
    BY <1>9, <1>11, <2>1, SenseFrom
<1>13. Calm(s, w)
  BY <1>7, <1>9, <1>12, <1>a DEF Calm, Keeps, HandledWell, TextsKept
<1> QED
  BY <1>13 DEF w, tc, u

LEMMA WriteLocallyCalm ==
    ASSUME NEW s, NEW r, Good(s, r), NEW d, NEW text
    PROVE  Calm(s, WriteLocally(s, d, text))
<1> DEFINE mutation == [made |-> TRUE, ad |-> d, data |-> text]
           cache == s.cache
           changed == {d}
           u == Written(s, mutation, cache)
           t == WriteLocally(s, d, text)
<1>1. Shape(s)
  BY DEF Good
<1>2. [s EXCEPT !.mutation = mutation] = u
  BY <1>1 DEF Written, Shape, Fields
<1>3. t = EmitNewSnapshots(u, changed, NoChange)
  BY <1>2 DEF WriteLocally
<1> HIDE DEF mutation, cache, changed, t
<1>4. Calm(s, t)
  BY <1>3, WrittenCalm
<1> QED
  BY <1>4 DEF t

LEMMA AcknowledgeBatchCalm ==
    ASSUME NEW s, NEW r, Good(s, r), NEW version
    PROVE  Calm(s, AcknowledgeBatch(s, version))
<1> DEFINE d == s.mutation.ad
           doc == [at |-> version, data |-> s.mutation.data, committed |-> TRUE]
           mutation == [made |-> FALSE]
           cache == [s.cache EXCEPT ![d] = IF @.at < version THEN doc ELSE @]
           changed == {d}
           u == Written(s, mutation, cache)
           t == AcknowledgeBatch(s, version)
<1>1. Shape(s)
  BY DEF Good
<1>2. [s EXCEPT !.mutation = [made |-> FALSE],
                !.cache[d] = IF @.at < version THEN doc ELSE @] = u
  BY <1>1 DEF Written, Shape, Fields
<1>3. t = EmitNewSnapshots(u, changed, NoChange)
  BY <1>2 DEF AcknowledgeBatch
<1> HIDE DEF mutation, cache, changed, t
<1>4. Calm(s, t)
  BY <1>3, WrittenCalm
<1> QED
  BY <1>4 DEF t

LEMMA RejectBatchCalm ==
    ASSUME NEW s, NEW r, Good(s, r)
    PROVE  Calm(s, RejectBatch(s))
<1> DEFINE mutation == [made |-> FALSE]
           cache == s.cache
           changed == {s.mutation.ad}
           u == Written(s, mutation, cache)
           t == RejectBatch(s)
<1>1. Shape(s)
  BY DEF Good
<1>2. [s EXCEPT !.mutation = mutation] = u
  BY <1>1 DEF Written, Shape, Fields
<1>3. t = EmitNewSnapshots(u, changed, NoChange)
  BY <1>2 DEF RejectBatch
<1> HIDE DEF mutation, cache, changed, t
<1>4. Calm(s, t)
  BY <1>3, WrittenCalm
<1> QED
  BY <1>4 DEF t

\* The first listener asks for the query; until then nobody did.
LEMMA AddQueryListenerSense ==
    ASSUME NEW s, NEW r, Good(s, r), NEW c, NEW b, NEW n \in Nat, s.token \in 0..n,
           Texts(s, b, n), Sense(s, b)
    PROVE  LET t == AddQueryListener(s, c) IN Texts(t, b, n) /\ Sense(t, b)
<1> DEFINE t == AddQueryListener(s, c)
           on == Query \in DOMAIN s.listen
           V == SyncedOf(s)
<1>0. Shape(s) /\ Conn(s, r) /\ Look(s) /\ Served(s)
  BY DEF Good
<1>1. CASE s.listeners # <<>>
  <2> DEFINE F == {"listeners", "mail", "raised"}
  <2>1. t = Joins(s, c)
    BY <1>1 DEF AddQueryListener, Joins, Listening
  <2> HIDE DEF t
  <2>2. Alters(s, t, F)
    BY <1>1, <2>1, JoinsIs
  <2>3. Keeps(s, t)
    BY <2>2, KeptFrame DEF Conversation
  <2>4. t.view = s.view /\ t.listen = s.listen
    BY <2>2 DEF Alters, Fields
  <2>5. SyncedOf(t) = SyncedOf(s)
    BY <2>4 DEF SyncedOf
  <2>6. Texts(t, b, n) /\ Sense(t, b)
    BY <2>3, <2>4, <2>5 DEF Keeps, TextsKept, TalkKept, Sense
  <2> QED
    BY <2>6 DEF t
<1>2. CASE s.listeners = <<>>
  <2> DEFINE w == FirstView(s, c)
             ad == "all"
             token == s.token
             W == SyncedOf(t)
  <2>1. s.view = NoView /\ Query \notin DOMAIN s.listen
    BY <1>0, <1>2 DEF Served
  <2>2. Check(w, s.view = NoView) = w
    BY <2>1 DEF Check
  <2>3. t = RemoteListen(w, Query, ad, token)
    BY <1>2, <2>2 DEF AddQueryListener, FirstView, Listening
  <2>4. Shape(w) /\ Alters(s, w, {"listeners", "view", "mail", "raised"})
    BY <1>2, FirstViewIs
  <2>5. Names(Query, ad) /\ token \in 0..n
    BY DEF Names, Query
  <2> HIDE DEF w, ad, token, t
  <2>6. Keeps(s, w) /\ Conn(w, r)
    <3>1. Conn(w, r)
      BY <1>0, <2>4, ConnSame
    <3> QED
      BY <2>4, <3>1, KeptFrame DEF Conversation
  <2>7. Query \notin DOMAIN w.listen
    BY <2>1, <2>4 DEF Alters, Fields
  <2>8. Texts(t, b, n)
    <3>1. Texts(w, b, n)
      BY <2>6 DEF Keeps, TextsKept
    <3> QED
      BY <2>3, <2>4, <2>5, <2>6, <2>7, <3>1, RemoteListenTexts
  <2> HIDE DEF W
  <2>9. ~on /\ Talk(s, b, on, V)
    BY <2>1 DEF Sense
  <2> HIDE DEF on, V
  <2>10. Talk(s, b, on, W)
    BY <2>9 DEF Talk, Synced
  <2>11. Talk(w, b, on, W)
    BY <2>6, <2>10 DEF Keeps, TalkKept
  <2>12. Talk(t, b, Query = Query \/ on, W)
    BY <2>3, <2>4, <2>6, <2>7, <2>11, RemoteListenTalk
  <2>13. Sense(t, b)
    BY <2>12, SenseFrom DEF W
  <2> QED
    BY <2>8, <2>13 DEF t
<1> QED
  BY <1>1, <1>2

LEMMA StopListeningCalm ==
    ASSUME NEW s, NEW r, Shape(s), Conn(s, r), Look(s), s.view # NoView,
           Query \in DOMAIN s.listen
    PROVE  LET t == StopListening(s)
           IN TextsKept(s, t) /\ (\A b : Sense(s, b) => Sense(t, b))
<1> DEFINE limbo == s.view.limbo
           n == [s EXCEPT !.view = NoView]
           w == RemoteStopListening(n, Query)
           t == StopListening(s)
           F == {"listen", "timer", "failed", "aborted", "agg", "up", "idle"}
<1>1. t = RemoveLimboTargets(w, limbo)
  BY DEF StopListening, RemoveAndCleanupTarget
<1>2. Shape(n) /\ Alters(s, n, {"view"}) /\ n.view = NoView
  BY DEF Shape, Alters, Fields
<1> HIDE DEF n
<1>3. /\ n.listeners = s.listeners /\ n.listen = s.listen /\ n.enqueued = s.enqueued
      /\ n.active = s.active /\ n.lookups = s.lookups
  BY <1>2 DEF Alters, Fields
<1>4. Conn(n, r) /\ Keeps(s, n)
  <2>1. Conn(n, r)
    BY <1>2, ConnSame
  <2> QED
    BY <1>2, <2>1, KeptFrame DEF Conversation
<1>5. Quiet(n, w, F) /\ w.listen = Drop(n.listen, Query) /\ Conn(w, r)
  BY <1>2, <1>4, RemoteStopListeningIs
<1>6. /\ TextsKept(n, w)
      /\ \A b, on, V : Talk(n, b, on, V) => Talk(w, b, Query # Query /\ on, V)
  BY <1>2, <1>3, <1>4, RemoteStopListeningTalk
<1> HIDE DEF w, t
<1>7. /\ Shape(w) /\ w.enqueued = s.enqueued /\ w.active = s.active /\ w.lookups = s.lookups
      /\ w.listeners = s.listeners /\ w.view = NoView
  BY <1>2, <1>3, <1>5 DEF Quiet, Alters, Fields, Broadcast, SameView
<1>8. DOMAIN w.listen = DOMAIN s.listen \ {Query}
  <2> DEFINE new == w.listen
             old == s.listen
  <2>1. new = Drop(old, Query)
    BY <1>3, <1>5
  <2> HIDE DEF new, old
  <2>2. DOMAIN new = DOMAIN old \ {Query}
    BY <2>1 DEF Drop
  <2> QED
    BY <2>2 DEF new, old
<1>9. Look(w)
  BY <1>7, <1>8 DEF Look
<1>10. IsFiniteSet(limbo)
  <2>1. limbo \subseteq Ads
    BY DEF Look
  <2> QED
    BY <2>1, FS_Subset, BoundsAssumption
<1> HIDE DEF limbo
<1>11. Limbo(w, t, r) /\ Keeps(w, t)
  BY <1>1, <1>5, <1>7, <1>9, <1>10, RemoveLimboTargetsIs, RemoveLimboTargetsKeeps
<1>12. Query \notin DOMAIN t.listen
  BY <1>8, <1>11 DEF Limbo
<1>13. TextsKept(s, t)
  BY <1>4, <1>6, <1>11 DEF Keeps, TextsKept
<1>14. ASSUME NEW b, Sense(s, b) PROVE Sense(t, b)
  <2> DEFINE on == Query \in DOMAIN s.listen
             V == SyncedOf(s)
  <2>1. Talk(s, b, on, V)
    BY <1>14 DEF Sense
  <2> HIDE DEF on, V
  <2>2. Talk(n, b, on, V)
    BY <1>4, <2>1 DEF Keeps, TalkKept
  <2>3. Talk(w, b, Query # Query /\ on, V)
    BY <1>6, <2>2
  <2>4. Talk(t, b, Query # Query /\ on, V)
    BY <1>11, <2>3 DEF Keeps, TalkKept
  <2> QED
    BY <1>12, <2>4, SenseFrom
<1> QED
  BY <1>13, <1>14 DEF t

LEMMA RemoveQueryListenerCalm ==
    ASSUME NEW s, NEW r, Good(s, r), NEW c
    PROVE  LET t == RemoveQueryListener(s, c)
           IN TextsKept(s, t) /\ (\A b : Sense(s, b) => Sense(t, b))
<1> DEFINE u == Leaves(s, c)
           t == RemoveQueryListener(s, c)
           Same(v) == TextsKept(s, v) /\ (\A b : Sense(s, b) => Sense(v, b))
<1>0. Shape(s) /\ Conn(s, r) /\ Look(s) /\ Served(s)
  BY DEF Good
<1>1. Shape(u) /\ Alters(s, u, {"listeners", "raised"})
  BY <1>0, LeavesIs
<1>2. t = IF s.listeners # <<>> /\ u.listeners = <<>> THEN StopListening(u) ELSE u
  BY DEF RemoveQueryListener, Leaves
<1> HIDE DEF u, t
<1>3. /\ u.view = s.view /\ u.listen = s.listen /\ u.enqueued = s.enqueued /\ u.active = s.active
      /\ u.lookups = s.lookups
  BY <1>1 DEF Alters, Fields
<1>4. Conn(u, r) /\ Look(u) /\ Keeps(s, u) /\ SyncedOf(u) = SyncedOf(s)
  <2>1. Conn(u, r)
    BY <1>0, <1>1, ConnSame
  <2>2. Look(u)
    BY <1>0, <1>3 DEF Look
  <2>3. Keeps(s, u)
    BY <1>1, KeptFrame DEF Conversation
  <2>4. SyncedOf(u) = SyncedOf(s)
    BY <1>3 DEF SyncedOf
  <2> QED
    BY <2>1, <2>2, <2>3, <2>4
<1>5. Same(u)
  BY <1>3, <1>4 DEF Keeps, TalkKept, Sense
<1>6. CASE s.listeners # <<>> /\ u.listeners = <<>>
  <2>1. t = StopListening(u)
    BY <1>2, <1>6
  <2>2. u.view # NoView /\ Query \in DOMAIN u.listen
    BY <1>0, <1>3, <1>6 DEF Served
  <2>3. TextsKept(u, t) /\ (\A b : Sense(u, b) => Sense(t, b))
    BY <1>1, <1>4, <2>1, <2>2, StopListeningCalm
  <2> QED
    BY <1>5, <2>3 DEF TextsKept, t
<1>7. CASE ~(s.listeners # <<>> /\ u.listeners = <<>>)
  BY <1>2, <1>5, <1>7 DEF t
<1> QED
  BY <1>6, <1>7

-----------------------------------------------------------------------------
(* What the phone keeps on disk                                             *)

\* Versions are those of the collection, documents those it is made of.
Stored(s, n, W) ==
  /\ s.token \in 0..n /\ s.lastRemote \in 0..n
  /\ s.remoteKeys \subseteq Ads /\ SyncedOf(s) \subseteq Ads
  /\ \A d \in Ads : s.cache[d].at \in 0..n /\ s.cache[d].data \in 0..Mine
  /\ DOMAIN s.cache = Ads
  /\ s.mutation.made => s.mutation.data \in W
OnDisk == {"token", "lastRemote", "remoteKeys", "cache", "mutation"}
StoredKept(s, t) == \A n \in Nat : \A W : Stored(s, n, W) => Stored(t, n, W)

\* An event with nothing in it that the collection has not.
Sound(event, n) ==
  /\ event.version \in 0..n
  /\ Query \in DOMAIN event.changes => event.changes[Query].added \subseteq Ads
  /\ \A d \in DOMAIN event.docs : event.docs[d].at \in 0..n /\ event.docs[d].data \in 0..Mine

LEMMA StoredFrame ==
    ASSUME NEW s, NEW t, NEW F, Alters(s, t, F), F \cap OnDisk = {},
           SyncedOf(t) \subseteq SyncedOf(s) \cup Ads
    PROVE  StoredKept(s, t)
<1>1. /\ t.token = s.token /\ t.lastRemote = s.lastRemote /\ t.remoteKeys = s.remoteKeys
      /\ t.cache = s.cache /\ t.mutation = s.mutation
  BY DEF Alters, Fields, OnDisk
<1> QED
  BY <1>1 DEF StoredKept, Stored

LEMMA StoredQuiet ==
    ASSUME NEW s, NEW t, NEW F, Quiet(s, t, F), F \cap OnDisk = {}
    PROVE  StoredKept(s, t)
<1>1. SyncedOf(t) = SyncedOf(s)
  BY SyncedSame DEF Quiet
<1>2. Alters(s, t, F \cup Broadcast) /\ (F \cup Broadcast) \cap OnDisk = {}
  BY DEF Quiet, Broadcast, OnDisk
<1> QED
  BY <1>1, <1>2, StoredFrame

LEMMA StoredThen ==
    ASSUME NEW s, NEW t, NEW u, StoredKept(s, t), StoredKept(t, u)
    PROVE  StoredKept(s, u)
BY DEF StoredKept

LEMMA CacheDocIs ==
    ASSUME NEW old, NEW doc, NEW n \in Nat, old.at \in 0..n, old.data \in 0..Mine,
           doc.at \in 0..n, doc.data \in 0..Mine
    PROVE  CacheDoc(old, doc).at \in 0..n /\ CacheDoc(old, doc).data \in 0..Mine
<1>1. 0 \in 0..n /\ Gone \in 0..Mine
  BY BoundsAssumption DEF Gone, Mine
<1> QED
  BY <1>1 DEF CacheDoc, NotCached

LEMMA LocalApplyRemoteEventStored ==
    ASSUME NEW s, NEW r, Good(s, r), NEW event, NEW n \in Nat, NEW W, Stored(s, n, W), Sound(event, n)
    PROVE  Stored(LocalApplyRemoteEvent(s, event), n, W)
<1> DEFINE mine == Query \in DOMAIN event.changes /\ s.view # NoView
           keys == IF mine THEN (s.remoteKeys \ event.changes[Query].removed)
                                  \cup event.changes[Query].added ELSE s.remoteKeys
           token == IF mine THEN event.version ELSE s.token
           cache == [d \in Ads |-> IF d \in DOMAIN event.docs
                                   THEN CacheDoc(s.cache[d], event.docs[d]) ELSE s.cache[d]]
           last == IF event.version = 0 THEN s.lastRemote ELSE event.version
           cond == event.version = 0 \/ event.version >= s.lastRemote
           u == Check(s, cond)
           t == LocalApplyRemoteEvent(s, event)
<1>1. Shape(s)
  BY DEF Good
<1>2. Shape(u) /\ Alters(s, u, {"aborted"})
  BY <1>1, CheckIs
<1>3. t = [u EXCEPT !.remoteKeys = keys, !.token = token, !.cache = cache, !.lastRemote = last]
  <2>1. u.remoteKeys = s.remoteKeys /\ u.token = s.token /\ u.cache = s.cache
        /\ u.lastRemote = s.lastRemote
    BY <1>2 DEF Alters, Fields
  <2>2. t = [u EXCEPT !.remoteKeys = IF mine THEN (@ \ event.changes[Query].removed)
                                                 \cup event.changes[Query].added ELSE @,
                      !.token = IF mine THEN event.version ELSE @,
                      !.cache = [d \in Ads |-> IF d \in DOMAIN event.docs
                                               THEN CacheDoc(@[d], event.docs[d]) ELSE @[d]],
                      !.lastRemote = IF event.version = 0 THEN @ ELSE event.version]
    BY DEF LocalApplyRemoteEvent
  <2> HIDE DEF u
  <2>3. DOMAIN u = Fields
    BY <1>2 DEF Shape
  <2> QED
    BY <2>1, <2>2, <2>3 DEF Fields
<1>4. keys \subseteq Ads /\ token \in 0..n /\ last \in 0..n
  BY DEF Stored, Sound
<1>5. \A d \in Ads : cache[d].at \in 0..n /\ cache[d].data \in 0..Mine
  <2> SUFFICES ASSUME NEW d \in Ads PROVE cache[d].at \in 0..n /\ cache[d].data \in 0..Mine
    OBVIOUS
  <2> DEFINE old == s.cache[d]
             doc == event.docs[d]
  <2>1. old.at \in 0..n /\ old.data \in 0..Mine
    BY DEF Stored
  <2>2. cache[d] = IF d \in DOMAIN event.docs THEN CacheDoc(old, doc) ELSE old
    OBVIOUS
  <2>3. d \in DOMAIN event.docs => doc.at \in 0..n /\ doc.data \in 0..Mine
    BY DEF Sound
  <2> HIDE DEF old, doc, cache
  <2>4. d \in DOMAIN event.docs
          => CacheDoc(old, doc).at \in 0..n /\ CacheDoc(old, doc).data \in 0..Mine
    BY <2>1, <2>3, CacheDocIs
  <2> QED
    BY <2>1, <2>2, <2>4
<1>b. DOMAIN cache = Ads
  OBVIOUS
<1> HIDE DEF keys, token, cache, last, u, t
<1>6. /\ t.remoteKeys = keys /\ t.token = token /\ t.cache = cache /\ t.lastRemote = last
      /\ t.view = u.view /\ t.mutation = u.mutation
  BY <1>2, <1>3 DEF Shape, Fields
<1>a. t.mutation = s.mutation
  BY <1>2, <1>6 DEF Alters, Fields
<1>7. SyncedOf(t) = SyncedOf(s)
  BY <1>2, <1>6 DEF SyncedOf, Alters, Fields
<1>8. SyncedOf(s) \subseteq Ads
  BY DEF Stored
<1>9. Stored(t, n, W)
  BY <1>4, <1>5, <1>6, <1>7, <1>8, <1>a, <1>b DEF Stored
<1> QED
  BY <1>9 DEF t

LEMMA ApplyRemoteEventStored ==
    ASSUME NEW s, NEW r, Good(s, r), NEW event, NEW n \in Nat, NEW W, Stored(s, n, W), Sound(event, n)
    PROVE  Stored(ApplyRemoteEvent(s, event), n, W)
<1> DEFINE changes == event.changes
           S == DOMAIN changes \cap DOMAIN s.lookups
           a == ReceivedByLookups(s, changes, S)
           b == LocalApplyRemoteEvent(a, event)
           tc == IF Query \in DOMAIN changes THEN changes[Query] ELSE NoChange
           docs == ChangedDocs(s, event)
           t == EmitNewSnapshots(b, docs, tc)
<1>1. ApplyRemoteEvent(s, event) = t
  BY DEF ApplyRemoteEvent
<1>2. tc # NoChange => tc.added \subseteq Ads
  BY DEF Sound
<1> HIDE DEF changes, docs, tc
<1>3. Handled(s, a, r) /\ Alters(s, a, {"aborted", "lookups"})
  BY ReceivedByLookupsIs
<1> HIDE DEF a
<1>4. SyncedOf(a) = SyncedOf(s)
  BY <1>3 DEF SyncedOf, Alters, Fields
<1>5. Stored(a, n, W)
  <2>1. StoredKept(s, a)
    BY <1>3, <1>4, StoredFrame DEF OnDisk
  <2> QED
    BY <2>1 DEF StoredKept
<1>6. Stored(b, n, W)
  BY <1>3, <1>5, LocalApplyRemoteEventStored DEF Handled
<1>7. Good(b, r)
  BY <1>3, LocalApplyRemoteEventIs DEF Handled
<1> HIDE DEF b
<1>8. /\ Alters(b, t, LimboF \cup Broadcast)
      /\ tc = NoChange => SyncedOf(t) = SyncedOf(b)
      /\ tc # NoChange => SyncedOf(t) \subseteq SyncedOf(b) \cup tc.added
  BY <1>7, EmitNewSnapshotsIs, EmitNewSnapshotsKeeps
<1> HIDE DEF t
<1>9. /\ t.token = b.token /\ t.lastRemote = b.lastRemote /\ t.remoteKeys = b.remoteKeys
      /\ t.cache = b.cache /\ t.mutation = b.mutation
  BY <1>8 DEF Alters, LimboF, Broadcast, Fields
<1>10. SyncedOf(t) \subseteq Ads
  BY <1>2, <1>6, <1>8 DEF Stored
<1>11. Stored(t, n, W)
  BY <1>6, <1>9, <1>10 DEF Stored
<1> QED
  BY <1>1, <1>11

LEMMA ProcessTargetErrorStored ==
    ASSUME NEW s, NEW r, Good(s, r), s.stream = "Open", NEW x, NEW n \in Nat, NEW W, Stored(s, n, W)
    PROVE  Stored(ProcessTargetError(s, x), n, W)
<1> DEFINE t == ProcessTargetError(s, x)
           u == Rejected(s, x)
<1>0. Shape(s) /\ Conn(s, r) /\ Look(s) /\ Served(s)
  BY DEF Good
<1>1. CASE x \notin DOMAIN s.listen
  <2>1. t = s
    BY <1>1 DEF ProcessTargetError
  <2> QED
    BY <2>1
<1>2. CASE x \in DOMAIN s.listen
  <2>1. t = HandleRejectedListen(u, x)
    BY <1>2 DEF ProcessTargetError, Rejected
  <2>2. /\ Shape(u) /\ Alters(s, u, {"listen", "agg"}) /\ Conn(u, r)
        /\ DOMAIN u.listen = DOMAIN s.listen \ {x}
    BY <1>0, RejectedIs
  <2> HIDE DEF u, t
  <2>3. /\ u.enqueued = s.enqueued /\ u.active = s.active /\ u.lookups = s.lookups
        /\ u.listeners = s.listeners /\ u.view = s.view
    BY <2>2 DEF Alters, Fields
  <2>4. StoredKept(s, u)
    <3>1. SyncedOf(u) = SyncedOf(s)
      BY <2>3 DEF SyncedOf
    <3> QED
      BY <2>2, <3>1, StoredFrame DEF OnDisk
  <2>5. CASE x \in DOMAIN s.lookups
    <3> DEFINE a == Unpaired(u, x)
               b == PumpEnqueuedLimboResolutions(a)
               d == u.lookups[x].ad
               doc == [at |-> 0, data |-> Gone]
               docs == Put(NoStates, d, doc)
               event == [version |-> 0, changes |-> NoStates, resets |-> {}, docs |-> docs]
    <3>1. t = ApplyRemoteEvent(b, event)
      BY <2>1, <2>3, <2>5 DEF HandleRejectedListen, Unpaired
    <3>2. Shape(a) /\ Alters(u, a, {"active", "lookups"}) /\ Conn(a, r) /\ Look(a)
      <4>1. /\ IsSeq(u.enqueued) /\ Paired(u.active, u.lookups)
            /\ Query \notin DOMAIN u.lookups /\ x \in DOMAIN u.lookups
            /\ DOMAIN u.listen \ {Query} = DOMAIN u.lookups \ {x}
            /\ u.view # NoView => u.view.limbo \subseteq Ads
        BY <1>0, <2>2, <2>3, <2>5 DEF Look
      <4> HIDE DEF a
      <4> QED
        BY <2>2, <4>1, UnpairedIs DEF a
    <3> HIDE DEF a
    <3>3. a.listen = u.listen /\ a.listeners = u.listeners /\ a.view = u.view
      BY <3>2 DEF Alters, Fields
    <3>4. Good(a, r)
      BY <1>0, <2>2, <2>3, <2>5, <3>2, <3>3 DEF Good, Served, Look
    <3>5. Limbo(a, b, r)
      BY <3>2, PumpIs
    <3> HIDE DEF b
    <3>6. Good(b, r)
      BY <3>4, <3>5, LimboGood
    <3>7. StoredKept(u, a)
      <4>1. SyncedOf(a) = SyncedOf(u)
        BY <3>3 DEF SyncedOf
      <4> QED
        BY <3>2, <4>1, StoredFrame DEF OnDisk
    <3>8. StoredKept(a, b)
      BY <3>5, StoredQuiet DEF Limbo, LimboF, OnDisk
    <3>9. Stored(b, n, W)
      BY <2>4, <3>7, <3>8 DEF StoredKept
    <3>10. doc.at \in 0..n /\ doc.data \in 0..Mine
      BY BoundsAssumption DEF Gone, Mine
    <3> HIDE DEF d, doc
    <3>11. \A y \in DOMAIN docs : docs[y].at \in 0..n /\ docs[y].data \in 0..Mine
      BY <3>10 DEF Put, NoStates
    <3>12. DOMAIN NoStates = {}
      BY NoStatesIs
    <3>13. 0 \in 0..n
      OBVIOUS
    <3> HIDE DEF docs
    <3>14. Sound(event, n)
      BY <3>11, <3>12, <3>13 DEF Sound
    <3> HIDE DEF event
    <3> QED
      BY <3>1, <3>6, <3>9, <3>14, ApplyRemoteEventStored DEF t
  <2>6. CASE x \notin DOMAIN s.lookups
    <3> DEFINE e == OnError(u)
               v == [e EXCEPT !.view = NoView]
               limbo == s.view.limbo
    <3>1. x = Query /\ s.view # NoView /\ limbo \subseteq Ads
      BY <1>0, <1>2, <2>6 DEF Look, Served
    <3>2. t = RemoveLimboTargets(v, limbo)
      BY <2>1, <2>3, <2>6 DEF HandleRejectedListen, RemoveAndCleanupTarget
    <3>3. Shape(e) /\ Alters(u, e, {"mail", "raised", "listeners"})
      <4>1. Shape(e)
        BY <2>2, OnErrorIs
      <4> QED
        BY <2>2, <4>1, OnErrorIs
    <3> HIDE DEF e
    <3>4. Shape(v) /\ Alters(e, v, {"view"}) /\ v.view = NoView
      BY <3>3 DEF Shape, Alters, Fields
    <3> HIDE DEF v, limbo
    <3>5. Conn(v, r) /\ Look(v)
      <4>1. Conn(e, r)
        BY <2>2, <3>3, ConnSame
      <4>2. Conn(v, r)
        BY <3>4, <4>1, ConnSame
      <4>3. /\ v.listen = u.listen /\ v.enqueued = u.enqueued /\ v.active = u.active
            /\ v.lookups = u.lookups
        BY <3>3, <3>4 DEF Alters, Fields
      <4>4. Look(v)
        BY <1>0, <2>2, <2>3, <3>1, <3>4, <4>3 DEF Look
      <4> QED
        BY <4>2, <4>4
    <3>6. IsFiniteSet(limbo)
      BY <3>1, FS_Subset, BoundsAssumption
    <3>7. Limbo(v, t, r)
      BY <3>2, <3>4, <3>5, <3>6, RemoveLimboTargetsIs
    <3>8. StoredKept(e, v)
      <4>1. SyncedOf(v) = Ads
        BY <3>4 DEF SyncedOf
      <4> QED
        BY <3>4, <4>1, StoredFrame DEF OnDisk
    <3>9. StoredKept(u, e)
      <4>1. SyncedOf(e) = SyncedOf(u)
        BY <3>3 DEF SyncedOf, Alters, Fields
      <4> QED
        BY <3>3, <4>1, StoredFrame DEF OnDisk
    <3>10. StoredKept(v, t)
      BY <3>7, StoredQuiet DEF Limbo, LimboF, OnDisk
    <3> QED
      BY <2>4, <3>8, <3>9, <3>10 DEF StoredKept, t
  <2> QED
    BY <2>5, <2>6
<1> QED
  BY <1>1, <1>2

LEMMA SnapshotStored ==
    ASSUME NEW s, NEW t, NEW r, NEW n \in Nat, NEW W, NEW version \in 0..n,
           SnapshotOf(s, t, r, n, version), Stored(s, n, W)
    PROVE  Stored(t, n, W)
<1>1. PICK w, event :
         /\ t = ApplyRemoteEvent(w, event) /\ Good(w, r)
         /\ Alters(s, w, Requests \cup {"aborted"}) /\ event.version = version
         /\ \A x \in DOMAIN event.changes : event.changes[x].added \subseteq Ads
         /\ \A d \in DOMAIN event.docs : event.docs[d] \in Remote(n)
  BY DEF SnapshotOf
<1>2. SyncedOf(w) = SyncedOf(s)
  BY <1>1 DEF SyncedOf, Alters, Fields, Requests
<1>3. Stored(w, n, W)
  <2>1. StoredKept(s, w)
    BY <1>1, <1>2, StoredFrame DEF OnDisk, Requests
  <2> QED
    BY <2>1 DEF StoredKept
<1>4. \A z \in Remote(n) : z.at \in 0..n /\ z.data \in 0..Mine
  BY DEF Remote
<1>5. Sound(event, n)
  BY <1>1, <1>4 DEF Sound
<1> QED
  BY <1>1, <1>3, <1>5, ApplyRemoteEventStored

LEMMA AggStored ==
    ASSUME NEW s, NEW t, AggStep(s, t)
    PROVE  StoredKept(s, t)
<1>1. SyncedOf(t) = SyncedOf(s)
  BY DEF AggStep, SyncedOf, Alters, Fields
<1> QED
  BY <1>1, StoredFrame DEF AggStep, OnDisk

LEMMA HandleWatchChangeStored ==
    ASSUME NEW s, NEW r, Good(s, r), s.stream = "Open", NEW b \in BOOLEAN, NEW n \in Nat, NEW W, NEW q,
           Hears(s, b, n, Query \in DOMAIN s.listen, SyncedOf(s), q), NEW m, m = Head(q),
           MessageOk(m), SaidOk(m, b, n), Stored(s, n, W)
    PROVE  Stored(HandleWatchChange(s, m), n, W)
<1> DEFINE t == HandleWatchChange(s, m)
           x == m.target
           docs == m.docs
           count == m.count
           version == m.version
           g == RaiseWatchSnapshot(s, version)
           on == Query \in DOMAIN s.listen
           V == SyncedOf(s)
<1>0. Shape(s)
  BY DEF Good
<1> SUFFICES Stored(t, n, W)
  OBVIOUS
<1>1. ASSUME AggStep(s, t) PROVE Stored(t, n, W)
  BY <1>1, AggStored DEF StoredKept
<1>2. CASE m.type = "added"
  BY <1>0, <1>1, <1>2, HandleTargetAddedIs DEF HandleWatchChange
<1>3. CASE m.type = "removed"
  BY <1>0, <1>1, <1>3, HandleTargetRemovedIs DEF HandleWatchChange
<1>4. CASE m.type = "current"
  BY <1>0, <1>1, <1>4, HandleTargetCurrentIs DEF HandleWatchChange
<1>5. CASE m.type = "rejected"
  <2>1. t = ProcessTargetError(s, x)
    BY <1>5 DEF HandleWatchChange
  <2> QED
    BY <2>1, ProcessTargetErrorStored
<1>6. CASE m.type = "filter"
  <2>1. t = HandleExistenceFilter(s, x, count)
    BY <1>6 DEF HandleWatchChange
  <2> HIDE DEF count, x
  <2>2. AggStep(s, HandleExistenceFilter(s, x, count))
    BY <1>0, HandleExistenceFilterIs
  <2> QED
    BY <1>1, <2>1, <2>2
<1>7. CASE m.type = "docs"
  <2>1. t = HandleDocumentChanges(s, x, docs)
    BY <1>7 DEF HandleWatchChange
  <2>2. IsFiniteSet(DOMAIN docs)
    BY <1>7 DEF MessageOk
  <2> HIDE DEF docs, x
  <2>3. AggStep(s, HandleDocumentChanges(s, x, docs))
    BY <1>0, <2>2, HandleDocumentChangesIs
  <2> QED
    BY <1>1, <2>1, <2>3
<1>8. CASE m.type = "snapshot"
  <2>1. t = IF version >= s.lastRemote THEN g ELSE s
    BY <1>8 DEF HandleWatchChange
  <2>2. version \in 0..n
    BY <1>8 DEF SaidOk
  <2>3. Texts(s, b, n) /\ Sense(s, b)
    <3>1. ~Owes(Head(q))
      BY <1>8 DEF Owes, Wants, Gives
    <3> HIDE DEF on, V
    <3>2. Hears(s, b, n, on, V, q)
      BY DEF on, V
    <3>3. Fits(s, b, n, on, V)
      BY <3>1, <3>2, HeardOther
    <3> QED
      BY <3>3 DEF Fits, Sense, on, V
  <2> HIDE DEF version, t
  <2>4. CASE version >= s.lastRemote
    <3>1. SnapshotOf(s, g, r, n, version)
      BY <2>2, <2>3, <2>4, RaiseWatchSnapshotSense
    <3> HIDE DEF g
    <3> QED
      BY <2>1, <2>2, <2>4, <3>1, SnapshotStored
  <2>5. CASE ~(version >= s.lastRemote)
    BY <2>1, <2>5
  <2> QED
    BY <2>4, <2>5
<1>9. CASE m.type = "reset"
  BY <1>0, <1>1, <1>9, HandleTargetResetIs DEF HandleWatchChange
<1> QED
  BY <1>2, <1>3, <1>4, <1>5, <1>6, <1>7, <1>8, <1>9 DEF MessageOk, MessageTypes

LEMMA OnWatchStreamChangeStored ==
    ASSUME NEW s, NEW r, Good(s, r), s.stream = "Open", NEW b \in BOOLEAN, NEW n \in Nat, NEW W, NEW q,
           Hears(s, b, n, Query \in DOMAIN s.listen, SyncedOf(s), q), NEW m, m = Head(q),
           MessageOk(m), SaidOk(m, b, n), Stored(s, n, W)
    PROVE  Stored(OnWatchStreamChange(s, m), n, W)
<1> DEFINE u == UpdateState(s, "Online")
           t == HandleWatchChange(u, m)
           on == Query \in DOMAIN s.listen
           V == SyncedOf(s)
<1>1. /\ Good(u, r) /\ u.stream = "Open"
      /\ Hears(u, b, n, Query \in DOMAIN u.listen, SyncedOf(u), q)
  BY ToldOnline
<1>2. Stored(u, n, W)
  <2> DEFINE F == {"timer", "failed"}
  <2>1. Quiet(s, u, F)
    BY UpdateStateIs DEF Good
  <2> HIDE DEF u
  <2>2. StoredKept(s, u)
    BY <2>1, StoredQuiet DEF OnDisk
  <2> QED
    BY <2>2 DEF StoredKept
<1> HIDE DEF u
<1>3. Stored(t, n, W)
  BY <1>1, <1>2, HandleWatchChangeStored
<1> HIDE DEF t
<1> QED
  BY <1>3 DEF t, u, OnWatchStreamChange

\* Until the backend says more, what the query has had is what the disk says.
LEMMA FirstViewSynced ==
    ASSUME NEW s, NEW r, Good(s, r), NEW c
    PROVE  LET w == FirstView(s, c) IN w.view.synced = s.remoteKeys /\ w.view # NoView
<1> DEFINE a == Listening(s, c)
           new == NewView(s)
           u == [a EXCEPT !.view = new]
           docs == ComputeDocumentChanges(u, Ads)
           view == ApplyChanges(u.view, docs, NoChange)
           w == FirstView(s, c)
<1>1. Shape(a)
  BY ListeningIs DEF Good
<1>2. w = WithView(u, view)
  BY DEF FirstView
<1>3. DOMAIN new = ViewFields /\ new.synced = s.remoteKeys
  BY DEF NewView, ViewFields
<1> HIDE DEF a, new, w
<1>4. Shape(u) /\ u.view = new
  BY <1>1, <1>3 DEF Shape, Fields
<1> HIDE DEF u, docs
<1>5. DOMAIN view = ViewFields /\ view # NoView /\ view.synced = s.remoteKeys
  <2> DEFINE old == u.view
             tc == NoChange
             v == ApplyChanges(old, docs, tc)
  <2>1. DOMAIN old = ViewFields /\ old.synced = s.remoteKeys
    BY <1>3, <1>4
  <2>a. tc = NoChange
    OBVIOUS
  <2> HIDE DEF old, tc
  <2>2. DOMAIN v = ViewFields /\ v # NoView
        /\ v.synced = IF tc = NoChange THEN old.synced ELSE (old.synced \cup tc.added) \ tc.removed
    BY <2>1, ApplyChangesIs
  <2>3. v.synced = s.remoteKeys
    BY <2>1, <2>2, <2>a
  <2> QED
    BY <2>2, <2>3 DEF old, tc
<1> HIDE DEF view
<1>6. w.view = view
  BY <1>2, <1>4, <1>5, WithViewIs
<1> QED
  BY <1>5, <1>6 DEF w

LEMMA AddQueryListenerStored ==
    ASSUME NEW s, NEW r, Good(s, r), NEW c
    PROVE  StoredKept(s, AddQueryListener(s, c))
<1> DEFINE t == AddQueryListener(s, c)
<1>0. Shape(s) /\ Conn(s, r) /\ Served(s)
  BY DEF Good
<1>1. CASE s.listeners # <<>>
  <2> DEFINE F == {"listeners", "mail", "raised"}
  <2>1. t = Joins(s, c)
    BY <1>1 DEF AddQueryListener, Joins, Listening
  <2> HIDE DEF t
  <2>2. Alters(s, t, F)
    BY <1>1, <2>1, JoinsIs
  <2>3. SyncedOf(t) = SyncedOf(s)
    BY <2>2 DEF SyncedOf, Alters, Fields
  <2>4. StoredKept(s, t)
    BY <2>2, <2>3, StoredFrame DEF OnDisk
  <2> QED
    BY <2>4 DEF t
<1>2. CASE s.listeners = <<>>
  <2> DEFINE w == FirstView(s, c)
             ad == "all"
             token == s.token
             F == {"listen", "timer", "aborted", "agg", "stream", "up", "idle"}
  <2>1. s.view = NoView /\ Query \notin DOMAIN s.listen
    BY <1>0, <1>2 DEF Served
  <2>2. Check(w, s.view = NoView) = w
    BY <2>1 DEF Check
  <2>3. t = RemoteListen(w, Query, ad, token)
    BY <1>2, <2>2 DEF AddQueryListener, FirstView, Listening
  <2>4. Shape(w) /\ Alters(s, w, {"listeners", "view", "mail", "raised"})
    BY <1>2, FirstViewIs
  <2>5. w.view.synced = s.remoteKeys /\ w.view # NoView
    BY <1>2, FirstViewSynced
  <2> HIDE DEF w, ad, token, t
  <2>6. Conn(w, r) /\ Query \notin DOMAIN w.listen
    <3>1. Conn(w, r)
      BY <1>0, <2>4, ConnSame
    <3> QED
      BY <2>1, <2>4, <3>1 DEF Alters, Fields
  <2>7. Quiet(w, t, F)
    BY <2>3, <2>4, <2>6, RemoteListenIs
  <2>8. StoredKept(w, t)
    BY <2>7, StoredQuiet DEF OnDisk
  <2>9. StoredKept(s, w)
    <3>1. /\ w.token = s.token /\ w.lastRemote = s.lastRemote /\ w.remoteKeys = s.remoteKeys
          /\ w.cache = s.cache /\ w.mutation = s.mutation
      BY <2>4 DEF Alters, Fields
    <3>2. SyncedOf(w) = s.remoteKeys
      BY <2>5 DEF SyncedOf
    <3> QED
      BY <3>1, <3>2 DEF StoredKept, Stored
  <2>10. StoredKept(s, t)
    BY <2>8, <2>9, StoredThen
  <2> QED
    BY <2>10 DEF t
<1> QED
  BY <1>1, <1>2

LEMMA StopListeningStored ==
    ASSUME NEW s, NEW r, Shape(s), Conn(s, r), Look(s), s.view # NoView,
           Query \in DOMAIN s.listen
    PROVE  StoredKept(s, StopListening(s))
<1> DEFINE limbo == s.view.limbo
           n == [s EXCEPT !.view = NoView]
           w == RemoteStopListening(n, Query)
           t == StopListening(s)
           F == {"listen", "timer", "failed", "aborted", "agg", "up", "idle"}
<1>1. t = RemoveLimboTargets(w, limbo)
  BY DEF StopListening, RemoveAndCleanupTarget
<1>2. Shape(n) /\ Alters(s, n, {"view"}) /\ n.view = NoView
  BY DEF Shape, Alters, Fields
<1> HIDE DEF n
<1>3. /\ n.listen = s.listen /\ n.enqueued = s.enqueued /\ n.active = s.active
      /\ n.lookups = s.lookups
  BY <1>2 DEF Alters, Fields
<1>4. Conn(n, r)
  BY <1>2, ConnSame
<1>5. Quiet(n, w, F) /\ w.listen = Drop(n.listen, Query) /\ Conn(w, r)
  BY <1>2, <1>4, RemoteStopListeningIs
<1> HIDE DEF w, t
<1>6. /\ Shape(w) /\ w.enqueued = s.enqueued /\ w.active = s.active /\ w.lookups = s.lookups
      /\ w.view = NoView
  BY <1>2, <1>3, <1>5 DEF Quiet, Alters, Fields, Broadcast, SameView
<1>7. Look(w)
  <2> DEFINE new == w.listen
             old == s.listen
  <2>1. new = Drop(old, Query)
    BY <1>3, <1>5
  <2> HIDE DEF new, old
  <2>2. DOMAIN new = DOMAIN old \ {Query}
    BY <2>1 DEF Drop
  <2>3. DOMAIN w.listen = DOMAIN s.listen \ {Query}
    BY <2>2 DEF new, old
  <2> QED
    BY <1>6, <2>3 DEF Look
<1>8. IsFiniteSet(limbo)
  <2>1. limbo \subseteq Ads
    BY DEF Look
  <2> QED
    BY <2>1, FS_Subset, BoundsAssumption
<1> HIDE DEF limbo
<1>9. Limbo(w, t, r)
  BY <1>1, <1>5, <1>6, <1>7, <1>8, RemoveLimboTargetsIs
<1>10. StoredKept(s, n)
  <2>1. SyncedOf(n) = Ads
    BY <1>2 DEF SyncedOf
  <2> QED
    BY <1>2, <2>1, StoredFrame DEF OnDisk
<1>11. StoredKept(n, w)
  BY <1>5, StoredQuiet DEF OnDisk
<1>12. StoredKept(w, t)
  BY <1>9, StoredQuiet DEF Limbo, LimboF, OnDisk
<1>13. StoredKept(s, t)
  BY <1>10, <1>11, <1>12 DEF StoredKept
<1> QED
  BY <1>13 DEF t

LEMMA RemoveQueryListenerStored ==
    ASSUME NEW s, NEW r, Good(s, r), NEW c
    PROVE  StoredKept(s, RemoveQueryListener(s, c))
<1> DEFINE u == Leaves(s, c)
           t == RemoveQueryListener(s, c)
<1>0. Shape(s) /\ Conn(s, r) /\ Look(s) /\ Served(s)
  BY DEF Good
<1>1. Shape(u) /\ Alters(s, u, {"listeners", "raised"})
  BY <1>0, LeavesIs
<1>2. t = IF s.listeners # <<>> /\ u.listeners = <<>> THEN StopListening(u) ELSE u
  BY DEF RemoveQueryListener, Leaves
<1> HIDE DEF u, t
<1>3. /\ u.view = s.view /\ u.listen = s.listen /\ u.enqueued = s.enqueued
      /\ u.active = s.active /\ u.lookups = s.lookups
  BY <1>1 DEF Alters, Fields
<1>4. Conn(u, r) /\ Look(u) /\ SyncedOf(u) = SyncedOf(s)
  <2>1. Conn(u, r)
    BY <1>0, <1>1, ConnSame
  <2>2. Look(u)
    BY <1>0, <1>3 DEF Look
  <2>3. SyncedOf(u) = SyncedOf(s)
    BY <1>3 DEF SyncedOf
  <2> QED
    BY <2>1, <2>2, <2>3
<1>5. StoredKept(s, u)
  BY <1>1, <1>4, StoredFrame DEF OnDisk
<1>6. CASE s.listeners # <<>> /\ u.listeners = <<>>
  <2>1. t = StopListening(u)
    BY <1>2, <1>6
  <2>2. u.view # NoView /\ Query \in DOMAIN u.listen
    BY <1>0, <1>3, <1>6 DEF Served
  <2>3. StoredKept(u, t)
    BY <1>1, <1>4, <2>1, <2>2, StopListeningStored
  <2>4. StoredKept(s, t)
    BY <1>5, <2>3, StoredThen
  <2> QED
    BY <2>4 DEF t
<1>7. CASE ~(s.listeners # <<>> /\ u.listeners = <<>>)
  BY <1>2, <1>5, <1>7 DEF t
<1> QED
  BY <1>6, <1>7

LEMMA WrittenStored ==
    ASSUME NEW s, NEW r, Good(s, r), NEW n \in Nat, NEW W, Stored(s, n, W), NEW mutation, NEW cache,
           NEW changed, mutation.made => mutation.data \in W,
           DOMAIN cache = Ads,
           \A d \in Ads : cache[d].at \in 0..n /\ cache[d].data \in 0..Mine
    PROVE  Stored(EmitNewSnapshots(Written(s, mutation, cache), changed, NoChange), n, W)
<1> DEFINE F == {"mutation", "cache"}
           u == Written(s, mutation, cache)
           tc == NoChange
           w == EmitNewSnapshots(u, changed, tc)
<1>1. Shape(s) /\ Conn(s, r)
  BY DEF Good
<1>2. Shape(u) /\ Alters(s, u, F) /\ u.mutation = mutation /\ u.cache = cache
  BY <1>1 DEF Written, Shape, Alters, Fields
<1> HIDE DEF u
<1>3. Conn(u, r)
  BY <1>1, <1>2, ConnSame
<1>4. Quiet(s, u, F)
  BY <1>1, <1>2, QuietFrame
<1>5. /\ u.token = s.token /\ u.lastRemote = s.lastRemote /\ u.remoteKeys = s.remoteKeys
      /\ u.view = s.view
  BY <1>2 DEF Alters, Fields
<1>6. F \subseteq Fields \ {"listen", "enqueued", "active", "lookups", "listeners"}
  BY DEF Fields
<1> HIDE DEF F
<1>7. Good(u, r)
  BY <1>3, <1>4, <1>6, QuietHandled DEF Handled
<1>8. tc = NoChange
  OBVIOUS
<1> HIDE DEF tc
<1>9. SyncedOf(w) = SyncedOf(u) /\ Alters(u, w, LimboF \cup Broadcast)
  BY <1>7, <1>8, EmitNewSnapshotsKeeps, EmitNewSnapshotsIs
<1> HIDE DEF w
<1>10. Stored(u, n, W)
  <2>1. SyncedOf(u) = SyncedOf(s)
    BY <1>5 DEF SyncedOf
  <2> QED
    BY <1>2, <1>5, <2>1 DEF Stored
<1>11. StoredKept(u, w)
  BY <1>9, StoredFrame DEF LimboF, Broadcast, OnDisk
<1> QED
  BY <1>10, <1>11 DEF StoredKept, w, tc, u

LEMMA WriteLocallyStored ==
    ASSUME NEW s, NEW r, Good(s, r), NEW d, NEW n \in Nat, NEW W, NEW text \in W, Stored(s, n, W)
    PROVE  Stored(WriteLocally(s, d, text), n, W)
<1> DEFINE mutation == [made |-> TRUE, ad |-> d, data |-> text]
           cache == s.cache
           changed == {d}
           u == Written(s, mutation, cache)
           t == WriteLocally(s, d, text)
<1>1. Shape(s)
  BY DEF Good
<1>2. [s EXCEPT !.mutation = mutation] = u
  BY <1>1 DEF Written, Shape, Fields
<1>3. t = EmitNewSnapshots(u, changed, NoChange)
  BY <1>2 DEF WriteLocally
<1>4. mutation.made => mutation.data \in W
  OBVIOUS
<1>5. DOMAIN cache = Ads /\ \A e \in Ads : cache[e].at \in 0..n /\ cache[e].data \in 0..Mine
  BY DEF Stored
<1> HIDE DEF mutation, cache, changed, t
<1>6. Stored(t, n, W)
  BY <1>3, <1>4, <1>5, WrittenStored
<1> QED
  BY <1>6 DEF t

LEMMA AcknowledgeBatchStored ==
    ASSUME NEW s, NEW r, Good(s, r), s.mutation.made, NEW n \in Nat, NEW W, Stored(s, n, W),
           NEW version \in 0..n, W \subseteq 0..Mine
    PROVE  Stored(AcknowledgeBatch(s, version), n, W)
<1> DEFINE d == s.mutation.ad
           doc == [at |-> version, data |-> s.mutation.data, committed |-> TRUE]
           mutation == [made |-> FALSE]
           old == s.cache
           cache == [old EXCEPT ![d] = IF @.at < version THEN doc ELSE @]
           changed == {d}
           u == Written(s, mutation, cache)
           t == AcknowledgeBatch(s, version)
<1>1. Shape(s)
  BY DEF Good
<1>2. [s EXCEPT !.mutation = [made |-> FALSE],
                !.cache[d] = IF @.at < version THEN doc ELSE @] = u
  BY <1>1 DEF Written, Shape, Fields
<1>3. t = EmitNewSnapshots(u, changed, NoChange)
  BY <1>2 DEF AcknowledgeBatch
<1>4. doc.at \in 0..n /\ doc.data \in 0..Mine
  BY DEF Stored
<1>5. DOMAIN old = Ads /\ \A e \in Ads : old[e].at \in 0..n /\ old[e].data \in 0..Mine
  BY DEF Stored
<1>6. ~mutation.made
  OBVIOUS
<1> HIDE DEF d, doc, old, mutation, changed, t
<1>7. DOMAIN cache = Ads /\ \A e \in Ads : cache[e] \in {old[e], doc}
  BY <1>5
<1> HIDE DEF cache
<1>8. DOMAIN cache = Ads /\ \A e \in Ads : cache[e].at \in 0..n /\ cache[e].data \in 0..Mine
  BY <1>4, <1>5, <1>7
<1>9. Stored(t, n, W)
  BY <1>3, <1>6, <1>8, WrittenStored
<1> QED
  BY <1>9 DEF t

LEMMA RejectBatchStored ==
    ASSUME NEW s, NEW r, Good(s, r), NEW n \in Nat, NEW W, Stored(s, n, W)
    PROVE  Stored(RejectBatch(s), n, W)
<1> DEFINE mutation == [made |-> FALSE]
           cache == s.cache
           changed == {s.mutation.ad}
           u == Written(s, mutation, cache)
           t == RejectBatch(s)
<1>1. Shape(s)
  BY DEF Good
<1>2. [s EXCEPT !.mutation = mutation] = u
  BY <1>1 DEF Written, Shape, Fields
<1>3. t = EmitNewSnapshots(u, changed, NoChange)
  BY <1>2 DEF RejectBatch
<1>4. ~mutation.made
  OBVIOUS
<1>5. DOMAIN cache = Ads /\ \A e \in Ads : cache[e].at \in 0..n /\ cache[e].data \in 0..Mine
  BY DEF Stored
<1> HIDE DEF mutation, cache, changed, t
<1>6. Stored(t, n, W)
  BY <1>3, <1>4, <1>5, WrittenStored
<1> QED
  BY <1>6 DEF t

-----------------------------------------------------------------------------
(* What the backend says makes sense                                        *)

\* Messages that are well formed and do not tell whether the query is listened to.
Aside(q, b, n) == IsSeq(q) /\ Mute(q) /\ \A m \in Range(q) : SaidOk(m, b, n)
\* The answer to the request m, in terms of what is owed.
Answers(q, m, b, n) ==
  /\ IsSeq(q) /\ \A x \in Range(q) : SaidOk(x, b, n)
  /\ ~b => /\ Due(q) = IF Owes(m) THEN 1 ELSE 0
           /\ AsksOn(q) <=> Wants(m)
           /\ Settled(q) <=> ~Gives(m)

BoardOk == /\ IsSeq(board) /\ Now \in Nat \ {0}
           /\ \A v \in 1..Now : DOMAIN board[v] = Ads /\ \A d \in Ads : board[v][d] \in Remote(Now)

LEMMA AsideJoined ==
    ASSUME NEW p, NEW q, NEW b, NEW n, Aside(p, b, n), Aside(q, b, n)
    PROVE  Aside(p \o q, b, n)
<1>1. IsSeq(Joined(p, q)) /\ Range(Joined(p, q)) = Range(p) \cup Range(q)
  BY JoinedIs DEF Aside
<1>2. Aside(Joined(p, q), b, n)
  BY <1>1 DEF Aside, Mute
<1> QED
  BY <1>2 DEF Joined

LEMMA AsideOne ==
    ASSUME NEW m, NEW b, NEW n, SaidOk(m, b, n), ~Owes(m)
    PROVE  Aside(<<m>>, b, n)
BY SeqOne DEF Aside, Mute

LEMMA AsideMutes ==
    ASSUME NEW q, NEW b, NEW n, Aside(q, b, n)
    PROVE  Due(q) = 0 /\ ~AsksOn(q) /\ Settled(q)
BY MuteSays DEF Aside

LEMMA AnswersJoined ==
    ASSUME NEW p, NEW q, NEW m, NEW b, NEW n, Answers(p, m, b, n), Aside(q, b, n)
    PROVE  Answers(p \o q, m, b, n)
<1>1. IsSeq(p) /\ IsSeq(q)
  BY DEF Answers, Aside
<1>2. IsSeq(Joined(p, q)) /\ Range(Joined(p, q)) = Range(p) \cup Range(q)
  BY <1>1, JoinedIs
<1>3. \A x \in Range(Joined(p, q)) : SaidOk(x, b, n)
  BY <1>2 DEF Answers, Aside
<1>4. /\ Due(Joined(p, q)) = Due(p) + Due(q)
      /\ AsksOn(Joined(p, q)) <=> AsksOn(p) \/ AsksOn(q)
      /\ Settled(Joined(p, q)) <=> Settled(q) /\ (Settled(p) \/ AsksOn(q))
  BY <1>1, DueJoined, SenseJoined
<1>5. Due(q) = 0 /\ ~AsksOn(q) /\ Settled(q)
  BY AsideMutes
<1>6. Answers(Joined(p, q), m, b, n)
  BY <1>2, <1>3, <1>4, <1>5 DEF Answers
<1> QED
  BY <1>6 DEF Joined

LEMMA SayIs ==
    ASSUME NEW type \in {"added", "removed", "current", "rejected"}, NEW x \in Nat, NEW b, NEW n,
           type = "rejected" /\ x = Query => b
    PROVE  /\ IsSeq(Say(type, x)) /\ \A m \in Range(Say(type, x)) : SaidOk(m, b, n)
           /\ type \in {"current", "rejected"} => Aside(Say(type, x), b, n)
           /\ type = "added" => \A m : (Wants(m) <=> x = Query) /\ ~Gives(m)
                                          => Answers(Say(type, x), m, b, n)
           /\ type = "removed" => \A m : (Gives(m) <=> x = Query) /\ ~Wants(m)
                                            => Answers(Say(type, x), m, b, n)
<1> DEFINE y == [type |-> type, target |-> x]
<1>1. Say(type, x) = <<y>>
  BY DEF Say
<1>2. SaidOk(y, b, n)
  BY DEF SaidOk
<1>3. /\ Wants(y) <=> type = "added" /\ x = Query
      /\ Gives(y) <=> type = "removed" /\ x = Query
  BY DEF Wants, Gives
<1> HIDE DEF y
<1>4. IsSeq(<<y>>) /\ Range(<<y>>) = {y}
  BY SeqOne
<1>5. type \in {"current", "rejected"} => Aside(<<y>>, b, n)
  BY <1>2, <1>3, AsideOne DEF Owes
<1>6. /\ Due(<<y>>) = IF Owes(y) THEN 1 ELSE 0
      /\ AsksOn(<<y>>) <=> Wants(y)
      /\ Settled(<<y>>) <=> ~Gives(y)
  BY OneSays
<1>7. \A m : (Wants(m) <=> Wants(y)) /\ (Gives(m) <=> Gives(y)) => Answers(<<y>>, m, b, n)
  BY <1>2, <1>4, <1>6 DEF Answers, Owes
<1> QED
  BY <1>1, <1>2, <1>3, <1>4, <1>5, <1>7

LEMMA ResetAside ==
    ASSUME NEW b, ~b, NEW n
    PROVE  Aside(Say("reset", Query), b, n)
<1> DEFINE y == [type |-> "reset", target |-> Query]
<1>1. Say("reset", Query) = <<y>>
  BY DEF Say
<1>2. SaidOk(y, b, n) /\ ~Owes(y)
  BY DEF SaidOk, Owes, Wants, Gives
<1> HIDE DEF y
<1> QED
  BY <1>1, <1>2, AsideOne

LEMMA FilterAside ==
    ASSUME NEW x, NEW ad, Names(x, ad), NEW b, ~b, NEW n
    PROVE  Aside(Filter(x, ad), b, n)
<1> DEFINE live == {d \in Scope(ad) : Live(d, Now)}
           count == Cardinality(live)
           m == [type |-> "filter", target |-> x, count |-> count]
<1>1. Filter(x, ad) = <<m>>
  BY DEF Filter
<1>2. live \subseteq Scope(ad)
  OBVIOUS
<1> HIDE DEF live
<1>3. IsFiniteSet(Ads) /\ Cardinality(Ads) \in Nat
  BY BoundsAssumption, FS_CardinalityType
<1>4. Scope(ad) \subseteq Ads
  BY BoundsAssumption DEF Names, Scope
<1>5. count \in 0..Cardinality(Ads)
  <2>1. IsFiniteSet(live) /\ Cardinality(live) <= Cardinality(Ads)
    BY <1>2, <1>3, <1>4, FS_Subset
  <2>2. Cardinality(live) \in Nat
    BY <2>1, FS_CardinalityType
  <2> QED
    BY <1>3, <2>1, <2>2
<1>6. x # Query => count \in {0, 1}
  <2> SUFFICES ASSUME x # Query PROVE count \in {0, 1}
    OBVIOUS
  <2>1. Scope(ad) = {ad}
    BY BoundsAssumption DEF Names, Scope
  <2>2. live = {} \/ live = {ad}
    BY <1>2, <2>1
  <2> QED
    BY <2>2, FS_EmptySet, FS_Singleton
<1> HIDE DEF count
<1>7. SaidOk(m, b, n) /\ ~Owes(m)
  <2>1. x \in Nat
    BY DEF Names
  <2> QED
    BY <1>5, <1>6, <2>1 DEF SaidOk, Owes, Wants, Gives
<1> HIDE DEF m
<1> QED
  BY <1>1, <1>7, AsideOne

LEMMA DocsAside ==
    ASSUME BoardOk, NEW x, NEW ad, Names(x, ad), NEW b, ~b, NEW ds, ds \subseteq Scope(ad)
    PROVE  Aside(Docs(x, ds), b, Now)
<1> DEFINE docs == [d \in ds |-> board[Now][d]]
           m == [type |-> "docs", target |-> x, docs |-> docs]
<1>1. Docs(x, ds) = IF ds = {} THEN <<>> ELSE <<m>>
  BY DEF Docs
<1>2. ds \subseteq Ads /\ x \in Nat
  BY BoundsAssumption DEF Names, Scope
<1>3. DOMAIN docs \subseteq Ads /\ \A d \in DOMAIN docs : docs[d] \in Remote(Now)
  <2>1. Now \in 1..Now
    BY DEF BoardOk
  <2> QED
    BY <1>2, <2>1 DEF BoardOk
<1> HIDE DEF docs
<1>4. SaidOk(m, b, Now) /\ ~Owes(m)
  BY <1>2, <1>3 DEF SaidOk, Owes, Wants, Gives
<1> HIDE DEF m
<1>5. Aside(<<m>>, b, Now)
  BY <1>4, AsideOne
<1>6. Aside(<<>>, b, Now)
  BY SeqEmpty DEF Aside, Mute
<1> QED
  BY <1>1, <1>5, <1>6

LEMMA WatchAnswersSay ==
    ASSUME BoardOk, NEW m, m.type = "watch", AskOk(m, Now), NEW reply \in WatchAnswers(m)
    PROVE  Answers(reply, m, backend.refuses, Now)
<1> DEFINE b == backend.refuses
           n == Now
           x == m.target
           ad == m.ad
           changed == Added(ad, m.token)
           gone == Removed(ad, m.token)
           ads == changed \cup gone
           every == Added(ad, 0)
           added == Docs(x, changed)
           all == Docs(x, ads)
           whole == Docs(x, every)
           current == Say("current", x)
           filter == Filter(x, ad)
           first == Say("added", x)
           reset == Say("reset", x)
           no == Say("rejected", x)
<1>1. Names(x, ad) /\ x \in Nat /\ (x = Query <=> ad = "all")
  BY BoundsAssumption DEF AskOk, Names
<1>2. (Wants(m) <=> x = Query) /\ ~Gives(m)
  BY DEF Wants, Gives
<1>3. changed \subseteq Scope(ad) /\ ads \subseteq Scope(ad) /\ every \subseteq Scope(ad)
  BY DEF Added, Removed
<1>4. /\ b => reply = no
      /\ ~b => \/ reply = (first \o all) \o current
               \/ reply = ((first \o added) \o filter) \o current
               \/ reply = ((first \o added) \o current) \o filter
               \/ reply = ((first \o reset) \o whole) \o current /\ ad = "all"
               \/ reply = no /\ ad # "all"
  BY DEF WatchAnswers
<1> HIDE DEF b, changed, ads, every
<1>5. CASE b
  <2>1. IsSeq(no) /\ \A y \in Range(no) : SaidOk(y, b, n)
    BY <1>1, <1>5, SayIs
  <2> HIDE DEF no, n
  <2> QED
    BY <1>4, <1>5, <2>1 DEF Answers, b, n
<1>6. CASE ~b
  <2>1. Aside(added, b, n) /\ Aside(all, b, n) /\ Aside(whole, b, n)
    BY <1>1, <1>3, <1>6, DocsAside
  <2>2. Aside(current, b, n)
    BY <1>1, SayIs
  <2>3. Aside(filter, b, n)
    BY <1>1, <1>6, FilterAside
  <2>4. Answers(first, m, b, n)
    <3> HIDE DEF x, n
    <3> QED
      BY <1>1, <1>2, SayIs
  <2>5. CASE reply = no /\ ad # "all"
    <3>1. Aside(no, b, n)
      <4>1. x # Query
        BY <1>1, <2>5
      <4> HIDE DEF x
      <4> QED
        BY <1>1, <4>1, SayIs
    <3> HIDE DEF no, n
    <3>2. Due(no) = 0 /\ ~AsksOn(no) /\ Settled(no)
      BY <3>1, AsideMutes
    <3>3. ~Owes(m)
      BY <1>1, <1>2, <2>5 DEF Owes
    <3>4. ~Wants(m)
      BY <3>3 DEF Owes
    <3> QED
      BY <1>2, <2>5, <3>1, <3>2, <3>3, <3>4 DEF Answers, Aside, b, n
  <2>a. ad = "all" => Aside(reset, b, n)
    BY <1>1, <1>6, ResetAside
  <2> HIDE DEF x, added, all, whole, current, filter, first, reset, no, n
  <2>6. Answers(first \o all, m, b, n) /\ Answers(first \o added, m, b, n)
    BY <2>1, <2>4, AnswersJoined
  <2>7. Answers((first \o all) \o current, m, b, n)
    BY <2>2, <2>6, AnswersJoined
  <2>8. Answers((first \o added) \o filter, m, b, n) /\ Answers((first \o added) \o current, m, b, n)
    BY <2>2, <2>3, <2>6, AnswersJoined
  <2>9. Answers(((first \o added) \o filter) \o current, m, b, n)
    BY <2>2, <2>8, AnswersJoined
  <2>10. Answers(((first \o added) \o current) \o filter, m, b, n)
    BY <2>3, <2>8, AnswersJoined
  <2>11. ASSUME ad = "all" PROVE Answers(((first \o reset) \o whole) \o current, m, b, n)
    <3>1. Aside(reset, b, n)
      BY <2>a, <2>11
    <3>2. Answers(first \o reset, m, b, n)
      BY <2>4, <3>1, AnswersJoined
    <3>3. Answers((first \o reset) \o whole, m, b, n)
      BY <2>1, <3>2, AnswersJoined
    <3> QED
      BY <2>2, <3>3, AnswersJoined
  <2> QED
    BY <1>4, <1>6, <2>5, <2>7, <2>9, <2>10, <2>11 DEF b, n
<1> QED
  BY <1>5, <1>6

LEMMA AllNewsAside ==
    ASSUME BoardOk, NEW S, IsFiniteSet(S), NEW b, ~b,
           \A x \in S : Names(x, backend.served[x].ad)
    PROVE  Aside(AllNews(S), b, Now)
<1> DEFINE after == Telling!Loop(0, <<>>, S)
           nil == <<>>
           n == Now
<1>0. AllNews(S) = after
  BY NewsLoop
<1>1. PICK R : /\ <<{}, nil>> \in R
               /\ \A V : /\ <<{}, nil>> \in V
                         /\ \A done, acc, x :
                               /\ <<done, acc>> \in V /\ done \subseteq S /\ x \in S \ done
                               /\ <<done \cup {x}, acc \o News(x)>> \in R
                               => <<done \cup {x}, acc \o News(x)>> \in V
                         => <<S, after>> \in V
  BY NewsKeep
<1> HIDE DEF after
<1>2. Aside(nil, b, n)
  BY SeqEmpty DEF Aside, Mute
<1>3. \A x \in S : Aside(News(x), b, n)
  <2> SUFFICES ASSUME NEW x \in S PROVE Aside(News(x), b, n)
    OBVIOUS
  <2> DEFINE c == backend.served[x]
             ad == c.ad
             ads == Added(ad, c.at) \cup Removed(ad, c.at)
  <2>1. ads \subseteq Scope(ad)
    BY DEF Added, Removed
  <2>2. News(x) = Docs(x, ads)
    BY DEF News
  <2>3. Names(x, ad)
    OBVIOUS
  <2> HIDE DEF ads, ad
  <2>4. Aside(Docs(x, ads), b, n)
    BY <2>1, <2>3, DocsAside
  <2> QED
    BY <2>2, <2>4
<1> HIDE DEF nil, n
<1> DEFINE V == {v \in R : Aside(v[2], b, n)}
<1>4. \A acc : \A x \in S : Aside(acc, b, n) => Aside(acc \o News(x), b, n)
  BY <1>3, AsideJoined
<1>5. <<S, after>> \in V
  BY <1>1, <1>2, <1>4
<1>6. Aside(after, b, n)
  BY <1>5
<1> QED
  BY <1>0, <1>6 DEF n

LEMMA ExchangeIs ==
    ASSUME NEW s, Shape(s), NEW up, NEW down
    PROVE  LET t == Exchange(s, up, down)
           IN Shape(t) /\ Alters(s, t, {"up", "down"}) /\ t.up = up /\ t.down = down
BY DEF Exchange, Shape, Alters, Fields

\* Messages travel: what is well formed stays so, what is owed is owed until it is read.
LEMMA ExchangedSense ==
    ASSUME NEW s, Shape(s), IsSeq(s.up), IsSeq(s.down), NEW up, NEW q, NEW b, NEW n,
           Texts(s, b, n), Sense(s, b), IsSeq(up), Range(up) \subseteq Range(s.up),
           IsSeq(q), \A m \in Range(q) : SaidOk(m, b, n),
           ~b => /\ Due(s.up) = Due(up) + Due(q)
                 /\ Settled(s.up) => Settled(up)
                 /\ Settled(s.up) /\ (Settled(s.down) \/ AsksOn(s.up))
                       => Settled(Joined(s.down, q)) \/ AsksOn(up)
    PROVE  LET t == Exchange(s, up, Joined(s.down, q))
           IN Texts(t, b, n) /\ Sense(t, b)
<1> DEFINE down == Joined(s.down, q)
           t == Exchange(s, up, down)
           on == Query \in DOMAIN s.listen
           V == SyncedOf(s)
<1>1. /\ IsSeq(down) /\ Range(down) = Range(s.down) \cup Range(q)
      /\ Due(down) = Due(s.down) + Due(q)
  BY JoinedIs, DueJoined
<1>a. Due(s.down) \in Nat /\ Due(q) \in Nat /\ Due(up) \in Nat
  BY NothingDue
<1>b. Settled(s.up) /\ (Settled(s.down) \/ AsksOn(s.up)) /\ ~b => Settled(down) \/ AsksOn(up)
  OBVIOUS
<1> HIDE DEF down
<1>2. Shape(t) /\ Alters(s, t, {"up", "down"}) /\ t.up = up /\ t.down = down
  BY ExchangeIs
<1> HIDE DEF t
<1>3. /\ t.stream = s.stream /\ t.agg = s.agg /\ t.listen = s.listen /\ t.lookups = s.lookups
      /\ t.enqueued = s.enqueued /\ t.view = s.view
  BY <1>2 DEF Alters, Fields
<1>4. Texts(t, b, n)
  BY <1>1, <1>2, <1>3 DEF Texts
<1>5. Talk(s, b, on, V) /\ Typed(s)
  BY DEF Sense, Talk
<1> HIDE DEF on, V
<1>6. \A x : TargetState(t, x) = TargetState(s, x)
  BY <1>3 DEF TargetState
<1>7. Typed(t) /\ Synced(t, b, on, V) /\ LookupNews(t)
  BY <1>3, <1>5, <1>6 DEF Talk, Typed, Synced, LookupNews, News1
<1>8. Owe(t, b, on, t.down)
  <2> SUFFICES ASSUME s.stream = "Open", ~b
               PROVE  /\ TargetState(t, Query).pending = Due(down) + Due(up)
                      /\ on => /\ Query \in DOMAIN t.agg.states
                               /\ Settled(up) /\ (Settled(down) \/ AsksOn(up))
    BY <1>2, <1>3 DEF Owe
  <2>1. /\ TargetState(s, Query).pending = Due(s.down) + Due(s.up)
        /\ on => /\ Query \in DOMAIN s.agg.states
                 /\ Settled(s.up) /\ (Settled(s.down) \/ AsksOn(s.up))
    BY <1>5 DEF Talk, Owe
  <2>2. TargetState(t, Query).pending = Due(down) + Due(up)
    BY <1>1, <1>a, <1>6, <2>1
  <2> QED
    BY <1>3, <1>b, <2>1, <2>2
<1>9. Talk(t, b, on, V)
  BY <1>7, <1>8 DEF Talk
<1>10. (Query \in DOMAIN t.listen) = on /\ SyncedOf(t) = V
  BY <1>3 DEF on, V, SyncedOf
<1> DEFINE on2 == Query \in DOMAIN t.listen
           V2 == SyncedOf(t)
<1>11. Talk(t, b, on2, V2)
  <2>1. on2 = on /\ V2 = V
    BY <1>10
  <2> HIDE DEF on2, V2
  <2> QED
    BY <1>9, <2>1
<1>12. Sense(t, b)
  BY <1>11 DEF Sense
<1> QED
  BY <1>4, <1>12 DEF t, down

-----------------------------------------------------------------------------
(* No assertion fails                                                       *)

\* What the phone writes, once the user has entered it.
Entered == IF own.made THEN {own.data} ELSE {}

\* The client understands what is said to it, and no assertion has failed.
Sensible(s, b, n, W) == Texts(s, b, n) /\ Sense(s, b) /\ Stored(s, n, W) /\ ~s.aborted

ServedOk == /\ backend.refuses \in BOOLEAN
            /\ backend.refuses => DOMAIN backend.served = {}
            /\ \A x \in DOMAIN backend.served : Names(x, backend.served[x].ad)
OwnOk == /\ own.at \in 0..Now /\ own.made \in BOOLEAN /\ Entered \subseteq 0..Mine
         /\ \A task \in Range(tasks) : task.type = "write" => own.made

SenseInv == /\ BoardOk /\ ServedOk /\ OwnOk
            /\ Sensible(client, backend.refuses, Now, Entered)

LEMMA SensibleThen ==
    ASSUME NEW s, NEW t, NEW b, NEW n \in Nat, NEW W, Sensible(s, b, n, W),
           Calm(s, t), StoredKept(s, t)
    PROVE  Sensible(t, b, n, W)
BY DEF Sensible, Calm, TextsKept, StoredKept

\* A step that is quiet but for the connection.
LEMMA SensibleQuiet ==
    ASSUME NEW s, NEW t, NEW b, NEW n \in Nat, NEW W, Sensible(s, b, n, W),
           NEW F, Quiet(s, t, F), Calm(s, t), F \cap OnDisk = {}
    PROVE  Sensible(t, b, n, W)
<1>1. StoredKept(s, t)
  BY StoredQuiet
<1> QED
  BY <1>1, SensibleThen

LEMMA WorkerSense ==
    ASSUME IInv, SenseInv, NEW t, Worker(t), Sensible(t, backend.refuses, Now, Entered),
           board' = board, own'.at = own.at, own'.made = own.made, Entered' = Entered,
           Range(tasks') \subseteq Range(tasks)
    PROVE  SenseInv'
<1> DEFINE b == backend.refuses
           n == Now
           W == Entered
           none == NoStates
<1>1. DOMAIN none = {}
  BY NoStatesIs
<1>2. client' = t /\ (backend' = backend \/ backend' = [backend EXCEPT !.served = none, !.due = FALSE])
  BY DEF Worker
<1> HIDE DEF none
<1>3. backend'.refuses = b /\ (backend'.served = backend.served \/ backend'.served = none)
  BY <1>2 DEF IInv, BackendInv
<1>4. ServedOk'
  <2>1. ServedOk
    BY DEF SenseInv
  <2>2. CASE backend'.served = backend.served
    BY <1>3, <2>1, <2>2 DEF ServedOk
  <2>3. CASE backend'.served = none
    BY <1>1, <1>3, <2>1, <2>3 DEF ServedOk
  <2> QED
    BY <1>3, <2>2, <2>3
<1>5. n' = n /\ W' = W
  BY DEF Now
<1>6. OwnOk'
  <2>1. OwnOk
    BY DEF SenseInv
  <2> QED
    BY <1>5, <2>1 DEF OwnOk
<1>7. BoardOk'
  <2>1. BoardOk
    BY DEF SenseInv
  <2> QED
    BY <1>5, <2>1 DEF BoardOk
<1> HIDE DEF n, W, b
<1>8. Sensible(client', b, n, W)
  BY <1>2 DEF b, n, W
<1>9. Sensible(client', backend'.refuses, Now', Entered')
  BY <1>3, <1>5, <1>8 DEF n, W
<1>10. Sensible(client, backend.refuses, Now, Entered)'
  BY <1>9
<1> QED
  BY <1>4, <1>6, <1>7, <1>10 DEF SenseInv

LEMMA SenseParts ==
    ASSUME SenseInv
    PROVE  /\ Sensible(client, backend.refuses, Now, Entered) /\ Now \in Nat \ {0}
           /\ backend.refuses \in BOOLEAN
BY DEF SenseInv, BoardOk, ServedOk

\* Frames of the tasks that leave the other queues alone.
SameElsewhere == UNCHANGED <<board, own, tasks>>

LEMMA SameIs ==
    ASSUME SameElsewhere
    PROVE  /\ board' = board /\ own'.at = own.at /\ own'.made = own.made /\ Entered' = Entered
           /\ Range(tasks') \subseteq Range(tasks)
BY DEF SameElsewhere, Entered

LEMMA ResumeStartSense == ASSUME IInv, SenseInv, ResumeStartWithCredentials PROVE SenseInv'
<1> DEFINE s == client
           t == OnWatchStreamOpen(s)
           F == {"stream", "agg", "up", "idle"}
           r == spent.reused
           b == backend.refuses
           n == Now
           W == Entered
<1>1. Worker(t) /\ SameElsewhere /\ s.stream = "Starting"
  BY DEF ResumeStartWithCredentials, SameElsewhere
<1>2. Quiet(s, t, F)
  BY <1>1, GoodParts, OnWatchStreamOpenIs
<1>a. Shape(s) /\ Conn(s, r) /\ Sensible(s, b, n, W) /\ n \in Nat
  BY GoodParts, SenseParts
<1> HIDE DEF r, s, b, n, W
<1>3. /\ TextsKept(s, t)
      /\ \A c, V : Talk(t, c, Query \in DOMAIN t.listen, V)
  BY <1>1, <1>a, OnWatchStreamOpenTalk
<1> HIDE DEF t
<1>4. t.aborted = s.aborted
  BY <1>2 DEF Quiet, Alters, Fields, Broadcast
<1>5. StoredKept(s, t)
  BY <1>2, StoredQuiet DEF OnDisk
<1>6. Sensible(t, b, n, W)
  BY <1>3, <1>4, <1>5, <1>a DEF Sensible, TextsKept, StoredKept, Sense
<1> QED
  BY <1>1, <1>6, SameIs, WorkerSense DEF s, b, n, W

LEMMA OnStreamFinishSense == ASSUME IInv, SenseInv, OnStreamFinish PROVE SenseInv'
<1> DEFINE s == client
           t == CloseWithError(s)
           F == {"stream", "idle", "up", "down", "agg", "timer", "failed", "aborted"}
           r == spent.reused
           b == backend.refuses
           n == Now
           W == Entered
<1>1. Worker(t) /\ SameElsewhere /\ IsStarted(s)
  BY DEF OnStreamFinish, SameElsewhere, IsStarted
<1>2. Shape(s) /\ Conn(s, r) /\ Sensible(s, b, n, W) /\ n \in Nat
  BY GoodParts, SenseParts
<1>3. Quiet(s, t, F) /\ Conn(t, r) /\ t.aborted = s.aborted /\ t.stream # "Open"
  BY <1>1, <1>2, CloseWithErrorIs
<1> HIDE DEF r, s, t, b, n, W
<1>4. Calm(s, t)
  BY <1>3, CalmClosed
<1>5. Sensible(t, b, n, W)
  BY <1>2, <1>3, <1>4, SensibleQuiet DEF OnDisk
<1> QED
  BY <1>1, <1>5, SameIs, WorkerSense DEF s, b, n, W

LEMMA NetworkChangeSense == ASSUME IInv, SenseInv, NetworkChange PROVE SenseInv'
<1> DEFINE s == client
           t == RestartNetwork(s)
           F == {"network", "stream", "idle", "up", "down", "agg", "timer", "failed", "aborted"}
           r == spent.reused
           b == backend.refuses
           n == Now
           W == Entered
<1>1. Worker(t) /\ SameElsewhere
  BY DEF NetworkChange, SameElsewhere
<1>2. Shape(s) /\ Conn(s, r) /\ Sensible(s, b, n, W) /\ n \in Nat
  BY GoodParts, SenseParts
<1>3. Quiet(s, t, F) /\ Conn(t, r) /\ t.aborted = s.aborted /\ t.stream # "Open"
  BY <1>2, RestartNetworkIs
<1> HIDE DEF r, s, t, b, n, W
<1>4. Calm(s, t)
  BY <1>3, CalmClosed
<1>5. Sensible(t, b, n, W)
  BY <1>2, <1>3, <1>4, SensibleQuiet DEF OnDisk
<1> QED
  BY <1>1, <1>5, SameIs, WorkerSense DEF s, b, n, W

LEMMA BackoffElapsedSense == ASSUME IInv, SenseInv, BackoffElapsed PROVE SenseInv'
<1> DEFINE s == client
           t == [s EXCEPT !.stream = "Starting"]
           F == {"stream"}
           r == spent.reused
           b == backend.refuses
           n == Now
           W == Entered
<1>1. Worker(t) /\ SameElsewhere /\ s.stream = "Backoff"
  BY DEF BackoffElapsed, SameElsewhere
<1>2. Shape(s) /\ Conn(s, r) /\ Sensible(s, b, n, W) /\ n \in Nat
  BY GoodParts, SenseParts
<1> HIDE DEF r, s, b, n, W
<1>3. Shape(t) /\ Alters(s, t, F) /\ t.stream = "Starting"
  BY <1>2 DEF Shape, Alters, Fields
<1> HIDE DEF t
<1>4. Quiet(s, t, F) /\ t.aborted = s.aborted
  BY <1>2, <1>3, QuietFrame DEF Alters, Fields
<1>5. /\ t.up = s.up /\ t.down = s.down /\ t.network = s.network
      /\ t.agg = s.agg /\ t.failed = s.failed /\ t.timer = s.timer
      /\ t.online = s.online /\ t.idle = s.idle /\ t.listen = s.listen
  BY <1>3 DEF Alters, Fields
<1>6. Conn(t, r)
  BY <1>1, <1>2, <1>3, <1>5 DEF Conn, IsStarted
<1>7. Calm(s, t)
  BY <1>3, <1>4, <1>6, CalmClosed
<1>8. Sensible(t, b, n, W)
  BY <1>2, <1>4, <1>7, SensibleQuiet DEF OnDisk
<1> QED
  BY <1>1, <1>8, SameIs, WorkerSense DEF s, b, n, W

LEMMA IdleTimeoutSense == ASSUME IInv, SenseInv, IdleTimeout PROVE SenseInv'
<1> DEFINE s == client
           t == CloseGracefully(s)
           F == {"stream", "idle", "up", "down", "agg", "timer", "failed", "aborted"}
           r == spent'.reused
           b == backend.refuses
           n == Now
           W == Entered
<1>1. Worker(t) /\ SameElsewhere /\ s.idle
  BY DEF IdleTimeout, SameElsewhere
<1>a. Conn(t, r)
  <2>1. client' = t
    BY <1>1 DEF Worker
  <2>2. Conn(client', r)
    BY IdleTimeoutKeeps DEF IInv, Good
  <2> QED
    BY <2>1, <2>2
<1>2. Sensible(s, b, n, W) /\ n \in Nat
  BY SenseParts
<1>3. /\ Shape(s) /\ s.stream = "Open" /\ DOMAIN s.listen = {} /\ IsStarted(s)
  BY <1>1, GoodParts DEF Conn, IsStarted
<1> HIDE DEF s, b, n, W, r
<1>4. Quiet(s, t, F) /\ t.aborted = s.aborted /\ t.stream = "Initial"
  BY <1>3, CloseGracefullyIs
<1> HIDE DEF t
<1>6. Calm(s, t)
  BY <1>4, <1>a, CalmClosed
<1>7. Sensible(t, b, n, W)
  BY <1>2, <1>4, <1>6, SensibleQuiet DEF OnDisk
<1> QED
  BY <1>1, <1>7, SameIs, WorkerSense DEF s, b, n, W

\* Ended with OK: the app goes on only if the stream is not needed.
LEMMA OnStreamFinishOKSense ==
    ASSUME IInv, SenseInv, OnStreamFinishOK, ~client'.aborted PROVE SenseInv'
<1> DEFINE s == client
           needed == ShouldStartWatchStream(Closed(s, "Initial"))
           t == CloseGracefully(s)
           F == {"stream", "idle", "up", "down", "agg", "timer", "failed", "aborted"}
           r == spent.reused
           b == backend.refuses
           n == Now
           W == Entered
<1>1. Shape(s) /\ Sensible(s, b, n, W) /\ n \in Nat
  BY GoodParts, SenseParts
<1>2. SameElsewhere /\ s.stream = "Open" /\ (IF needed THEN client' = [s EXCEPT !.aborted = TRUE]
                                                         ELSE Worker(t))
  BY DEF OnStreamFinishOK, SameElsewhere
<1>3. needed <=> DOMAIN s.listen # {}
  BY NeededIs
<1> HIDE DEF needed
<1>4. ~needed
  <2> SUFFICES ASSUME needed PROVE client'.aborted
    OBVIOUS
  <2>1. client' = [s EXCEPT !.aborted = TRUE]
    BY <1>2
  <2> QED
    BY <1>1, <2>1 DEF Shape, Fields
<1>5. Worker(t) /\ DOMAIN s.listen = {}
  BY <1>2, <1>3, <1>4
<1>6. Conn(t, r)
  BY <1>2, <1>5, ClosedForGood DEF Handled, Good
<1>7. IsStarted(s)
  BY <1>2 DEF IsStarted
<1>8. SameElsewhere
  BY <1>2
<1> HIDE DEF s, b, n, W, r
<1>9. Quiet(s, t, F) /\ t.aborted = s.aborted /\ t.stream = "Initial"
  BY <1>1, <1>5, <1>7, CloseGracefullyIs
<1> HIDE DEF t
<1>10. Calm(s, t)
  BY <1>6, <1>9, CalmClosed
<1>11. Sensible(t, b, n, W)
  BY <1>1, <1>9, <1>10, SensibleQuiet DEF OnDisk
<1> QED
  BY <1>5, <1>8, <1>11, SameIs, WorkerSense DEF s, b, n, W

LEMMA OnlineStateTimeoutSense == ASSUME IInv, SenseInv, OnlineStateTimeout PROVE SenseInv'
<1> DEFINE s == client
           a == [s EXCEPT !.timer = FALSE]
           t == SetAndBroadcast(a, "Offline")
           F == {"timer"}
           b == backend.refuses
           n == Now
           W == Entered
<1>1. SameElsewhere /\ s.timer /\ Worker(SetAndBroadcast(Check(a, s.online = "Unknown"), "Offline"))
  BY DEF OnlineStateTimeout, SameElsewhere
<1>2. Shape(s) /\ s.online = "Unknown" /\ Sensible(s, b, n, W) /\ n \in Nat
  BY <1>1, GoodParts, SenseParts DEF Conn
<1>3. Worker(t)
  BY <1>1, <1>2 DEF Check
<1> HIDE DEF s, b, n, W
<1>4. Shape(a) /\ Alters(s, a, F)
  BY <1>2 DEF Shape, Alters, Fields
<1> HIDE DEF a
<1>5. Quiet(s, a, F) /\ a.aborted = s.aborted
  BY <1>2, <1>4, QuietFrame DEF Alters, Fields
<1>6. Quiet(a, t, {})
  BY <1>4, SetAndBroadcastIs
<1> HIDE DEF t
<1>7. Calm(s, a)
  BY <1>5, CalmQuiet DEF Conversation
<1>8. Calm(a, t)
  <2>1. t.aborted = a.aborted
    BY <1>6 DEF Quiet, Alters, Fields, Broadcast
  <2> QED
    BY <1>6, <2>1, CalmQuiet
<1>9. Sensible(a, b, n, W)
  BY <1>2, <1>5, <1>7, SensibleQuiet DEF OnDisk
<1>10. Sensible(t, b, n, W)
  BY <1>2, <1>6, <1>8, <1>9, SensibleQuiet
<1> QED
  BY <1>1, <1>3, <1>10, SameIs, WorkerSense DEF s, b, n, W

LEMMA OnStreamReadSense == ASSUME IInv, SenseInv, OnStreamRead PROVE SenseInv'
<1> DEFINE s == client
           q == s.down
           u == [s EXCEPT !.down = Tail(@)]
           m == Head(q)
           t == OnWatchStreamChange(u, m)
           r == spent.reused
           b == backend.refuses
           n == Now
           W == Entered
           on == Query \in DOMAIN s.listen
           V == SyncedOf(s)
<1>1. Worker(t) /\ SameElsewhere /\ q # <<>>
  BY DEF OnStreamRead, SameElsewhere
<1>2. /\ Good(s, r) /\ Shape(s) /\ IsSeq(q) /\ Sensible(s, b, n, W) /\ n \in Nat
      /\ b \in BOOLEAN
  BY GoodParts, SenseParts DEF Conn
<1> HIDE DEF r, s, b, n, W
<1>3. Good(u, r) /\ u.stream = "Open" /\ MessageOk(m)
  BY <1>1, <1>2, Dequeued DEF Handled
<1>4. Shape(u) /\ Alters(s, u, {"down"}) /\ u.down = Tail(q)
  BY <1>2 DEF Shape, Alters, Fields
<1> HIDE DEF u, t
<1>5. /\ u.stream = s.stream /\ u.up = s.up /\ u.agg = s.agg /\ u.listen = s.listen
      /\ u.lookups = s.lookups /\ u.enqueued = s.enqueued /\ u.view = s.view
      /\ u.aborted = s.aborted
  BY <1>4 DEF Alters, Fields
<1>6. /\ Texts(s, b, n) /\ Talk(s, b, on, V) /\ Stored(s, n, W) /\ ~s.aborted
  BY <1>2 DEF Sensible, Sense
<1>7. SyncedOf(u) = V /\ (Query \in DOMAIN u.listen) = on
  BY <1>5 DEF SyncedOf
<1> HIDE DEF on, V
<1>8. Range(Tail(q)) \subseteq Range(q) /\ m \in Range(q)
  BY <1>1, <1>2, SeqTail
<1>9. Texts(u, b, n) /\ SaidOk(m, b, n)
  BY <1>4, <1>5, <1>6, <1>8 DEF Texts
<1>10. Hears(u, b, n, on, V, q)
  <2>1. \A x : TargetState(u, x) = TargetState(s, x)
    BY <1>5 DEF TargetState
  <2>2. Typed(u) /\ Owe(u, b, on, q)
    BY <1>5, <1>6, <2>1 DEF Talk, Typed, Owe
  <2>3. Synced(u, b, on, V) /\ LookupNews(u)
    BY <1>5, <1>6, <2>1 DEF Talk, Synced, LookupNews, News1
  <2> QED
    BY <1>1, <1>2, <1>4, <1>9, <2>2, <2>3 DEF Hears
<1>11. Hears(u, b, n, Query \in DOMAIN u.listen, SyncedOf(u), q)
  BY <1>7, <1>10
<1>12. Stored(u, n, W)
  <2>1. SyncedOf(u) = SyncedOf(s)
    BY <1>5 DEF SyncedOf
  <2>2. StoredKept(s, u)
    BY <1>4, <2>1, StoredFrame DEF OnDisk
  <2> QED
    BY <1>2, <1>6, <2>2 DEF StoredKept
<1> HIDE DEF q
<1>13. m = Head(q)
  OBVIOUS
<1> HIDE DEF m
<1>14. Texts(t, b, n) /\ Sense(t, b) /\ t.aborted = u.aborted
  BY <1>2, <1>3, <1>9, <1>11, <1>13, OnWatchStreamChangeSense DEF t
<1>15. Stored(t, n, W)
  BY <1>2, <1>3, <1>9, <1>11, <1>12, <1>13, OnWatchStreamChangeStored DEF t
<1>16. Sensible(t, b, n, W)
  BY <1>5, <1>6, <1>14, <1>15 DEF Sensible
<1> QED
  BY <1>1, <1>16, SameIs, WorkerSense DEF s, b, n, W

LEMMA WriteAcknowledgedSense == ASSUME IInv, SenseInv, WriteAcknowledged PROVE SenseInv'
<1> DEFINE s == client
           v == own.at
           t == AcknowledgeBatch(s, v)
           r == spent.reused
           b == backend.refuses
           n == Now
           W == Entered
<1>1. Worker(t) /\ s.mutation.made /\ UNCHANGED <<board, tasks>>
      /\ own' = [own EXCEPT !.acked = TRUE]
  BY DEF WriteAcknowledged
<1>2. /\ Good(s, r) /\ Sensible(s, b, n, W) /\ n \in Nat /\ v \in 0..n /\ W \subseteq 0..Mine
  BY GoodParts, SenseParts DEF SenseInv, OwnOk
<1> HIDE DEF r, s, v, t, b, n, W
<1>3. Calm(s, t)
  BY <1>2, AcknowledgeBatchCalm DEF t
<1>4. Stored(t, n, W)
  BY <1>1, <1>2, AcknowledgeBatchStored DEF t, Sensible
<1>5. Sensible(t, b, n, W)
  BY <1>2, <1>3, <1>4 DEF Sensible, Calm, TextsKept
<1>6. own'.at = own.at /\ own'.made = own.made /\ Entered' = Entered
  BY <1>1 DEF Entered
<1> QED
  BY <1>1, <1>5, <1>6, WorkerSense DEF s, b, n, W

LEMMA WriteRejectedSense == ASSUME IInv, SenseInv, WriteRejected PROVE SenseInv'
<1> DEFINE s == client
           t == RejectBatch(s)
           r == spent.reused
           b == backend.refuses
           n == Now
           W == Entered
<1>1. Worker(t) /\ UNCHANGED <<board, tasks>> /\ own' = [own EXCEPT !.acked = TRUE]
  BY DEF WriteRejected
<1>2. Good(s, r) /\ Sensible(s, b, n, W) /\ n \in Nat
  BY GoodParts, SenseParts
<1> HIDE DEF r, s, t, b, n, W
<1>3. Calm(s, t)
  BY <1>2, RejectBatchCalm DEF t
<1>4. Stored(t, n, W)
  BY <1>2, RejectBatchStored DEF t, Sensible
<1>5. Sensible(t, b, n, W)
  BY <1>2, <1>3, <1>4 DEF Sensible, Calm, TextsKept
<1>6. own'.at = own.at /\ own'.made = own.made /\ Entered' = Entered
  BY <1>1 DEF Entered
<1> QED
  BY <1>1, <1>5, <1>6, WorkerSense DEF s, b, n, W

\* A later version of the collection, or more that is written, changes nothing of it.
LEMMA SensibleMore ==
    ASSUME NEW s, NEW b, NEW n \in Nat, NEW W, Sensible(s, b, n, W), NEW k \in Nat, n <= k,
           NEW X, W \subseteq X
    PROVE  Sensible(s, b, k, X)
<1>1. 0..n \subseteq 0..k /\ 1..n \subseteq 1..k
  OBVIOUS
<1>2. Remote(n) \subseteq Remote(k)
  BY <1>1 DEF Remote
<1>3. \A m : AskOk(m, n) => AskOk(m, k)
  BY <1>1 DEF AskOk
<1>4. \A m : SaidOk(m, b, n) => SaidOk(m, b, k)
  <2> SUFFICES ASSUME NEW m, SaidOk(m, b, n) PROVE SaidOk(m, b, k)
    OBVIOUS
  <2>1. CASE m \in [type : {"snapshot"}, version : 1..n]
    <3>1. m \in [type : {"snapshot"}, version : 1..k]
      BY <1>1, <2>1
    <3> QED
      BY <3>1 DEF SaidOk
  <2>2. CASE m \notin [type : {"snapshot"}, version : 1..n]
    BY <1>2, <2>2 DEF SaidOk
  <2> QED
    BY <2>1, <2>2
<1>5. Texts(s, b, k)
  BY <1>1, <1>2, <1>3, <1>4 DEF Sensible, Texts
<1>6. Stored(s, k, X)
  BY <1>1 DEF Sensible, Stored
<1> QED
  BY <1>5, <1>6 DEF Sensible

LEMMA MailSense ==
    ASSUME NEW s, Shape(s), NEW mail, NEW b, NEW n \in Nat, NEW W, Sensible(s, b, n, W)
    PROVE  Sensible([s EXCEPT !.mail = mail], b, n, W)
<1> DEFINE t == [s EXCEPT !.mail = mail]
<1>1. Alters(s, t, {"mail"})
  BY DEF Shape, Alters, Fields
<1> HIDE DEF t
<1>2. t.view = s.view /\ t.listen = s.listen /\ t.aborted = s.aborted
  BY <1>1 DEF Alters, Fields
<1>3. Keeps(s, t) /\ SyncedOf(t) = SyncedOf(s)
  BY <1>1, <1>2, KeptFrame DEF Conversation, SyncedOf
<1>4. StoredKept(s, t)
  BY <1>1, <1>3, StoredFrame DEF OnDisk
<1>5. Sense(t, b)
  BY <1>2, <1>3 DEF Sensible, Sense, Keeps, TalkKept
<1> QED
  BY <1>2, <1>3, <1>4, <1>5 DEF Sensible, Keeps, TextsKept, StoredKept, t

LEMMA RunTaskSense == ASSUME IInv, SenseInv, RunTask PROVE SenseInv'
<1> DEFINE s == client
           r == spent.reused
           b == backend.refuses
           n == Now
           W == Entered
           task == Head(tasks)
           c == task.call
           t == client'
<1>1. tasks # <<>> /\ tasks' = Tail(tasks) /\ UNCHANGED <<board, own>>
  BY DEF RunTask
<1>2. PICK k \in Nat : Turn(k)
  BY DEF IInv, OrderInv
<1>3. Ord(s, k, Done) /\ Ready(s) /\ QueueOk(tasks, k, Len(asked), Done) /\ IsSeq(tasks)
  BY <1>2 DEF Turn, QueueOk
<1>4. /\ task.type \in {"listen", "remove", "write"}
      /\ task.type = "remove" => c \in Done
      /\ task.type = "listen" => c = k + 1 /\ k < Len(asked)
  BY <1>1, <1>3, QueueTail
<1>5. /\ Good(s, r) /\ Sensible(s, b, n, W) /\ n \in Nat /\ Len(asked) \in 0..MaxCalls
      /\ MaxCalls \in Nat
  BY GoodParts, SenseParts, BoundsAssumption DEF IInv, CallsInv
<1>6. Range(tasks') \subseteq Range(tasks) /\ task \in Range(tasks)
  BY <1>1, <1>3, SeqTail
<1>7. task.type = "write" => own.made /\ own.data \in W
  BY <1>6 DEF SenseInv, OwnOk, Entered
<1>8. Worker(t)
  BY DEF RunTask, Worker
<1>9. t = CASE task.type = "listen" -> AddQueryListener(s, c)
            [] task.type = "remove" -> RemoveQueryListener(s, c)
            [] task.type = "write" -> WriteLocally(s, own.ad, own.data)
  BY DEF RunTask, Worker
<1> HIDE DEF s, r, b, n, W, task, c, t
<1>10. ASSUME task.type = "listen" PROVE Sensible(t, b, n, W)
  <2>1. t = AddQueryListener(s, c)
    BY <1>9, <1>10
  <2>2. t.aborted = s.aborted
    <3>1. c = k + 1 /\ k < MaxCalls
      BY <1>4, <1>5, <1>10
    <3> QED
      BY <1>3, <1>5, <2>1, <3>1, AddQueryListenerIs
  <2>3. Texts(t, b, n) /\ Sense(t, b)
    <3>1. s.token \in 0..n /\ Texts(s, b, n) /\ Sense(s, b)
      BY <1>5 DEF Sensible, Stored
    <3> QED
      BY <1>5, <2>1, <3>1, AddQueryListenerSense
  <2>4. Stored(t, n, W)
    BY <1>5, <2>1, AddQueryListenerStored DEF StoredKept, Sensible
  <2> QED
    BY <1>5, <2>2, <2>3, <2>4 DEF Sensible
<1>11. ASSUME task.type = "remove" PROVE Sensible(t, b, n, W)
  <2>1. t = RemoveQueryListener(s, c)
    BY <1>9, <1>11
  <2>2. t.aborted = s.aborted
    BY <1>3, <1>4, <1>5, <1>11, <2>1, RemoveQueryListenerIs
  <2>3. Texts(t, b, n) /\ Sense(t, b)
    BY <1>5, <2>1, RemoveQueryListenerCalm DEF Sensible, TextsKept
  <2>4. Stored(t, n, W)
    BY <1>5, <2>1, RemoveQueryListenerStored DEF StoredKept, Sensible
  <2> QED
    BY <1>5, <2>2, <2>3, <2>4 DEF Sensible
<1>12. ASSUME task.type = "write" PROVE Sensible(t, b, n, W)
  <2> DEFINE d == own.ad
             text == own.data
  <2>1. t = WriteLocally(s, d, text) /\ text \in W
    BY <1>7, <1>9, <1>12
  <2> HIDE DEF d, text
  <2>2. Calm(s, t)
    BY <1>5, <2>1, WriteLocallyCalm
  <2>3. Stored(t, n, W)
    BY <1>5, <2>1, WriteLocallyStored DEF Sensible
  <2> QED
    BY <1>5, <2>2, <2>3 DEF Sensible, Calm, TextsKept
<1>13. Sensible(t, b, n, W)
  BY <1>4, <1>10, <1>11, <1>12
<1>14. board' = board /\ own'.at = own.at /\ own'.made = own.made /\ Entered' = Entered
  BY <1>1 DEF Entered
<1> QED
  BY <1>6, <1>8, <1>13, <1>14, WorkerSense DEF s, t, b, n, W

\* What the main thread does leaves the backend alone.
LEMMA MainSense ==
    ASSUME SenseInv, Sensible(client', backend.refuses, Now, Entered'),
           UNCHANGED <<board, backend>>, OwnOk'
    PROVE  SenseInv'
<1> DEFINE n == Now
           b == backend.refuses
           W == Entered
<1>1. n' = n /\ b' = b
  BY DEF Now
<1>2. BoardOk' /\ ServedOk'
  <2>1. BoardOk /\ ServedOk
    BY DEF SenseInv
  <2> QED
    BY <1>1, <2>1 DEF BoardOk, ServedOk
<1>3. Sensible(client', b', n', W')
  <2> HIDE DEF n, b, W
  <2>1. Sensible(client', b, n, W')
    BY DEF n, b, W
  <2> QED
    BY <1>1, <2>1
<1> QED
  BY <1>2, <1>3 DEF SenseInv

LEMMA GetDocumentsSense == ASSUME IInv, SenseInv, GetDocuments PROVE SenseInv'
<1> DEFINE task == [type |-> "listen", call |-> Len(asked) + 1]
<1>1. tasks' = Append(tasks, task) /\ UNCHANGED <<client, board, own, backend>>
  BY DEF GetDocuments
<1>2. IsSeq(tasks)
  BY DEF IInv, OrderInv, Turn, QueueOk
<1>3. task.type # "write"
  OBVIOUS
<1> HIDE DEF task
<1>4. Range(tasks') = Range(tasks) \cup {task}
  BY <1>1, <1>2, SeqAppend
<1>5. OwnOk'
  BY <1>1, <1>3, <1>4 DEF SenseInv, OwnOk, Entered, Now
<1>6. Entered' = Entered
  BY <1>1 DEF Entered
<1> QED
  BY <1>1, <1>5, <1>6, SenseParts, MainSense

LEMMA WriteAdSense == ASSUME IInv, SenseInv, WriteAd PROVE SenseInv'
<1> DEFINE task == [type |-> "write"]
           n == Now
           b == backend.refuses
<1>1. /\ tasks' = Append(tasks, task) /\ UNCHANGED <<client, board, backend>> /\ ~own.made
      /\ \E d \in Ads, text \in {Mine, Gone} :
           own' = [made |-> TRUE, at |-> 0, acked |-> FALSE, ad |-> d, data |-> text]
  BY DEF WriteAd
<1>2. own'.made = TRUE /\ own'.at = 0 /\ own'.data \in 0..Mine
  BY <1>1, BoundsAssumption DEF Mine, Gone
<1>3. Entered = {} /\ Entered' = {own'.data}
  BY <1>1, <1>2 DEF Entered
<1>4. n' = n /\ n \in Nat
  BY <1>1, SenseParts DEF Now
<1>5. OwnOk'
  <2> DEFINE at == own'.at
             W == Entered'
             k == n'
  <2>1. at \in 0..k /\ W \subseteq 0..Mine /\ own'.made = TRUE
    <3> HIDE DEF n
    <3>1. 0 \in 0..n
      BY <1>4
    <3> QED
      BY <1>2, <1>3, <1>4, <3>1
  <2>2. (at \in 0..k /\ own'.made \in BOOLEAN /\ W \subseteq 0..Mine
          /\ \A e \in Range(tasks') : e.type = "write" => own'.made)
    BY <2>1
  <2> QED
    BY <2>2 DEF OwnOk
<1>6. Sensible(client, b, n, Entered')
  <2>1. Sensible(client, b, n, Entered)
    BY SenseParts
  <2> HIDE DEF b, n
  <2> QED
    BY <1>3, <1>4, <2>1, SensibleMore
<1> QED
  BY <1>1, <1>5, <1>6, MainSense

LEMMA OnEventSense == ASSUME IInv, SenseInv, OnEvent PROVE SenseInv'
<1> DEFINE c == Head(client.mail).call
           task == [type |-> "remove", call |-> c]
           mail == Tail(client.mail)
           t == [client EXCEPT !.mail = mail]
           b == backend.refuses
           n == Now
           W == Entered
<1>1. /\ client' = t /\ UNCHANGED <<board, own, backend>>
      /\ tasks' = tasks \/ tasks' = Append(tasks, task)
  BY DEF OnEvent
<1>2. IsSeq(tasks)
  BY DEF IInv, OrderInv, Turn, QueueOk
<1>3. task.type # "write"
  OBVIOUS
<1> HIDE DEF task, mail
<1>4. Range(tasks') \subseteq Range(tasks) \cup {task}
  BY <1>1, <1>2, SeqAppend
<1>5. OwnOk'
  BY <1>1, <1>3, <1>4 DEF SenseInv, OwnOk, Entered, Now
<1>6. Entered' = Entered
  BY <1>1 DEF Entered
<1>7. Sensible(t, b, n, W)
  <2>1. Sensible(client, b, n, W) /\ n \in Nat
    BY SenseParts
  <2> HIDE DEF b, n, W
  <2> QED
    BY <2>1, GoodParts, MailSense
<1> QED
  BY <1>1, <1>5, <1>6, <1>7, MainSense

\* The collection has one more version.
LEMMA ChangedSense ==
    ASSUME SenseInv, NEW d, NEW text \in 0..Mine, board' = Changed(d, text),
           UNCHANGED <<client, backend, tasks>>, own'.at \in {own.at, Now + 1},
           own'.made = own.made, own'.data = own.data
    PROVE  SenseInv'
<1> DEFINE n == Now
           b == backend.refuses
           doc == [at |-> n + 1, data |-> text]
           last == board[n]
           next == [last EXCEPT ![d] = doc]
           W == Entered
<1>1. board' = Append(board, next)
  BY DEF Changed
<1>2. IsSeq(board) /\ n \in Nat \ {0}
  BY DEF SenseInv, BoardOk
<1> HIDE DEF next
<1>3. IsSeq(board') /\ n' = n + 1 /\ board'[n + 1] = next /\ \A v \in 1..n : board'[v] = board[v]
  BY <1>1, <1>2, SeqAppend DEF Now
<1>4. DOMAIN last = Ads /\ \A e \in Ads : last[e] \in Remote(n)
  <2>1. n \in 1..n
    BY <1>2
  <2> QED
    BY <2>1 DEF SenseInv, BoardOk
<1> HIDE DEF last
<1>5. BoardOk /\ W \subseteq 0..Mine
  BY DEF SenseInv, OwnOk
<1> HIDE DEF n
<1> DEFINE k == n + 1
<1>6. k \in Nat \ {0} /\ n <= k /\ Remote(n) \subseteq Remote(k)
  BY <1>2 DEF Remote
<1>7. DOMAIN next = Ads /\ \A e \in Ads : next[e] \in Remote(k)
  <2>1. doc \in Remote(k)
    BY <1>2 DEF Remote
  <2> HIDE DEF doc, k
  <2> QED
    BY <1>4, <1>6, <2>1 DEF next
<1>8. BoardOk'
  <2>1. \A v \in 1..k : v = k \/ v \in 1..n
    BY <1>2
  <2>2. \A v \in 1..k : DOMAIN board'[v] = Ads /\ \A e \in Ads : board'[v][e] \in Remote(k)
    <3> SUFFICES ASSUME NEW v \in 1..k
                 PROVE  DOMAIN board'[v] = Ads /\ \A e \in Ads : board'[v][e] \in Remote(k)
      OBVIOUS
    <3>1. CASE v = k
      BY <1>3, <1>7, <3>1
    <3>2. CASE v \in 1..n
      <4>1. board'[v] = board[v] /\ DOMAIN board[v] = Ads /\ \A e \in Ads : board[v][e] \in Remote(n)
        BY <1>3, <1>5, <3>2 DEF BoardOk, n
      <4> HIDE DEF k
      <4> QED
        BY <1>6, <4>1
    <3> QED
      BY <2>1, <3>1, <3>2
  <2>3. Now' = k
    BY <1>3 DEF n
  <2> HIDE DEF k
  <2> QED
    BY <1>3, <1>6, <2>2, <2>3 DEF BoardOk
<1>9. Now' = k
  BY <1>3 DEF n
<1>10. Entered' = W
  BY DEF Entered
<1>11. OwnOk'
  <2>1. own'.at \in 0..k
    BY <1>2 DEF SenseInv, OwnOk, n
  <2>2. own.made \in BOOLEAN /\ \A task \in Range(tasks) : task.type = "write" => own.made
    BY DEF SenseInv, OwnOk
  <2> HIDE DEF k, W
  <2> QED
    BY <1>5, <1>9, <1>10, <2>1, <2>2 DEF OwnOk
<1>12. ServedOk'
  BY DEF SenseInv, ServedOk
<1>13. Sensible(client, b, k, W)
  <2>1. Sensible(client, b, n, W)
    BY DEF SenseInv, n
  <2> HIDE DEF W, k, b
  <2> QED
    BY <1>2, <1>6, <2>1, SensibleMore
<1> QED
  <2>1. Sensible(client', backend'.refuses, Now', Entered')
    <3>1. client' = client /\ backend'.refuses = b
      OBVIOUS
    <3> HIDE DEF W, k, b
    <3> QED
      BY <1>9, <1>10, <1>13, <3>1
  <2> QED
    BY <1>8, <1>11, <1>12, <2>1 DEF SenseInv

LEMMA OtherWritesSense == ASSUME SenseInv, OtherWrites PROVE SenseInv'
<1>1. PICK d \in Ads, text \in {Now + 1, Gone} : board' = Changed(d, text)
  BY DEF OtherWrites
<1>2. Now < MaxVersion /\ UNCHANGED <<client, backend, tasks, own>> /\ Now \in Nat
  BY SenseParts DEF OtherWrites
<1>3. text \in 0..Mine
  BY <1>2, BoundsAssumption DEF Mine, Gone
<1> QED
  BY <1>1, <1>2, <1>3, ChangedSense

LEMMA CommitOwnSense == ASSUME SenseInv, CommitOwn PROVE SenseInv'
<1> DEFINE d == own.ad
           text == own.data
<1>1. /\ client.mutation.made /\ board' = Changed(d, text)
      /\ own' = [own EXCEPT !.at = Now + 1] /\ UNCHANGED <<client, backend, tasks>>
  BY DEF CommitOwn
<1>2. client.mutation.data \in Entered /\ Entered \subseteq 0..Mine
  BY <1>1 DEF SenseInv, Sensible, Stored, OwnOk
<1>3. text \in 0..Mine
  BY <1>2 DEF Entered
<1>4. own'.at \in {own.at, Now + 1} /\ own'.made = own.made /\ own'.data = own.data
  BY <1>1
<1> HIDE DEF d, text
<1> QED
  BY <1>1, <1>3, <1>4, ChangedSense

\* A message from the phone is read, and answered or not.
LEMMA ServedSense ==
    ASSUME NEW s, NEW r, Good(s, r), NEW b, NEW n \in Nat, NEW W, Sensible(s, b, n, W),
           NEW up, NEW q, IsSeq(up), Range(up) \subseteq Range(s.up), IsSeq(s.up),
           IsSeq(q), \A m \in Range(q) : SaidOk(m, b, n),
           ~b => /\ Due(s.up) = Due(up) + Due(q)
                 /\ Settled(s.up) => Settled(up)
                 /\ Settled(s.up) /\ (Settled(s.down) \/ AsksOn(s.up))
                       => Settled(Joined(s.down, q)) \/ AsksOn(up)
    PROVE  Sensible(Exchange(s, up, Joined(s.down, q)), b, n, W)
<1> DEFINE down == Joined(s.down, q)
           t == Exchange(s, up, down)
<1>1. Shape(s) /\ IsSeq(s.down)
  BY DEF Good, Conn
<1>2. Texts(t, b, n) /\ Sense(t, b)
  BY <1>1, ExchangedSense DEF Sensible
<1> HIDE DEF down
<1>3. Alters(s, t, {"up", "down"})
  BY <1>1, ExchangeIs
<1> HIDE DEF t
<1>4. t.view = s.view /\ t.aborted = s.aborted
  BY <1>3 DEF Alters, Fields
<1>5. SyncedOf(t) = SyncedOf(s)
  BY <1>4 DEF SyncedOf
<1>6. StoredKept(s, t)
  BY <1>3, <1>5, StoredFrame DEF OnDisk
<1> QED
  BY <1>2, <1>4, <1>6 DEF Sensible, StoredKept, t, down

LEMMA ServeAnswers ==
    ASSUME BoardOk, NEW m, AskOk(m, Now),
           NEW reply \in IF m.type = "watch" THEN WatchAnswers(m) ELSE {Say("removed", m.target)}
    PROVE  Answers(reply, m, backend.refuses, Now)
<1>1. CASE m.type = "watch"
  BY <1>1, WatchAnswersSay
<1>2. CASE m.type # "watch"
  <2> DEFINE x == m.target
             b == backend.refuses
             n == Now
             q == Say("removed", x)
  <2>1. m.type = "unwatch" /\ x \in Nat
    BY <1>2 DEF AskOk
  <2>2. (Gives(m) <=> x = Query) /\ ~Wants(m)
    BY <2>1 DEF Gives, Wants
  <2>3. reply = q
    BY <1>2
  <2> HIDE DEF x, b, n
  <2>4. Answers(q, m, b, n)
    BY <2>1, <2>2, SayIs
  <2> QED
    BY <2>3, <2>4 DEF b, n
<1> QED
  BY <1>1, <1>2

\* A step of the backend on the open stream.
LEMMA BackendSense ==
    ASSUME SenseInv, UNCHANGED <<tasks, board, own>>, ServedOk',
           backend'.refuses = backend.refuses,
           Sensible(client', backend.refuses, Now, Entered)
    PROVE  SenseInv'
<1>1. Now' = Now /\ Entered' = Entered
  BY DEF Now, Entered
<1>2. BoardOk' /\ OwnOk'
  <2>1. BoardOk /\ OwnOk
    BY DEF SenseInv
  <2> QED
    BY <1>1, <2>1 DEF BoardOk, OwnOk
<1> DEFINE n == Now
           W == Entered
           b == backend.refuses
<1>3. Sensible(client', b', n', W')
  <2>1. Sensible(client', b, n, W) /\ b' = b /\ n' = n /\ W' = W
    BY <1>1
  <2> HIDE DEF b, n, W
  <2> QED
    BY <2>1
<1> QED
  BY <1>2, <1>3 DEF SenseInv

LEMMA ServeSense == ASSUME IInv, SenseInv, Serve PROVE SenseInv'
<1> DEFINE s == client
           m == Head(s.up)
           up == Tail(s.up)
           r == spent.reused
           b == backend.refuses
           n == Now
           W == Entered
           old == backend.served
           no == Say("rejected", m.target)
<1>1. PICK reply \in IF m.type = "watch" THEN WatchAnswers(m) ELSE {Say("removed", m.target)} :
         /\ client' = [client EXCEPT !.up = Tail(@), !.down = @ \o reply]
         /\ backend' = IF m.type = "watch" /\ reply # no
                       THEN [backend EXCEPT !.due = TRUE,
                               !.served = Put(@, m.target, [ad |-> m.ad, at |-> Now])]
                       ELSE [backend EXCEPT !.served = Drop(@, m.target)]
  BY DEF Serve
<1>2. s.up # <<>> /\ UNCHANGED <<tasks, board, own>>
  BY DEF Serve
<1>3. Good(s, r) /\ Shape(s) /\ s.stream = "Open" /\ IsSeq(s.up) /\ IsSeq(s.down)
  BY <1>2, GoodParts DEF Conn
<1>4. Sensible(s, b, n, W) /\ n \in Nat /\ BoardOk /\ ServedOk
  BY SenseParts DEF SenseInv
<1>5. /\ IsSeq(up) /\ Range(up) \subseteq Range(s.up) /\ m \in Range(s.up)
      /\ Due(s.up) = (IF Owes(m) THEN 1 ELSE 0) + Due(up)
      /\ AsksOn(s.up) <=> Wants(m) \/ AsksOn(up)
      /\ Settled(s.up) <=> Settled(up) /\ (~Gives(m) \/ AsksOn(up))
  <2> DEFINE q == s.up
  <2>1. IsSeq(q) /\ q # <<>>
    BY <1>2, <1>3
  <2> HIDE DEF q
  <2>2. /\ IsSeq(Tail(q)) /\ Range(Tail(q)) \subseteq Range(q) /\ Head(q) \in Range(q)
        /\ Due(q) = (IF Owes(Head(q)) THEN 1 ELSE 0) + Due(Tail(q))
        /\ AsksOn(q) <=> Wants(Head(q)) \/ AsksOn(Tail(q))
        /\ Settled(q) <=> Settled(Tail(q)) /\ (~Gives(Head(q)) \/ AsksOn(Tail(q)))
    BY <2>1, SeqTail, TailSays
  <2> QED
    BY <2>2 DEF q
<1>6. AskOk(m, n)
  BY <1>4, <1>5 DEF Sensible, Texts
<1> HIDE DEF m, up
<1>7. Answers(reply, m, b, n)
  BY <1>1, <1>4, <1>6, ServeAnswers
<1>8. Sensible(client', b, n, W)
  <2> DEFINE told == s.down
             down == Joined(told, reply)
             t == Exchange(s, up, down)
  <2>1. client' = t
    BY <1>1, <1>3 DEF Shape, Fields, Exchange, Joined, up
  <2>2. Settled(down) <=> Settled(reply) /\ (Settled(told) \/ AsksOn(reply))
    <3>1. IsSeq(told) /\ IsSeq(reply)
      BY <1>3, <1>7 DEF Answers
    <3> HIDE DEF told
    <3> QED
      BY <3>1, SenseJoined
  <2>3. Due(up) \in Nat
    BY <1>5, NothingDue
  <2> HIDE DEF b, n, W, r, down
  <2>4. ~b => /\ Due(s.up) = Due(up) + Due(reply)
              /\ Settled(s.up) => Settled(up)
              /\ Settled(s.up) /\ (Settled(told) \/ AsksOn(s.up))
                    => Settled(down) \/ AsksOn(up)
    BY <1>5, <1>7, <2>2, <2>3 DEF Answers
  <2>5. IsSeq(reply) /\ \A x \in Range(reply) : SaidOk(x, b, n)
    BY <1>7 DEF Answers
  <2> HIDE DEF s, t
  <2>6. Sensible(t, b, n, W)
    BY <1>3, <1>4, <1>5, <2>4, <2>5, ServedSense DEF down, t
  <2> QED
    BY <2>1, <2>6
<1>9. backend'.refuses = b
  BY <1>1 DEF IInv, BackendInv
<1>10. ServedOk'
  <2> DEFINE x == m.target
             ad == m.ad
             new == [ad |-> ad, at |-> n]
             all == backend'.served
  <2>1. b => m.type # "watch" \/ reply = no
    BY <1>1 DEF WatchAnswers
  <2>2. m.type = "watch" => Names(x, ad)
    BY <1>6 DEF AskOk
  <2>3. /\ m.type = "watch" /\ reply # no => all = Put(old, x, new)
        /\ ~(m.type = "watch" /\ reply # no) => all = Drop(old, x)
    BY <1>1 DEF IInv, BackendInv
  <2>4. new.ad = ad
    OBVIOUS
  <2>5. /\ b => DOMAIN old = {}
        /\ \A y \in DOMAIN old : Names(y, old[y].ad)
    BY <1>4 DEF ServedOk
  <2> HIDE DEF all, old, new, x, ad, no
  <2>6. CASE m.type = "watch" /\ reply # no
    <3>1. ~b /\ all = Put(old, x, new) /\ Names(x, ad)
      BY <2>1, <2>2, <2>3, <2>6
    <3>2. \A y \in DOMAIN all : (y = x /\ all[y] = new) \/ (y \in DOMAIN old /\ all[y] = old[y])
      BY <3>1 DEF Put
    <3>3. \A y \in DOMAIN all : Names(y, all[y].ad)
      BY <2>4, <2>5, <3>1, <3>2
    <3> QED
      BY <1>4, <1>9, <3>1, <3>3 DEF ServedOk, all
  <2>7. CASE ~(m.type = "watch" /\ reply # no)
    <3>1. all = Drop(old, x)
      BY <2>3, <2>7
    <3>2. \A y \in DOMAIN all : y \in DOMAIN old /\ all[y] = old[y]
      BY <3>1 DEF Drop
    <3>3. (b => DOMAIN all = {}) /\ \A y \in DOMAIN all : Names(y, all[y].ad)
      BY <2>5, <3>2
    <3> QED
      BY <1>4, <1>9, <3>3 DEF ServedOk, all
  <2> QED
    BY <2>6, <2>7
<1> QED
  BY <1>2, <1>8, <1>9, <1>10, BackendSense

LEMMA PushSense == ASSUME IInv, SenseInv, Push PROVE SenseInv'
<1> DEFINE s == client
           r == spent.reused
           b == backend.refuses
           n == Now
           W == Entered
           old == s.down
           up == s.up
           news == AllNews(Late)
           last == [type |-> "snapshot", version |-> n]
           end == <<last>>
           q == Joined(news, end)
           t == Exchange(s, up, Joined(old, q))
           served == backend.served
           next == [x \in DOMAIN served |-> [served[x] EXCEPT !.at = Now]]
<1>1. /\ client' = [client EXCEPT !.down = (@ \o news) \o end]
      /\ backend' = [backend EXCEPT !.due = FALSE, !.served = next]
      /\ DOMAIN served # {} /\ UNCHANGED <<tasks, board, own>>
  BY DEF Push, PushDue
<1>2. Good(s, r) /\ Shape(s) /\ IsSeq(up) /\ IsSeq(old)
  <2>1. s.stream = "Open"
    BY <1>1 DEF IInv, BackendInv
  <2> QED
    BY <2>1, GoodParts DEF Conn
<1>3. Sensible(s, b, n, W) /\ n \in Nat \ {0} /\ BoardOk /\ ServedOk
  BY SenseParts DEF SenseInv
<1>4. ~b /\ b \in BOOLEAN
  BY <1>1, <1>3 DEF ServedOk
<1>5. Aside(news, b, n)
  <2> DEFINE S == Late
  <2>1. S \subseteq DOMAIN served
    BY DEF Late
  <2>2. IsFiniteSet(S)
    BY <2>1, FS_Subset DEF IInv, BackendInv
  <2>3. \A x \in S : Names(x, backend.served[x].ad)
    BY <1>3, <2>1 DEF ServedOk
  <2> HIDE DEF S, b
  <2>4. Aside(AllNews(S), b, Now)
    BY <1>3, <1>4, <2>2, <2>3, AllNewsAside
  <2> QED
    BY <2>4 DEF S
<1>6. Aside(end, b, n)
  <2>1. last.version \in 1..n /\ last \in [type : {"snapshot"}, version : 1..n]
    BY <1>3
  <2>2. ~Owes(last)
    BY DEF Owes, Wants, Gives
  <2> HIDE DEF last
  <2>3. SaidOk(last, b, n)
    BY <2>1 DEF SaidOk
  <2> QED
    BY <2>2, <2>3, AsideOne
<1> HIDE DEF news, end
<1>7. Aside(q, b, n)
  BY <1>5, <1>6, AsideJoined DEF Joined
<1>8. client' = t
  <2>1. (old \o news) \o end = old \o (news \o end)
    <3>1. IsSeq(news) /\ IsSeq(end)
      BY <1>5, <1>6 DEF Aside
    <3> DEFINE S == (Range(old) \cup Range(news)) \cup Range(end)
    <3>2. old \in Seq(S) /\ news \in Seq(S) /\ end \in Seq(S)
      <4>1. Range(old) \subseteq S /\ Range(news) \subseteq S /\ Range(end) \subseteq S
        OBVIOUS
      <4>2. old \in Seq(Range(old)) /\ news \in Seq(Range(news)) /\ end \in Seq(Range(end))
        BY <1>2, <3>1, SeqFacts
      <4> HIDE DEF S
      <4> QED
        BY <4>1, <4>2, SeqMonotonic
    <3> HIDE DEF S, old
    <3> QED
      BY <3>2, ConcatAssociative
  <2>2. client' = [client EXCEPT !.down = old \o (news \o end)]
    BY <1>1, <2>1
  <2>3. client' = [client EXCEPT !.down = Joined(old, q)]
    BY <2>2 DEF Joined
  <2> HIDE DEF q
  <2> QED
    BY <1>2, <2>3 DEF Shape, Fields, Exchange
<1>9. Sensible(t, b, n, W)
  <2>1. IsSeq(q) /\ \A m \in Range(q) : SaidOk(m, b, n)
    BY <1>7 DEF Aside
  <2>2. Due(q) = 0 /\ ~AsksOn(q) /\ Settled(q)
    BY <1>7, AsideMutes
  <2> HIDE DEF q
  <2>3. Settled(Joined(old, q)) <=> Settled(q) /\ (Settled(old) \/ AsksOn(q))
    <3> HIDE DEF old
    <3> QED
      BY <1>2, <2>1, SenseJoined
  <2>4. Due(up) \in Nat
    BY <1>2, NothingDue
  <2> HIDE DEF s, b, n, W, r
  <2>5. Range(up) \subseteq Range(s.up)
    OBVIOUS
  <2>6. ~b => /\ Due(s.up) = Due(up) + Due(q)
              /\ Settled(s.up) => Settled(up)
              /\ Settled(s.up) /\ (Settled(old) \/ AsksOn(s.up))
                    => Settled(Joined(old, q)) \/ AsksOn(up)
    BY <2>2, <2>3, <2>4
  <2> QED
    BY <1>2, <1>3, <2>1, <2>5, <2>6, ServedSense
<1>10. backend'.refuses = b
  BY <1>1 DEF IInv, BackendInv
<1>11. ServedOk'
  <2> DEFINE all == backend'.served
  <2>1. all = next
    BY <1>1 DEF IInv, BackendInv
  <2>2. DOMAIN next = DOMAIN served /\ \A x \in DOMAIN served : next[x].ad = served[x].ad
    OBVIOUS
  <2>3. \A x \in DOMAIN served : Names(x, served[x].ad)
    BY <1>3 DEF ServedOk
  <2> HIDE DEF next, served, all
  <2>4. \A x \in DOMAIN all : Names(x, all[x].ad)
    BY <2>1, <2>2, <2>3
  <2> QED
    BY <1>4, <1>10, <2>4 DEF ServedOk, all
<1> HIDE DEF t
<1>12. Sensible(client', b, n, W)
  BY <1>8, <1>9
<1> QED
  BY <1>1, <1>10, <1>11, <1>12, BackendSense

-----------------------------------------------------------------------------

LEMMA InitSense == ASSUME Init PROVE SenseInv
<1> DEFINE s == client
           b == backend.refuses
           none == {}
<1>1. Shape(s) /\ Idle(s)
  BY InitIdle
<1>2. /\ tasks = <<>> /\ own = NoWrite
      /\ \E present \in SUBSET Ads :
           board = <<[d \in Ads |-> IF d \in present THEN [at |-> 1, data |-> 1]
                                                     ELSE [at |-> 0, data |-> Gone]]>>
      /\ \E refuses \in BOOLEAN :
           backend = [served |-> NoStates, due |-> FALSE, refuses |-> refuses]
  BY DEF Init
<1>3. Now = 1 /\ IsSeq(board) /\ DOMAIN board[1] = Ads /\ \A d \in Ads : board[1][d] \in Remote(1)
  <2>1. PICK present \in SUBSET Ads :
          board = <<[d \in Ads |-> IF d \in present THEN [at |-> 1, data |-> 1]
                                                    ELSE [at |-> 0, data |-> Gone]]>>
    BY <1>2
  <2> DEFINE first == [d \in Ads |-> IF d \in present THEN [at |-> 1, data |-> 1]
                                                      ELSE [at |-> 0, data |-> Gone]]
  <2>2. \A d \in Ads : first[d] \in Remote(1)
    BY BoundsAssumption DEF Remote, Gone, Mine
  <2>3. DOMAIN first = Ads
    OBVIOUS
  <2>4. board = <<first>>
    BY <2>1
  <2> HIDE DEF first
  <2>5. IsSeq(board) /\ Len(board) = 1 /\ board[1] = first
    BY <2>4, SeqOne
  <2> QED
    BY <2>2, <2>3, <2>5 DEF Now
<1>4. BoardOk
  <2>1. \A v \in 1..1 : v = 1
    OBVIOUS
  <2> QED
    BY <1>3, <2>1 DEF BoardOk
<1>5. ServedOk
  BY <1>2, NoStatesIs DEF ServedOk
<1>6. Entered = {} /\ OwnOk
  BY <1>2, <1>3, EmptyRange DEF OwnOk, Entered, NoWrite
<1>7. Texts(s, b, 1)
  BY <1>1, EmptyRange, NoStatesIs DEF Texts, Idle, NewAggregator
<1>8. Sense(s, b)
  <2> DEFINE on == Query \in DOMAIN s.listen
             V == SyncedOf(s)
  <2>1. ~on
    BY <1>1, NoStatesIs DEF Idle
  <2>2. DOMAIN s.agg.states = {} /\ DOMAIN s.lookups = {} /\ s.stream # "Open"
    BY <1>1, NoStatesIs DEF Idle, NewAggregator
  <2> HIDE DEF on, V
  <2>3. Talk(s, b, on, V)
    BY <2>1, <2>2 DEF Talk, Typed, Owe, Synced, LookupNews
  <2> QED
    BY <2>3 DEF Sense, on, V
<1>9. Stored(s, 1, {}) /\ ~s.aborted
  <2> DEFINE n == NewClient
             cache == [d \in Ads |-> [at |-> board[1][d].at, data |-> board[1][d].data,
                                      committed |-> FALSE]]
             keys == {d \in Ads : board[1][d].data # Gone}
             old == [n EXCEPT !.cache = cache, !.remoteKeys = keys, !.token = 1, !.lastRemote = 1]
             empty == [d \in Ads |-> NotCached]
  <2>1. /\ n.token = 0 /\ n.lastRemote = 0 /\ n.remoteKeys = {} /\ n.cache = empty
        /\ n.mutation.made = FALSE /\ n.aborted = FALSE /\ n.view = NoView /\ Shape(n)
    <3>1. Shape(n)
      BY DEF NewClient, Shape, Fields, NewAggregator
    <3>2. n.token = 0 /\ n.lastRemote = 0 /\ n.remoteKeys = {} /\ n.aborted = FALSE /\ n.view = NoView
      BY DEF NewClient
    <3>3. n.mutation = NoMutation /\ NoMutation.made = FALSE
      BY DEF NewClient, NoMutation
    <3>4. n.cache = empty
      BY DEF NewClient
    <3> HIDE DEF empty
    <3> QED
      BY <3>1, <3>2, <3>3, <3>4
  <2>2. /\ DOMAIN empty = Ads
        /\ \A d \in Ads : empty[d].at \in 0..1 /\ empty[d].data \in 0..Mine
    BY BoundsAssumption DEF NotCached, Gone, Mine
  <2>3. DOMAIN cache = Ads /\ \A d \in Ads : cache[d].at \in 0..1 /\ cache[d].data \in 0..Mine
    BY <1>3 DEF Remote
  <2>4. keys \subseteq Ads
    OBVIOUS
  <2>5. s = n \/ s = old
    BY DEF Init, Relaunched
  <2> HIDE DEF n, cache, keys, empty
  <2>6. /\ old.token = 1 /\ old.lastRemote = 1 /\ old.remoteKeys = keys /\ old.cache = cache
        /\ old.mutation.made = FALSE /\ old.aborted = FALSE /\ old.view = NoView
    BY <2>1 DEF Shape, Fields
  <2> HIDE DEF old
  <2>7. Stored(n, 1, {})
    BY <2>1, <2>2 DEF Stored, SyncedOf
  <2>8. Stored(old, 1, {})
    BY <2>3, <2>4, <2>6 DEF Stored, SyncedOf
  <2> QED
    BY <2>1, <2>5, <2>6, <2>7, <2>8
<1>10. Sensible(client, backend.refuses, Now, Entered)
  BY <1>3, <1>6, <1>7, <1>8, <1>9 DEF Sensible
<1> QED
  BY <1>4, <1>5, <1>6, <1>10 DEF SenseInv

LEMMA StepSense == ASSUME IInv, SenseInv, [Next]_vars, ~client'.aborted PROVE SenseInv'
<1>1. CASE Next
  <2>1. CASE GetDocuments
    BY <2>1, GetDocumentsSense
  <2>2. CASE OnEvent
    BY <2>2, OnEventSense
  <2>3. CASE WriteAd
    BY <2>3, WriteAdSense
  <2>4. CASE RunTask
    BY <2>4, RunTaskSense
  <2>5. CASE ResumeStartWithCredentials
    BY <2>5, ResumeStartSense
  <2>6. CASE OnStreamFinish
    BY <2>6, OnStreamFinishSense
  <2>7. CASE OnStreamFinishOK
    BY <2>7, OnStreamFinishOKSense
  <2>8. CASE BackoffElapsed
    BY <2>8, BackoffElapsedSense
  <2>9. CASE IdleTimeout
    BY <2>9, IdleTimeoutSense
  <2>10. CASE OnlineStateTimeout
    BY <2>10, OnlineStateTimeoutSense
  <2>11. CASE NetworkChange
    BY <2>11, NetworkChangeSense
  <2>12. CASE OnStreamRead
    BY <2>12, OnStreamReadSense
  <2>13. CASE WriteAcknowledged
    BY <2>13, WriteAcknowledgedSense
  <2>14. CASE WriteRejected
    BY <2>14, WriteRejectedSense
  <2>15. CASE OtherWrites
    BY <2>15, OtherWritesSense
  <2>16. CASE CommitOwn
    BY <2>16, CommitOwnSense
  <2>17. CASE Serve
    BY <2>17, ServeSense
  <2>18. CASE Push
    BY <2>18, PushSense
  <2> QED
    BY <1>1, <2>1, <2>2, <2>3, <2>4, <2>5, <2>6, <2>7, <2>8, <2>9, <2>10, <2>11, <2>12, <2>13,
       <2>14, <2>15, <2>16, <2>17, <2>18 DEF Next
<1>2. CASE UNCHANGED vars
  BY <1>2 DEF vars, SenseInv, BoardOk, ServedOk, OwnOk, Entered, Now
<1> QED
  BY <1>1, <1>2

LEMMA SenseType == ASSUME IInv, SenseInv PROVE TypeOK
<1> DEFINE s == client
           r == spent.reused
           b == backend.refuses
           n == Now
           W == Entered
<1>1. /\ Conn(s, r) /\ Look(s) /\ Texts(s, b, n) /\ Sense(s, b) /\ Stored(s, n, W)
      /\ n \in Nat
  BY GoodParts, SenseParts DEF Sensible
<1>2. PICK k \in Nat : Ord(s, k, Done)
  BY DEF IInv, OrderInv, Turn
<1>3. Remote(n) = Doc
  BY DEF Remote, Doc
<1>4. \A i \in DOMAIN s.down : s.down[i].type = "docs" \/ s.down[i] \in Message
  <2> SUFFICES ASSUME NEW i \in DOMAIN s.down
               PROVE  s.down[i].type = "docs" \/ s.down[i] \in Message
    OBVIOUS
  <2> DEFINE m == s.down[i]
  <2>1. m \in Range(s.down)
    BY DEF Range
  <2> HIDE DEF m, b
  <2>2. SaidOk(m, b, n)
    BY <1>1, <2>1 DEF Texts
  <2>3. m.type = "docs" \/ m \in Message
    BY <2>2 DEF SaidOk, Message, Query
  <2> QED
    BY <2>3 DEF m
<1>5. \A x \in DOMAIN s.agg.states : s.agg.states[x].pending \in Int
  BY <1>1 DEF Sense, Talk, Typed, States
<1>6. /\ \A x \in DOMAIN s.listen : /\ s.listen[x].ad \in Ads \cup {"all"}
                                    /\ s.listen[x].token \in 0..n
      /\ \A x \in DOMAIN s.lookups : s.lookups[x].ad \in Ads
      /\ \A d \in DOMAIN s.agg.docs : s.agg.docs[d] \in Doc
  <2> HIDE DEF s, b, n
  <2> QED
    BY <1>1, <1>3 DEF Texts, Names
<1>7. /\ \A d \in Ads : [at |-> s.cache[d].at, data |-> s.cache[d].data] \in Doc
      /\ s.token \in 0..n /\ s.lastRemote \in 0..n /\ s.remoteKeys \subseteq Ads
  BY <1>1 DEF Stored, Doc
<1>8. s.view = NoView \/ (s.view.limbo \subseteq Ads /\ s.view.synced \subseteq Ads)
  BY <1>1 DEF Look, Stored, SyncedOf
<1>9. Range(s.listeners) \cup s.raised \subseteq Calls
  <2>1. k <= MaxCalls /\ MaxCalls \in Nat
    BY <1>2, BoundsAssumption DEF Ord
  <2>2. 1..k \subseteq Calls
    BY <2>1 DEF Calls
  <2> QED
    BY <1>2, <2>2 DEF Ord
<1>10. \A c \in Calls : answer[c].kind \in {"waiting", "error", "server", "cache"}
  BY DEF IInv, CallsInv
<1>11. /\ s.stream \in {"Initial", "Starting", "Open", "Error", "Backoff"}
       /\ s.online \in {"Unknown", "Online", "Offline"}
       /\ {s.network, s.idle, s.failed, s.timer} \subseteq BOOLEAN
  BY <1>1 DEF Conn
<1> HIDE DEF r, b, W
<1> QED
  BY <1>4, <1>5, <1>6, <1>7, <1>8, <1>9, <1>10, <1>11 DEF TypeOK

\* The app has ended: the backend did end with OK a stream that was needed.
Stopped == client.aborted /\ spent.stopped /\ TypeOK

\* Only a stream ended with OK ends the app: in every other step no assertion fails.
LEMMA StopsOnly ==
    ASSUME IInv, SenseInv, Next, client'.aborted
    PROVE  OnStreamFinishOK
<1>1. \/ GetDocuments \/ OnEvent \/ WriteAd
      \/ RunTask \/ ResumeStartWithCredentials \/ OnStreamFinish \/ OnStreamFinishOK
      \/ BackoffElapsed \/ IdleTimeout \/ OnlineStateTimeout \/ NetworkChange
      \/ OnStreamRead \/ WriteAcknowledged \/ WriteRejected
      \/ OtherWrites \/ CommitOwn \/ Serve \/ Push
  BY DEF Next
<1>2. ~SenseInv'
  BY DEF SenseInv, Sensible
<1> QED
  BY <1>1, <1>2, GetDocumentsSense, OnEventSense, WriteAdSense, RunTaskSense, ResumeStartSense,
     OnStreamFinishSense, BackoffElapsedSense, IdleTimeoutSense, OnlineStateTimeoutSense,
     NetworkChangeSense, OnStreamReadSense, WriteAcknowledgedSense, WriteRejectedSense,
     OtherWritesSense, CommitOwnSense, ServeSense, PushSense

LEMMA StopsThere == ASSUME IInv, SenseInv, OnStreamFinishOK, client'.aborted PROVE Stopped'
<1> DEFINE s == client
           needed == ShouldStartWatchStream(Closed(s, "Initial"))
           t == CloseGracefully(s)
<1>1. Shape(s) /\ ~s.aborted /\ SpentInv /\ s.stream = "Open"
  BY GoodParts DEF SenseInv, Sensible, OnStreamFinishOK
<1>2. /\ IF needed THEN client' = [s EXCEPT !.aborted = TRUE] ELSE Worker(t)
      /\ spent' = [spent EXCEPT !.faults = @ + 1, !.stopped = needed]
      /\ UNCHANGED <<board, answer>>
  BY DEF OnStreamFinishOK
<1>3. needed <=> DOMAIN s.listen # {}
  BY NeededIs
<1>4. t.aborted = s.aborted \/ DOMAIN s.listen # {}
  <2>1. IsStarted(s)
    BY <1>1 DEF IsStarted
  <2> QED
    BY <1>1, <2>1, GoodParts, CloseGracefullyIs
<1> HIDE DEF needed, t
<1>5. needed
  <2> SUFFICES ASSUME ~needed PROVE FALSE
    OBVIOUS
  <2>1. client' = t
    BY <1>2 DEF Worker
  <2> QED
    BY <1>1, <1>3, <1>4, <2>1
<1>6. spent'.stopped
  BY <1>1, <1>2, <1>5, SpentStop
<1>7. client' = [s EXCEPT !.aborted = TRUE]
  BY <1>2, <1>5
<1>8. /\ client'.stream = s.stream /\ client'.online = s.online /\ client'.network = s.network
      /\ client'.idle = s.idle /\ client'.failed = s.failed /\ client'.timer = s.timer
      /\ client'.listen = s.listen /\ client'.lookups = s.lookups /\ client'.agg = s.agg
      /\ client'.cache = s.cache /\ client'.token = s.token
      /\ client'.lastRemote = s.lastRemote /\ client'.remoteKeys = s.remoteKeys
      /\ client'.view = s.view /\ client'.down = s.down /\ client'.listeners = s.listeners
      /\ client'.raised = s.raised
  BY <1>1, <1>7 DEF Shape, Fields
<1>9. TypeOK
  BY SenseType
<1>10. Doc' = Doc /\ Message' = Message /\ Now' = Now /\ answer' = answer
  BY <1>2 DEF Doc, Message, Now
<1>11. TypeOK'
  BY <1>8, <1>9, <1>10 DEF TypeOK
<1> QED
  BY <1>6, <1>11 DEF Stopped

\* The invariant of the conversation, together with that of the client: on both queues of
\* the stream at once, the aggregator has counted the answers to come (Owe), the last word
\* about the query is what the phone wants, and whatever was said is well formed. It holds
\* until the backend ends with OK a stream that is needed, and the app with it.
THEOREM ConversationInvariant == Spec => [](IInv /\ (SenseInv \/ Stopped))
<1> DEFINE Inv == IInv /\ (SenseInv \/ Stopped)
<1>1. Init => Inv
  BY InitIInv, InitSense
<1>2. Inv /\ [Next]_vars => Inv'
  <2> SUFFICES ASSUME Inv, [Next]_vars PROVE Inv'
    OBVIOUS
  <2>1. IInv'
    BY StepIInv
  <2>2. CASE SenseInv /\ ~client'.aborted
    BY <2>1, <2>2, StepSense
  <2>3. CASE SenseInv /\ client'.aborted
    <3>1. ~client.aborted
      BY <2>3 DEF SenseInv, Sensible
    <3>2. Next
      BY <2>3, <3>1 DEF vars
    <3> QED
      BY <2>1, <2>3, <3>2, StopsOnly, StopsThere
  <2>4. CASE Stopped
    <3>1. UNCHANGED vars
      BY <2>4 DEF Stopped, Next
    <3>2. TypeOK'
      BY <2>4, <3>1 DEF Stopped, TypeOK, Doc, Message, Now, vars
    <3> QED
      BY <2>1, <2>4, <3>1, <3>2 DEF Stopped, vars
  <2> QED
    BY <2>2, <2>3, <2>4
<1> QED
  BY <1>1, <1>2, PTL DEF Spec

\* No HARD_ASSERT of the client fails (watch_change.cc, remote_store.cc, sync_engine.cc,
\* local_store.cc, online_state_tracker.cc), whatever the order of calls, answers, writes
\* and faults, but for that of a stream the backend ends with OK while it is needed
\* (remote_store.cc:236): each answer finds a request that is counted, a change or a reset
\* is never of a target that is given up, a lookup has no news before it has its document,
\* and what is on disk is never ahead of the collection.
THEOREM AssertionsHold == Spec => []NoHardAssertFails
<1>1. IInv /\ (SenseInv \/ Stopped) => NoHardAssertFails
  BY DEF SenseInv, Sensible, Stopped, NoHardAssertFails
<1> QED
  BY <1>1, ConversationInvariant, PTL

\* The client keeps its shape: what is under way on the stream, in the aggregator and on
\* disk is of versions the collection has had, targets and lookups name ads that exist,
\* and only calls that were made are listened for.
THEOREM TypeCorrect == Spec => []TypeOK
<1>1. IInv /\ (SenseInv \/ Stopped) => TypeOK
  BY SenseType DEF Stopped
<1> QED
  BY <1>1, ConversationInvariant, PTL
=============================================================================

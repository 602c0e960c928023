------------------------- MODULE ListaOfertasProofs -------------------------
(***************************************************************************)
(* Proof that the rows of a list, its table view and the cell the user looks *)
(* at agree whenever no reload waits on the main queue, for any finite set   *)
(* of ads, any number of overlapping queries, with and without failures.     *)
(***************************************************************************)
EXTENDS ListaOfertas, FiniteSetTheorems, TLAPS

\* The part of the type invariant the argument needs.
Typed == /\ docs \subseteq Ads /\ cache \subseteq Ads
         /\ answers \in Seq(SUBSET Ads)
         /\ reloads \in Nat
         /\ Len(ofertas) \in Nat

\* With no reload waiting, the table believes in the rows of the controller and the
\* cell shows one of them.
Agree == reloads = 0 =>
            /\ shown = Len(ofertas)
            /\ cell # NoCell => /\ cell.row \in 1..Len(ofertas)
                                /\ cell.ad = ofertas[cell.row]

GapInv == Typed /\ Agree

\* An ad is the i-th of S when i ads of S come up to it: every place is taken, and every
\* ad has one.
Rank(S, k) == Cardinality({j \in S : j <= k})

LEMMA RankBijective ==
  ASSUME NEW S \in SUBSET Ads
  PROVE  /\ IsFiniteSet(S) /\ Cardinality(S) \in Nat
         /\ \A k \in S : Rank(S, k) \in 1..Cardinality(S)
         /\ \A k, l \in S : Rank(S, k) = Rank(S, l) => k = l
         /\ \A i \in 1..Cardinality(S) : \E k \in S : Rank(S, k) = i
<1> DEFINE UpTo(k) == {j \in S : j <= k}
           f == [k \in S |-> Rank(S, k)]
           n == Cardinality(S)
<1>1. IsFiniteSet(S) /\ n \in Nat
  BY FS_Subset, FS_CardinalityType, ListAssumption
<1>2. S \subseteq Nat
  BY ListAssumption
<1>3. ASSUME NEW k \in S
      PROVE  /\ IsFiniteSet(UpTo(k)) /\ Cardinality(UpTo(k)) \in 1..n
             /\ Rank(S, k) = Cardinality(UpTo(k))
  <2>1. IsFiniteSet(UpTo(k)) /\ Cardinality(UpTo(k)) <= n
    BY <1>1, FS_Subset
  <2>2. Cardinality(UpTo(k)) \in Nat
    BY <2>1, FS_CardinalityType
  <2>3. k \in UpTo(k)
    BY <1>2
  <2>4. Cardinality(UpTo(k)) # 0
    BY <2>1, <2>3, FS_EmptySet
  <2>5. QED
    BY <1>1, <2>1, <2>2, <2>4 DEF Rank
<1>4. ASSUME NEW k \in S, NEW l \in S, k < l PROVE Rank(S, k) # Rank(S, l)
  <2>1. UpTo(k) \subseteq UpTo(l) /\ UpTo(k) # UpTo(l)
    <3>1. l \in UpTo(l) /\ l \notin UpTo(k)
      BY <1>2, <1>4
    <3>2. \A j \in S : j <= k => j <= l
      BY <1>2, <1>4
    <3>3. QED
      BY <3>1, <3>2
  <2>2. QED
    BY <1>3, <2>1, FS_Subset
<1>5. \A k, l \in S : Rank(S, k) = Rank(S, l) => k = l
  BY <1>2, <1>4
<1>6. f \in Injection(S, 1..n)
  BY <1>3, <1>5 DEF Injection, IsInjective
<1>7. IsFiniteSet(1..n) /\ Cardinality(1..n) = n
  BY <1>1, FS_Interval
<1>8. f \in Surjection(S, 1..n)
  BY <1>6, <1>7, FS_Injection
<1>9. \A i \in 1..n : \E k \in S : Rank(S, k) = i
  BY <1>8 DEF Surjection
<1>10. QED
  BY <1>1, <1>3, <1>5, <1>9

\* The rows of an answer are its ads, each in one place.
LEMMA RowsAre ==
  ASSUME NEW S \in SUBSET Ads
  PROVE  /\ Cardinality(S) \in Nat
         /\ Rows(S) \in Seq(Ads) /\ Len(Rows(S)) = Cardinality(S)
         /\ {Rows(S)[i] : i \in 1..Cardinality(S)} = S
<1> DEFINE n == Cardinality(S)
           F(i) == CHOOSE k \in S : Rank(S, k) = i
<1>1. n \in Nat
  BY RankBijective
<1>2. \A i \in 1..n : F(i) \in S /\ Rank(S, F(i)) = i
  BY RankBijective
<1>3. Rows(S) = [i \in 1..n |-> F(i)]
  BY DEF Rows, Rank
<1>4. \A k \in S : F(Rank(S, k)) = k
  BY <1>2, RankBijective
<1> HIDE DEF F
<1>5. Rows(S) \in Seq(Ads) /\ Len(Rows(S)) = n
  <2> HIDE DEF n
  <2>1. [i \in 1..n |-> F(i)] \in Seq(Ads)
    BY <1>1, <1>2
  <2>2. Len([i \in 1..n |-> F(i)]) = n
    BY <1>1, <1>2
  <2>3. QED
    BY <1>3, <2>1, <2>2
<1>6. {Rows(S)[i] : i \in 1..n} = S
  BY <1>2, <1>3, <1>4, RankBijective
<1>7. QED
  BY <1>1, <1>5, <1>6

\* A list of rows has a length: the ads of an answer are finitely many.
LEMMA RowsLen ==
  ASSUME NEW S \in SUBSET Ads
  PROVE  Len(Rows(S)) \in Nat
BY RowsAre

LEMMA GapInit == Init => GapInv
  BY DEF Init, GapInv, Typed, Agree

\* Every step keeps the agreement: what replaces the rows posts a reload, what
\* takes the last reload away makes the table believe in them.
LEMMA GapNext == GapInv /\ [Next]_vars => GapInv'
<1> SUFFICES ASSUME GapInv, [Next]_vars PROVE GapInv'
  OBVIOUS
<1> USE DEF GapInv, Typed, Agree, collection
<1>1. ASSUME NEW S \in SUBSET Ads, NEW mine \in BOOLEAN, Change(S, mine) PROVE GapInv'
  BY <1>1 DEF Change, table
<1>2. CASE ViewDidAppear \/ Leave \/ AnswerError
  BY <1>2 DEF ViewDidAppear, Leave, AnswerError, table
<1>3. CASE Answer \/ AnswerFromCache
  BY <1>3 DEF Answer, AnswerFromCache, table
<1>4. CASE LoadOfertas
  <2>1. Head(answers) \in SUBSET Ads /\ Tail(answers) \in Seq(SUBSET Ads)
    BY <1>4 DEF LoadOfertas
  <2>2. Len(ofertas') \in Nat
    BY <1>4, <2>1, RowsLen DEF LoadOfertas
  <2>3. QED
    BY <1>4, <2>1, <2>2 DEF LoadOfertas
<1>5. CASE ReloadData
  BY <1>5 DEF ReloadData
<1>6. ASSUME NEW r \in 1..shown, DrawRow(r) PROVE GapInv'
  <2>1. CASE reloads = 0
    <3>1. r \in 1..Len(ofertas) /\ ~OutOfRange(r)
      BY <2>1, <1>6 DEF OutOfRange
    <3>2. cell' = [row |-> r, ad |-> ofertas[r]]
      BY <1>6, <3>1 DEF DrawRow
    <3>3. QED
      BY <1>6, <3>1, <3>2 DEF DrawRow
  <2>2. CASE reloads # 0
    BY <1>6, <2>2 DEF DrawRow
  <2>3. QED
    BY <2>1, <2>2
<1>7. CASE SelectRow
  BY <1>7 DEF SelectRow, table
<1>8. CASE UNCHANGED vars
  BY <1>8 DEF vars
<1>9. QED
  BY <1>1, <1>2, <1>3, <1>4, <1>5, <1>6, <1>7, <1>8 DEF Next, Loading, User

THEOREM GapInvariance == Spec => []GapInv
<1>1. QED
  BY GapInit, GapNext, PTL DEF Spec

\* A touch without a reload waiting opens the ad that is drawn, and asks for no row
\* that is not there (getOferta(at:) of FeedController and OfertasUsuarioController).
LEMMA TouchInStep ==
  ASSUME GapInv, [Next]_vars, reloads = 0
  PROVE  /\ screen' # "crashed" \/ screen = "crashed"
         /\ opened' # opened => opened' = cell.ad
<1> USE DEF GapInv, Typed, Agree, touch, table
<1>1. ASSUME NEW S \in SUBSET Ads, NEW mine \in BOOLEAN, Change(S, mine)
      PROVE  UNCHANGED touch
  BY <1>1 DEF Change
<1>2. ASSUME ViewDidAppear \/ Leave
      PROVE  screen' # "crashed" /\ opened' = opened
  BY <1>2 DEF ViewDidAppear, Leave
<1>3. ASSUME Loading
      PROVE  UNCHANGED touch
  BY <1>3 DEF Loading, Answer, AnswerFromCache, AnswerError, LoadOfertas, ReloadData
<1>4. ASSUME NEW r \in 1..shown, DrawRow(r)
      PROVE  UNCHANGED touch
  <2>1. ~OutOfRange(r)
    BY <1>4 DEF OutOfRange
  <2>2. QED
    BY <1>4, <2>1 DEF DrawRow
<1>5. ASSUME SelectRow
      PROVE  screen' = "hidden" /\ opened' = cell.ad
  <2>1. ~OutOfRange(cell.row)
    BY <1>5 DEF SelectRow, OutOfRange
  <2>2. QED
    BY <1>5, <2>1 DEF SelectRow
<1>6. ASSUME UNCHANGED vars
      PROVE  UNCHANGED touch
  BY <1>6 DEF vars
<1>7. QED
  BY <1>1, <1>2, <1>3, <1>4, <1>5, <1>6 DEF Next, User

\* The lists and the ad they open differ only between an answer and its reload.
THEOREM StaleOnly == Spec => StaleOnlyInTheGap
<1>1. GapInv /\ [Next]_vars =>
        [reloads = 0 => /\ screen' # "crashed" \/ screen = "crashed"
                        /\ opened' # opened => opened' = cell.ad]_vars
  BY TouchInStep
<1>2. QED
  BY <1>1, GapInvariance, PTL DEF Spec, StaleOnlyInTheGap

-----------------------------------------------------------------------------
(* Types, and what queries that overlap do to the lists.                    *)

\* The ads in the list.
Listed == {ofertas[i] : i \in 1..Len(ofertas)}

\* Nobody has deleted an ad yet: answers on their way have what the list has and
\* more, the later the more, and the table asks for no row the list has lost.
Growing == ~deleted =>
    /\ cache \subseteq docs
    /\ Listed \subseteq cache
    /\ \A i \in 1..Len(answers) : Listed \subseteq answers[i] /\ answers[i] \subseteq cache
    /\ \A i, j \in 1..Len(answers) : i <= j => answers[i] \subseteq answers[j]
    /\ shown <= Len(ofertas)
    /\ cell # NoCell => cell.row <= Len(ofertas)
    /\ screen # "crashed"

Counted == Len(ofertas) = Cardinality(Listed)

ListInv == TypeOK /\ Counted /\ Growing

LEMMA ListInit == Init => ListInv
<1> SUFFICES ASSUME Init PROVE ListInv
  OBVIOUS
<1>1. Listed = {} /\ Cardinality(Listed) = 0
  BY FS_EmptySet DEF Init, Listed
<1>2. TypeOK
  BY ListAssumption DEF Init, TypeOK, UnderWay
<1>3. Counted
  BY <1>1 DEF Init, Counted
<1>4. Growing
  <2>1. 1..Len(answers) = {} /\ Len(ofertas) = 0
    BY DEF Init
  <2>2. ~deleted => cache \subseteq docs
    BY DEF Init
  <2>3. QED
    BY <1>1, <2>1, <2>2 DEF Init, Growing
<1>5. QED
  BY <1>2, <1>3, <1>4 DEF ListInv

\* The rows an answer brings are of the ads it has.
LEMMA LoadRows ==
  ASSUME ListInv, LoadOfertas
  PROVE  /\ Head(answers) \in SUBSET Ads /\ Tail(answers) \in Seq(SUBSET Ads)
         /\ ofertas' \in Seq(Ads)
         /\ Listed' = Head(answers)
         /\ Len(ofertas') = Cardinality(Listed')
<1>1. Head(answers) \in SUBSET Ads /\ Tail(answers) \in Seq(SUBSET Ads)
  BY DEF ListInv, TypeOK, LoadOfertas
<1> DEFINE S == Head(answers)
<1>2. ofertas' = Rows(S)
  BY DEF LoadOfertas
<1>3. /\ Rows(S) \in Seq(Ads) /\ Len(Rows(S)) = Cardinality(S)
      /\ {Rows(S)[i] : i \in 1..Cardinality(S)} = S
  BY <1>1, RowsAre
<1>4. Listed' = {Rows(S)[i] : i \in 1..Cardinality(S)}
  BY <1>2, <1>3 DEF Listed
<1>5. QED
  BY <1>1, <1>2, <1>3, <1>4

LEMMA TypeNext == ListInv /\ [Next]_vars => TypeOK'
<1> SUFFICES ASSUME ListInv, [Next]_vars PROVE TypeOK'
  OBVIOUS
<1>0. TypeOK /\ MaxLoads \in Nat
  BY ListAssumption DEF ListInv
<1> USE <1>0 DEF TypeOK, UnderWay, collection, table, touch
<1>1. ASSUME NEW S \in SUBSET Ads, NEW mine \in BOOLEAN, Change(S, mine) PROVE TypeOK'
  BY <1>1 DEF Change
<1>2. CASE ViewDidAppear \/ Leave \/ AnswerError
  <2>1. CASE ViewDidAppear
    BY <2>1 DEF ViewDidAppear
  <2>2. CASE Leave
    BY <2>2 DEF Leave
  <2>3. CASE AnswerError
    <3>1. asked' \in Nat /\ asked' < asked
      BY <2>3 DEF AnswerError
    <3>2. steady' \in BOOLEAN
      BY <2>3 DEF AnswerError
    <3>3. UNCHANGED <<docs, cache, deleted, answers, ofertas, reloads, table, touch>>
      BY <2>3 DEF AnswerError
    <3>4. QED
      BY <3>1, <3>2, <3>3
  <2>4. QED
    BY <1>2, <2>1, <2>2, <2>3
<1>3. ASSUME NEW S \in SUBSET Ads, asked > 0, asked' = asked - 1,
             answers' = Append(answers, S), cache' \in SUBSET Ads, steady' \in BOOLEAN,
             UNCHANGED <<docs, deleted, ofertas, reloads, table, touch>>
      PROVE  TypeOK'
  <2>1. answers' \in Seq(SUBSET Ads) /\ Len(answers') = Len(answers) + 1
    BY <1>3
  <2>2. QED
    BY <1>3, <2>1
<1>a. CASE Answer
  BY <1>3, <1>a DEF Answer
<1>b. CASE AnswerFromCache
  <2>1. steady' \in BOOLEAN
    BY <1>b DEF AnswerFromCache
  <2>2. QED
    BY <1>3, <1>b, <2>1 DEF AnswerFromCache
<1>4. CASE LoadOfertas
  BY <1>4, LoadRows DEF LoadOfertas
<1>5. CASE ReloadData
  <2>1. /\ reloads' \in Nat /\ shown' \in Nat /\ cell' = NoCell /\ overlay' = FALSE
        /\ reloads' = reloads - 1
        /\ UNCHANGED <<collection, asked, answers, ofertas, touch>>
    BY <1>5 DEF ReloadData
  <2>2. UnderWay' <= MaxLoads
    BY <2>1
  <2>3. QED
    BY <2>1, <2>2
<1>6. ASSUME NEW r \in 1..shown, DrawRow(r) PROVE TypeOK'
  <2>1. CASE OutOfRange(r)
    BY <1>6, <2>1 DEF DrawRow
  <2>2. CASE ~OutOfRange(r)
    <3>1. ofertas[r] \in Ads /\ r \in Nat \ {0}
      BY <2>2 DEF OutOfRange
    <3>2. cell' = [row |-> r, ad |-> ofertas[r]] /\ ~overlay
      BY <1>6, <2>2 DEF DrawRow
    <3>3. QED
      BY <1>6, <2>2, <3>1, <3>2 DEF DrawRow
  <2>3. QED
    BY <2>1, <2>2
<1>7. CASE SelectRow
  <2>1. cell \in [row : Nat \ {0}, ad : Ads] /\ ~overlay
    BY <1>7 DEF SelectRow
  <2>2. CASE OutOfRange(cell.row)
    BY <1>7, <2>2 DEF SelectRow
  <2>3. CASE ~OutOfRange(cell.row)
    <3>1. ofertas[cell.row] \in Ads
      BY <2>1, <2>3 DEF OutOfRange
    <3>2. QED
      BY <1>7, <2>1, <2>3, <3>1 DEF SelectRow
  <2>4. QED
    BY <2>2, <2>3
<1>8. CASE UNCHANGED vars
  BY <1>8 DEF vars
<1>9. QED
  BY <1>1, <1>2, <1>a, <1>b, <1>4, <1>5, <1>6, <1>7, <1>8 DEF Next, Loading, User

\* An ad that was deleted once stays in the history.
LEMMA DeletedStays == [Next]_vars /\ ListInv => (deleted => deleted')
<1> SUFFICES ASSUME [Next]_vars, ListInv, deleted PROVE deleted'
  OBVIOUS
<1> USE DEF collection
<1>1. ASSUME NEW S \in SUBSET Ads, NEW mine \in BOOLEAN, Change(S, mine) PROVE deleted'
  BY <1>1 DEF Change
<1>2. CASE Loading
  BY <1>2 DEF Loading, Answer, AnswerFromCache, AnswerError, LoadOfertas, ReloadData
<1>3. CASE User
  BY <1>3 DEF User, ViewDidAppear, Leave, DrawRow, SelectRow
<1>4. CASE UNCHANGED vars
  BY <1>4 DEF vars
<1>5. QED
  BY <1>1, <1>2, <1>3, <1>4 DEF Next

LEMMA CountedNext == ListInv /\ [Next]_vars => Counted'
<1> SUFFICES ASSUME ListInv, [Next]_vars PROVE Counted'
  OBVIOUS
<1>1. CASE LoadOfertas
  BY <1>1, LoadRows DEF Counted
<1>2. CASE ~LoadOfertas
  <2>1. ofertas' = ofertas
    BY <1>2 DEF Next, Loading, User, Change, ViewDidAppear, Leave, Answer, AnswerFromCache,
       AnswerError, ReloadData, DrawRow, SelectRow, vars
  <2>2. QED
    BY <2>1 DEF ListInv, Counted, Listed
<1>3. QED
  BY <1>1, <1>2

LEMMA GrowingNext == ListInv /\ [Next]_vars => Growing'
<1> SUFFICES ASSUME ListInv, [Next]_vars, ~deleted' PROVE Growing'
  BY DEF Growing
<1>0. TypeOK /\ TypeOK' /\ ~deleted /\ Growing
  BY DeletedStays, TypeNext DEF ListInv
<1> USE <1>0 DEF collection, table, touch
<1>1. ASSUME NEW S \in SUBSET Ads, NEW mine \in BOOLEAN, Change(S, mine) PROVE Growing'
  <2>1. docs \subseteq S /\ docs' = S /\ UNCHANGED <<answers, ofertas, shown, cell, screen>>
    BY <1>1 DEF Change
  <2>2. cache' = cache \/ cache' = cache \cup (S \ docs)
    BY <1>1, <2>1 DEF Change
  <2>3. cache \subseteq cache' /\ cache' \subseteq docs'
    BY <2>1, <2>2 DEF Growing
  <2>4. Listed' = Listed
    BY <2>1 DEF Listed
  <2>5. QED
    BY <2>1, <2>3, <2>4 DEF Growing
<1>2. CASE ViewDidAppear \/ Leave \/ AnswerError
  <2>1. UNCHANGED <<docs, cache, answers, ofertas, shown, cell>> /\ screen' # "crashed"
    BY <1>2 DEF ViewDidAppear, Leave, AnswerError, Growing
  <2>2. QED
    BY <2>1 DEF Growing, Listed
<1>3. ASSUME NEW S, S = docs \/ S = cache, cache' = S,
             answers' = Append(answers, S),
             UNCHANGED <<docs, ofertas, shown, cell, screen>>
      PROVE  Growing'
  <2>1. /\ S \subseteq cache' /\ cache \subseteq S /\ cache \subseteq cache'
        /\ cache' \subseteq docs'
    BY <1>3 DEF Growing
  <2>2. answers \in Seq(SUBSET Ads) /\ S \in SUBSET Ads
    BY <1>3 DEF TypeOK
  <2>3. /\ Len(answers') = Len(answers) + 1
        /\ \A i \in 1..Len(answers) : answers'[i] = answers[i]
        /\ answers'[Len(answers) + 1] = S
    BY <1>3, <2>2
  <2>4. Listed' = Listed /\ Listed \subseteq cache
    BY <1>3 DEF Listed, Growing
  <2>5. \A i \in 1..Len(answers) : answers[i] \subseteq cache /\ Listed \subseteq answers[i]
    BY DEF Growing
  <2>6. \A i \in 1..Len(answers') : Listed' \subseteq answers'[i] /\ answers'[i] \subseteq cache'
    BY <2>1, <2>2, <2>3, <2>4, <2>5
  <2>7. \A i, j \in 1..Len(answers') : i <= j => answers'[i] \subseteq answers'[j]
    <3> SUFFICES ASSUME NEW i \in 1..Len(answers'), NEW j \in 1..Len(answers'), i <= j
                 PROVE  answers'[i] \subseteq answers'[j]
      OBVIOUS
    <3>1. CASE j = Len(answers) + 1
      BY <2>1, <2>2, <2>3, <2>5, <3>1
    <3>2. CASE j # Len(answers) + 1
      BY <2>2, <2>3, <3>2 DEF Growing
    <3>3. QED
      BY <3>1, <3>2
  <2>8. shown' <= Len(ofertas') /\ (cell' # NoCell => cell'.row <= Len(ofertas'))
        /\ screen' # "crashed"
    BY <1>3 DEF Growing
  <2>9. QED
    BY <2>1, <2>4, <2>6, <2>7, <2>8 DEF Growing
<1>4. CASE Answer \/ AnswerFromCache
  <2>1. CASE Answer
    BY <1>3, <2>1 DEF Answer
  <2>2. CASE AnswerFromCache
    BY <1>3, <2>2 DEF AnswerFromCache
  <2>3. QED
    BY <1>4, <2>1, <2>2
<1>5. CASE LoadOfertas
  <2>1. /\ Listed' = Head(answers) /\ answers # <<>> /\ answers' = Tail(answers)
        /\ UNCHANGED <<docs, cache, shown, cell, screen>>
    BY <1>5, LoadRows DEF LoadOfertas
  <2>2. answers \in Seq(SUBSET Ads) /\ 1 \in 1..Len(answers) /\ Head(answers) = answers[1]
    BY <2>1 DEF TypeOK
  <2>3. /\ Len(answers') = Len(answers) - 1
        /\ \A i \in 1..Len(answers') : answers'[i] = answers[i + 1] /\ i + 1 \in 1..Len(answers)
    BY <2>1, <2>2
  <2>4. Listed \subseteq Listed' /\ Listed' \subseteq cache'
    BY <2>1, <2>2 DEF Growing
  <2>5. Len(ofertas) <= Len(ofertas')
    <3>1. Listed' \subseteq Ads /\ Cardinality(Listed) <= Cardinality(Listed')
      BY <2>1, <2>2, <2>4, FS_Subset, ListAssumption DEF TypeOK
    <3>2. QED
      BY <1>5, <3>1, LoadRows DEF ListInv, Counted
  <2>6. \A i \in 1..Len(answers') : Listed' \subseteq answers'[i] /\ answers'[i] \subseteq cache'
    BY <2>1, <2>2, <2>3 DEF Growing
  <2>7. \A i, j \in 1..Len(answers') : i <= j => answers'[i] \subseteq answers'[j]
    <3> SUFFICES ASSUME NEW i \in 1..Len(answers'), NEW j \in 1..Len(answers'), i <= j
                 PROVE  answers[i + 1] \subseteq answers[j + 1]
      BY <2>3
    <3>1. i + 1 <= j + 1
      BY <2>2, <2>3
    <3>2. QED
      BY <2>3, <3>1 DEF Growing
  <2>8. shown <= Len(ofertas') /\ (cell # NoCell => cell.row <= Len(ofertas'))
    BY <2>5 DEF Growing, TypeOK
  <2>9. QED
    BY <2>1, <2>4, <2>6, <2>7, <2>8 DEF Growing
<1>6. CASE ReloadData
  <2>1. /\ shown' = Len(ofertas) /\ cell' = NoCell
        /\ UNCHANGED <<docs, cache, answers, ofertas, screen>>
    BY <1>6 DEF ReloadData
  <2>2. QED
    BY <2>1 DEF Growing, Listed, TypeOK
<1>7. ASSUME NEW r \in 1..shown, DrawRow(r) PROVE Growing'
  <2>1. r <= Len(ofertas) /\ ~OutOfRange(r)
    BY DEF Growing, TypeOK, OutOfRange
  <2>2. /\ cell' = [row |-> r, ad |-> ofertas[r]]
        /\ UNCHANGED <<docs, cache, answers, ofertas, screen, shown>>
    BY <1>7, <2>1 DEF DrawRow
  <2>3. QED
    BY <2>1, <2>2 DEF Growing, Listed
<1>8. CASE SelectRow
  <2>1. ~OutOfRange(cell.row)
    BY <1>8 DEF SelectRow, Growing, TypeOK, OutOfRange
  <2>2. screen' = "hidden" /\ UNCHANGED <<docs, cache, answers, ofertas, shown, cell>>
    BY <1>8, <2>1 DEF SelectRow
  <2>3. QED
    BY <2>2 DEF Growing, Listed
<1>9. CASE UNCHANGED vars
  BY <1>9 DEF vars, Growing, Listed
<1>10. QED
  BY <1>1, <1>2, <1>4, <1>5, <1>6, <1>7, <1>8, <1>9 DEF Next, Loading, User

THEOREM ListInvariance == Spec => []ListInv
<1>1. ListInv /\ [Next]_vars => ListInv'
  BY TypeNext, CountedNext, GrowingNext DEF ListInv
<1>2. QED
  BY ListInit, <1>1, PTL DEF Spec

\* Rows, table, cell and answers of Feed and MinhasOfertas keep their types, and while
\* the loading view covers the screen there is nothing behind it to touch.
THEOREM TypeCorrect == Spec => []TypeOK
  BY ListInvariance, PTL DEF ListInv

\* Until an ad is deleted no answer takes a row from the lists and no row is asked for
\* that they do not have, although answers may fail, be outdated or come from the cache
\* (OfertasWorker.loadOffers appends what an answer has to an empty list).
THEOREM RowsStay == Spec => NeverShrinks
<1>1. ASSUME ListInv, ListInv', [Next]_vars, ~deleted
      PROVE  /\ screen' # "crashed"
             /\ \A i \in DOMAIN ofertas :
                   \E j \in DOMAIN ofertas' : ofertas'[j] = ofertas[i]
  <2>0. ofertas \in Seq(Ads) /\ ofertas' \in Seq(Ads)
    BY <1>1 DEF ListInv, TypeOK
  <2>1. CASE LoadOfertas
    <3>1. answers \in Seq(SUBSET Ads) /\ answers # <<>> /\ screen' = screen
      BY <1>1, <2>1 DEF ListInv, TypeOK, LoadOfertas, touch
    <3>2. Listed \subseteq Listed'
      BY <1>1, <2>1, <3>1, LoadRows DEF ListInv, Growing
    <3>3. \A i \in DOMAIN ofertas : ofertas[i] \in Listed'
      BY <2>0, <3>2 DEF Listed
    <3>4. \A x \in Listed' : \E j \in DOMAIN ofertas' : ofertas'[j] = x
      BY <2>0 DEF Listed
    <3>5. screen' # "crashed"
      BY <1>1, <3>1 DEF ListInv, Growing
    <3>6. QED
      BY <3>3, <3>4, <3>5
  <2>2. CASE ~LoadOfertas
    <3>1. ofertas' = ofertas
      BY <1>1, <2>2 DEF Next, Loading, User, Change, ViewDidAppear, Leave, Answer,
         AnswerFromCache, AnswerError, ReloadData, DrawRow, SelectRow, vars
    <3>2. screen' # "crashed"
      <4>1. \A r \in 1..shown : ~OutOfRange(r)
        BY <1>1 DEF ListInv, Growing, TypeOK, OutOfRange
      <4>2. cell # NoCell => ~OutOfRange(cell.row)
        BY <1>1 DEF ListInv, Growing, TypeOK, OutOfRange
      <4>3. screen # "crashed"
        BY <1>1 DEF ListInv, Growing
      <4>4. QED
        BY <1>1, <2>2, <4>1, <4>2, <4>3 DEF Next, Loading, User, Change, ViewDidAppear,
           Leave, Answer, AnswerFromCache, AnswerError, ReloadData, DrawRow, SelectRow,
           vars, touch
    <3>3. QED
      BY <3>1, <3>2
  <2>3. QED
    BY <2>1, <2>2
<1>2. ListInv /\ ListInv' /\ [Next]_vars =>
        [~deleted => /\ screen' # "crashed"
                     /\ \A i \in DOMAIN ofertas :
                           \E j \in DOMAIN ofertas' : ofertas'[j] = ofertas[i]]_vars
  BY <1>1
<1>3. QED
  BY <1>2, ListInvariance, PTL DEF Spec, NeverShrinks
=============================================================================

--------------------------- MODULE CadastroProofs ---------------------------
(***************************************************************************)
(* The signup form: a right form is accepted and nothing else is sent, after *)
(* any edits and refusals; and the mask of the phone number, for any texts:   *)
(* a formatted number is formatted already, and backspace takes one digit.    *)
(*                                                                          *)
(* CleanNumber is a function defined by itself: it is shown to exist, and     *)
(* what it does to a front of a text follows position by position.  Of the    *)
(* mask the proofs use how many places for digits each front has.             *)
(***************************************************************************)
EXTENDS Cadastro, FiniteSetTheorems, FiniteSetsExt, SequenceTheorems, TLAPS

\* Induction, as module FoldLemmas has it; no loop is meant.
Numbers == INSTANCE FoldLemmas WITH Step <- LAMBDA p, x, acc : acc

\* What each label says of its text.  The label of the e-mail is exact while there is
\* one, since every change sets it; the label of the password is only known to be empty
\* once there is a password, since it is cleared by the change that ends the empty text.
LabelsInv ==
    /\ nome \in {"", "blank", "filled"}
    /\ email \in {"", "bad", "good"}
    /\ senha \in {"", "filled"}
    /\ email = "good" => emailLabel = ""
    /\ email = "bad" => emailLabel # ""
    /\ senha = "filled" => senhaLabel = ""

\* The form starts without labels and has sent nothing.
LEMMA InitLabels == Init => LabelsInv /\ OnlyValidSent
BY DEF Init, LabelsInv, OnlyValidSent, Nothing

\* Every edit and every press of the button keeps the labels right and sends only a
\* valid form.
LEMMA StepLabels ==
    ASSUME LabelsInv, OnlyValidSent, [Next]_vars
    PROVE  LabelsInv' /\ OnlyValidSent'
<1>1. ASSUME NEW new \in {"", "blank", "filled"}, ChangeNome(new)
      PROVE  LabelsInv' /\ OnlyValidSent'
  BY <1>1 DEF ChangeNome, LabelsInv, OnlyValidSent, Nothing
<1>2. ASSUME NEW new \in {"", "bad", "good"}, ChangeEmail(new)
      PROVE  LabelsInv' /\ OnlyValidSent'
  BY <1>2 DEF ChangeEmail, LabelsInv, OnlyValidSent, Nothing
<1>3. ASSUME NEW new \in {"", "filled"}, ChangeSenha(new)
      PROVE  LabelsInv' /\ OnlyValidSent'
  BY <1>3 DEF ChangeSenha, LabelsInv, OnlyValidSent, Nothing
<1>4. ASSUME NEW i, NEW k, NEW s, ChangeTelefone(i, k, s)
      PROVE  LabelsInv' /\ OnlyValidSent'
  BY <1>4 DEF ChangeTelefone, labels, LabelsInv, OnlyValidSent, Nothing
<1>5. ASSUME Cadastrar
      PROVE  LabelsInv' /\ OnlyValidSent'
  <2>1. LabelsInv'
    BY <1>5 DEF Cadastrar, LabelsInv
  <2>2. ASSUME checkFields
        PROVE  OnlyValidSent'
    <3>1. nome = "filled" /\ email = "good" /\ senha = "filled"
      BY <2>2 DEF checkFields, LabelsInv
    <3>2. sent' = [nome |-> nome, email |-> email, senha |-> senha]
      BY <1>5, <2>2 DEF Cadastrar
    <3>3. QED
      BY <3>1, <3>2 DEF OnlyValidSent
  <2>3. ASSUME ~ checkFields
        PROVE  OnlyValidSent'
    <3>1. UNCHANGED sent
      BY <1>5, <2>3 DEF Cadastrar
    <3>2. QED
      BY <3>1 DEF OnlyValidSent, Nothing
  <2>4. QED
    BY <2>1, <2>2, <2>3
<1>6. ASSUME UNCHANGED vars
      PROVE  LabelsInv' /\ OnlyValidSent'
  BY <1>6 DEF vars, LabelsInv, OnlyValidSent, Nothing
<1>7. QED
  BY <1>1, <1>2, <1>3, <1>4, <1>5, <1>6 DEF Next

\* A form with a name, a valid e-mail and a password is never refused, whatever was
\* edited, emptied and refused before: the labels checkFields looks at
\* (CadastroViewController lines 106 and 114) are those of the texts.
THEOREM FormCorrectable == Spec => []Correctable
<1>1. LabelsInv => Correctable
  BY DEF LabelsInv, Correctable, checkFields
<1>2. QED
  BY <1>1, InitLabels, StepLabels, PTL DEF Spec

\* What the form hands to cadastrarUsuario has a name, a valid e-mail and a password
\* (CadastroViewController lines 134-142).
THEOREM SendsValid == Spec => []OnlyValidSent
BY InitLabels, StepLabels, PTL DEF Spec

-----------------------------------------------------------------------------
(* The digits of a text.                                                    *)

Chars == Digits \cup Range(Mask)

\* CleanNumber is the last value of a function defined by itself; this is its body.
CleanedAt(s, f, i) ==
    IF i = 0 THEN <<>>
    ELSE IF s[i] \in Digits THEN Append(f[i - 1], s[i]) ELSE f[i - 1]
Cleaned(s) == CHOOSE f : f = [i \in 0..Len(s) |-> CleanedAt(s, f, i)]

LEMMA CleanDef ==
    ASSUME NEW s
    PROVE  CleanNumber(s) = Cleaned(s)[Len(s)]
BY DEF CleanNumber, Cleaned, CleanedAt

\* There is such a function: it is extended position by position.
LEMMA CleanedExists ==
    ASSUME NEW s, NEW n \in Nat
    PROVE  \E f : f = [i \in 0..n |-> CleanedAt(s, f, i)]
<1> DEFINE F == {m \in Nat : \E f : f = [i \in 0..m |-> CleanedAt(s, f, i)]}
<1>1. 0 \in F
  <2> DEFINE f == [i \in 0..0 |-> <<>>]
  <2>1. \A i \in 0..0 : i = 0
    OBVIOUS
  <2>2. f = [i \in 0..0 |-> CleanedAt(s, f, i)]
    BY <2>1 DEF CleanedAt
  <2> HIDE DEF f
  <2> QED BY <2>2
<1>2. ASSUME NEW m \in Nat, m \in F PROVE m + 1 \in F
  <2>1. PICK f : f = [i \in 0..m |-> CleanedAt(s, f, i)]
    BY <1>2
  <2> DEFINE g == [i \in 0..(m + 1) |-> IF i = m + 1 THEN CleanedAt(s, f, i) ELSE f[i]]
  <2>2. \A i \in 0..m : g[i] = f[i] /\ f[i] = CleanedAt(s, f, i)
    BY <2>1
  <2>3. g[m + 1] = CleanedAt(s, f, m + 1)
    OBVIOUS
  <2>4. ASSUME NEW i \in 0..(m + 1) PROVE g[i] = CleanedAt(s, g, i)
    <3>1. CASE i = 0
      <4>1. 0 \in 0..m
        OBVIOUS
      <4>2. g[0] = CleanedAt(s, f, 0)
        BY <2>2, <4>1
      <4> HIDE DEF g
      <4> QED BY <3>1, <4>2 DEF CleanedAt
    <3>2. CASE i # 0
      <4>1. i - 1 \in 0..m
        BY <3>2
      <4>2. g[i - 1] = f[i - 1]
        BY <2>2, <4>1
      <4>3. g[i] = CleanedAt(s, f, i)
        <5>1. i = m + 1 \/ i \in 0..m
          OBVIOUS
        <5> HIDE DEF g
        <5> QED BY <2>2, <2>3, <5>1
      <4> HIDE DEF g
      <4> QED BY <3>2, <4>2, <4>3 DEF CleanedAt
    <3> QED BY <3>1, <3>2
  <2>5. g = [i \in 0..(m + 1) |-> CleanedAt(s, g, i)]
    BY <2>4
  <2> HIDE DEF g
  <2> QED BY <2>5
<1> HIDE DEF F
<1>3. Nat \subseteq F
  BY <1>1, <1>2, Numbers!SetOfNats
<1> QED BY <1>3 DEF F

\* The digits among the first characters of a text, one character after the other.
LEMMA CleanedSteps ==
    ASSUME NEW s, Len(s) \in Nat
    PROVE  /\ Cleaned(s)[0] = <<>>
           /\ \A i \in 1..Len(s) :
                 Cleaned(s)[i] = IF s[i] \in Digits THEN Append(Cleaned(s)[i - 1], s[i])
                                                    ELSE Cleaned(s)[i - 1]
<1> DEFINE n == Len(s)
<1> HIDE DEF n
<1>1. n \in Nat
  BY DEF n
<1>2. Cleaned(s) = [i \in 0..n |-> CleanedAt(s, Cleaned(s), i)]
  BY <1>1, CleanedExists DEF Cleaned, n
<1>3. 0 \in 0..n /\ \A i \in 1..n : i \in 0..n /\ i # 0
  BY <1>1
<1>4. Cleaned(s)[0] = CleanedAt(s, Cleaned(s), 0)
  BY <1>2, <1>3
<1>5. \A i \in 1..n : Cleaned(s)[i] = CleanedAt(s, Cleaned(s), i)
  BY <1>2, <1>3
<1> QED BY <1>3, <1>4, <1>5 DEF CleanedAt, n

\* They are digits, and no more than the characters.
LEMMA CleanedType ==
    ASSUME NEW s, Len(s) \in Nat, NEW i \in 0..Len(s)
    PROVE  Cleaned(s)[i] \in Seq(Digits) /\ Len(Cleaned(s)[i]) <= i
<1> DEFINE n == Len(s)
           c(k) == Cleaned(s)[k]
           F == {k \in Nat : k <= n => c(k) \in Seq(Digits) /\ Len(c(k)) <= k}
<1> HIDE DEF n
<1>0. n \in Nat /\ i \in 0..n
  BY DEF n
<1>1. /\ c(0) = <<>>
      /\ \A k \in 1..n : c(k) = IF s[k] \in Digits THEN Append(c(k - 1), s[k]) ELSE c(k - 1)
  BY CleanedSteps DEF n
<1> HIDE DEF c
<1>2. 0 \in F
  <2>1. <<>> \in Seq(Digits) /\ Len(<<>>) <= 0
    OBVIOUS
  <2>2. c(0) = <<>>
    BY <1>1
  <2>3. c(0) \in Seq(Digits) /\ Len(c(0)) <= 0
    BY ONLY <2>1, <2>2
  <2> QED BY <2>3
<1>3. ASSUME NEW k \in Nat, k \in F PROVE k + 1 \in F
  <2> SUFFICES ASSUME k + 1 <= n PROVE c(k + 1) \in Seq(Digits) /\ Len(c(k + 1)) <= k + 1
    OBVIOUS
  <2>1. k + 1 \in 1..n /\ (k + 1) - 1 = k /\ k <= n
    BY <1>0
  <2>2. c(k) \in Seq(Digits) /\ Len(c(k)) <= k /\ Len(c(k)) \in Nat
    BY <1>3, <2>1
  <2>3. c(k + 1) = IF s[k + 1] \in Digits THEN Append(c(k), s[k + 1]) ELSE c(k)
    BY <1>1, <2>1
  <2>4. CASE s[k + 1] \in Digits
    <3>1. Append(c(k), s[k + 1]) \in Seq(Digits) /\ Len(Append(c(k), s[k + 1])) = Len(c(k)) + 1
      BY <2>2, <2>4, AppendProperties
    <3> QED BY <2>2, <2>3, <2>4, <3>1
  <2>5. CASE s[k + 1] \notin Digits
    BY <2>2, <2>3, <2>5
  <2> QED BY <2>4, <2>5
<1> HIDE DEF F
<1>4. i \in F
  BY <1>0, <1>2, <1>3, Numbers!SetOfNats
<1> QED BY <1>0, <1>4 DEF F, c

LEMMA CleanType ==
    ASSUME NEW s, Len(s) \in Nat
    PROVE  CleanNumber(s) \in Seq(Digits) /\ Len(CleanNumber(s)) <= Len(s)
<1>1. Len(s) \in 0..Len(s)
  OBVIOUS
<1> QED BY <1>1, CleanDef, CleanedType

\* The digits of a front are those met on the way through the whole text.
LEMMA CleanFront ==
    ASSUME NEW S, NEW s \in Seq(S), NEW m \in 0..Len(s)
    PROVE  CleanNumber(SubSeq(s, 1, m)) = Cleaned(s)[m]
<1> DEFINE t == SubSeq(s, 1, m)
           n == Len(s)
<1> HIDE DEF n
<1>0. n \in Nat /\ m \in 0..n
  BY DEF n
<1>1. Len(t) = m /\ \A i \in 1..m : t[i] = s[i]
  <2>1. \A i \in 1..m : s[i] \in S
    BY ElementOfSeq
  <2>2. m \in Int /\ m >= 0 /\ m - 1 + 1 = m
    OBVIOUS
  <2>3. Len(t) = IF 1 <= m THEN m - 1 + 1 ELSE 0
    BY <2>1, <2>2, SubSeqProperties
  <2>4. \A i \in 1..(m - 1 + 1) : t[i] = s[1 + i - 1]
    BY <2>1, <2>2, SubSeqProperties
  <2> HIDE DEF t
  <2>5. \A i \in 1..m : 1 + i - 1 = i
    OBVIOUS
  <2> QED BY <2>2, <2>3, <2>4, <2>5
<1> HIDE DEF t
<1> DEFINE F == {k \in Nat : k <= m => Cleaned(t)[k] = Cleaned(s)[k]}
<1>2. /\ Cleaned(s)[0] = <<>>
      /\ \A k \in 1..n : Cleaned(s)[k] = IF s[k] \in Digits THEN Append(Cleaned(s)[k - 1], s[k])
                                                            ELSE Cleaned(s)[k - 1]
  BY <1>0, CleanedSteps DEF n
<1>3. /\ Cleaned(t)[0] = <<>>
      /\ \A k \in 1..m : Cleaned(t)[k] = IF t[k] \in Digits THEN Append(Cleaned(t)[k - 1], t[k])
                                                            ELSE Cleaned(t)[k - 1]
  BY <1>0, <1>1, CleanedSteps
<1>4. 0 \in F
  BY <1>2, <1>3
<1>5. ASSUME NEW k \in Nat, k \in F PROVE k + 1 \in F
  <2> SUFFICES ASSUME k + 1 <= m PROVE Cleaned(t)[k + 1] = Cleaned(s)[k + 1]
    OBVIOUS
  <2>1. k + 1 \in 1..m /\ k + 1 \in 1..n /\ (k + 1) - 1 = k /\ k <= m
    BY <1>0
  <2>2. Cleaned(t)[k] = Cleaned(s)[k] /\ t[k + 1] = s[k + 1]
    BY <1>1, <1>5, <2>1
  <2> QED BY <1>2, <1>3, <2>1, <2>2
<1> HIDE DEF F
<1>6. m \in F
  BY <1>0, <1>4, <1>5, Numbers!SetOfNats
<1>7. Cleaned(t)[m] = Cleaned(s)[m]
  BY <1>0, <1>6 DEF F
<1> QED BY <1>1, <1>7, CleanDef DEF t

-----------------------------------------------------------------------------
(* The mask.                                                                *)

LEMMA MaskIs ==
    /\ Len(Mask) = 15
    /\ \A i \in 1..15 : Mask[i] \in Range(Mask)
    /\ Mask[1] # "#" /\ Mask[2] = "#" /\ Mask[3] = "#" /\ Mask[4] # "#" /\ Mask[5] # "#"
    /\ Mask[6] = "#" /\ Mask[7] = "#" /\ Mask[8] = "#" /\ Mask[9] = "#" /\ Mask[10] = "#"
    /\ Mask[11] # "#" /\ Mask[12] = "#" /\ Mask[13] = "#" /\ Mask[14] = "#" /\ Mask[15] = "#"
<1>1. Len(Mask) = 15 /\ DOMAIN Mask = 1..15
  BY DEF Mask
<1>2. \A i \in 1..15 : Mask[i] \in Range(Mask)
  BY <1>1 DEF Range
<1>3. /\ Mask[1] # "#" /\ Mask[2] = "#" /\ Mask[3] = "#" /\ Mask[4] # "#" /\ Mask[5] # "#"
      /\ Mask[6] = "#" /\ Mask[7] = "#" /\ Mask[8] = "#" /\ Mask[9] = "#" /\ Mask[10] = "#"
      /\ Mask[11] # "#" /\ Mask[12] = "#" /\ Mask[13] = "#" /\ Mask[14] = "#" /\ Mask[15] = "#"
  BY DEF Mask
<1> QED BY <1>1, <1>2, <1>3

\* The places for digits among the first n of the mask grow by at most one.
LEMMA SlotsStep ==
    /\ Slots(0) = 0
    /\ \A n \in Nat : /\ Slots(n) \in Nat
                      /\ Slots(n + 1) = IF Mask[n + 1] = "#" THEN Slots(n) + 1 ELSE Slots(n)
<1> DEFINE P(n) == {i \in 1..n : Mask[i] = "#"}
<1>1. P(0) = {}
  <2>1. 1..0 = {}
    OBVIOUS
  <2> QED BY <2>1
<1>2. Slots(0) = 0
  <2> HIDE DEF P
  <2>1. Cardinality(P(0)) = 0
    BY <1>1, FS_EmptySet
  <2> QED BY <2>1 DEF Slots, P
<1>3. ASSUME NEW n \in Nat
      PROVE  /\ Slots(n) \in Nat
             /\ Slots(n + 1) = IF Mask[n + 1] = "#" THEN Slots(n) + 1 ELSE Slots(n)
  <2>1. IsFiniteSet(P(n))
    <3>1. IsFiniteSet(1..n) /\ P(n) \subseteq 1..n
      BY FS_Interval
    <3> HIDE DEF P
    <3> QED BY <3>1, FS_Subset
  <2>2. n + 1 \notin P(n) /\ 1..(n + 1) = (1..n) \cup {n + 1}
    OBVIOUS
  <2>3. P(n + 1) = IF Mask[n + 1] = "#" THEN P(n) \cup {n + 1} ELSE P(n)
    BY <2>2
  <2>4. Slots(n) = Cardinality(P(n)) /\ Slots(n + 1) = Cardinality(P(n + 1))
    BY DEF Slots
  <2> HIDE DEF P
  <2>5. Cardinality(P(n)) \in Nat
    BY <2>1, FS_CardinalityType
  <2>6. Cardinality(P(n) \cup {n + 1}) = Cardinality(P(n)) + 1
    BY <2>1, <2>2, FS_AddElement
  <2> QED BY <2>3, <2>4, <2>5, <2>6
<1> QED BY <1>2, <1>3

LEMMA SlotsAre ==
    /\ Slots(0) = 0 /\ Slots(1) = 0 /\ Slots(2) = 1 /\ Slots(3) = 2 /\ Slots(4) = 2
    /\ Slots(5) = 2 /\ Slots(6) = 3 /\ Slots(7) = 4 /\ Slots(8) = 5 /\ Slots(9) = 6
    /\ Slots(10) = 7 /\ Slots(11) = 7 /\ Slots(12) = 8 /\ Slots(13) = 9 /\ Slots(14) = 10
    /\ Slots(15) = 11
<1>0. Slots(0) = 0
  BY SlotsStep
<1>s. \A n \in Nat : Slots(n + 1) = IF Mask[n + 1] = "#" THEN Slots(n) + 1 ELSE Slots(n)
  BY SlotsStep
<1>1. Slots(0 + 1) = 0 /\ Slots(1 + 1) = 1 /\ Slots(2 + 1) = 2 /\ Slots(3 + 1) = 2
  BY <1>0, <1>s, MaskIs
<1>2. Slots(4 + 1) = 2 /\ Slots(5 + 1) = 3 /\ Slots(6 + 1) = 4 /\ Slots(7 + 1) = 5
  BY <1>1, <1>s, MaskIs
<1>3. Slots(8 + 1) = 6 /\ Slots(9 + 1) = 7 /\ Slots(10 + 1) = 7 /\ Slots(11 + 1) = 8
  BY <1>2, <1>s, MaskIs
<1>4. Slots(12 + 1) = 9 /\ Slots(13 + 1) = 10 /\ Slots(14 + 1) = 11
  BY <1>3, <1>s, MaskIs
<1> QED BY <1>0, <1>1, <1>2, <1>3, <1>4

LEMMA SlotsGrow ==
    ASSUME NEW j \in 0..15, NEW i \in 0..j
    PROVE  Slots(i) \in Nat /\ Slots(i) <= Slots(j)
<1> DEFINE F == {m \in Nat : \A l \in 0..m : Slots(l) <= Slots(m)}
<1>1. 0 \in F
  BY SlotsStep
<1>2. ASSUME NEW m \in Nat, m \in F PROVE m + 1 \in F
  <2>1. Slots(m) \in Nat /\ Slots(m + 1) \in Nat /\ Slots(m) <= Slots(m + 1)
    BY SlotsStep
  <2>2. ASSUME NEW l \in 0..(m + 1) PROVE Slots(l) <= Slots(m + 1)
    <3>1. Slots(l) \in Nat
      BY SlotsStep
    <3>2. CASE l = m + 1
      BY <2>1, <3>2
    <3>3. CASE l # m + 1
      <4>1. l \in 0..m
        BY <3>3
      <4>2. Slots(l) <= Slots(m)
        BY <1>2, <4>1
      <4> QED BY <2>1, <3>1, <4>2
    <3> QED BY <3>2, <3>3
  <2> QED BY <2>2
<1> HIDE DEF F
<1>3. j \in F
  BY <1>1, <1>2, Numbers!SetOfNats
<1> QED BY <1>3, SlotsStep DEF F

\* Min is what its name says on a set of naturals with an element.
LEMMA MinExists ==
    ASSUME NEW T \in SUBSET Nat, NEW t \in T
    PROVE  Min(T) \in T /\ \A y \in T : Min(T) <= y
<1>1. \E m \in T : \A y \in T : m <= y
  BY Numbers!LeastNatural
<1> QED BY <1>1 DEF Min

\* How much of the mask k digits fill, and how many of the digits d it keeps.
Filled(k) == Min({n \in 0..Len(Mask) : Slots(n) = k})
KeptOf(d) == Min({Len(d), Slots(Len(Mask))})

LEMMA KeptIs ==
    ASSUME NEW d, Len(d) \in Nat
    PROVE  KeptOf(d) = IF Len(d) <= 11 THEN Len(d) ELSE 11
<1> DEFINE n == Len(d)
           T == {n, 11}
<1>1. KeptOf(d) = Min(T)
  BY MaskIs, SlotsAre DEF KeptOf
<1>2. T \in SUBSET Nat /\ n \in T /\ 11 \in T
  OBVIOUS
<1>3. n \in Nat
  OBVIOUS
<1> HIDE DEF n
<1>4. Min(T) \in T /\ Min(T) <= n /\ Min(T) <= 11
  <2> HIDE DEF T
  <2> QED BY <1>2, MinExists
<1>5. Min(T) = n \/ Min(T) = 11
  BY <1>4
<1> HIDE DEF T
<1>6. Min(T) = IF n <= 11 THEN n ELSE 11
  BY <1>3, <1>4, <1>5
<1> QED BY <1>1, <1>6 DEF n

\* The filled part of the mask ends with its last digit.
LEMMA FilledIs ==
    ASSUME NEW k \in 0..11
    PROVE  /\ Filled(k) \in 0..15
           /\ Slots(Filled(k)) = k
           /\ \A i \in 1..Filled(k) : Mask[i] = "#" => Slots(i) \in 1..k
           /\ Filled(k) = 0 <=> k = 0
           /\ k > 0 => Slots(Filled(k) - 1) = k - 1
<1> DEFINE T == {n \in 0..15 : Slots(n) = k}
           m == Filled(k)
<1>1. \E n \in 0..15 : Slots(n) = k
  BY SlotsAre
<1>2. m = Min(T)
  BY MaskIs DEF Filled
<1>3. T \in SUBSET Nat /\ \E t : t \in T
  BY <1>1
<1>4. Min(T) \in T /\ \A y \in T : Min(T) <= y
  <2> HIDE DEF T
  <2> QED BY <1>3, MinExists
<1>5. m \in 0..15 /\ Slots(m) = k /\ \A n \in 0..15 : Slots(n) = k => m <= n
  <2> HIDE DEF m
  <2> QED BY <1>2, <1>4
<1> HIDE DEF m
<1>6. ASSUME NEW i \in 1..m, Mask[i] = "#" PROVE Slots(i) \in 1..k
  <2>1. i - 1 \in Nat /\ (i - 1) + 1 = i /\ i \in 0..m
    BY <1>5
  <2>2. Slots(i) = Slots(i - 1) + 1 /\ Slots(i - 1) \in Nat
    BY <1>6, <2>1, SlotsStep
  <2>3. Slots(i) <= k
    BY <1>5, <2>1, SlotsGrow
  <2> QED BY <2>2, <2>3
<1>7. m = 0 <=> k = 0
  <2>1. 0 \in 0..15 /\ Slots(0) = 0
    BY SlotsStep
  <2> QED BY <1>5, <2>1
<1>8. ASSUME k > 0 PROVE Slots(m - 1) = k - 1
  <2>1. m # 0
    BY <1>7, <1>8
  <2>2. m - 1 \in 0..15 /\ (m - 1) + 1 = m /\ ~(m <= m - 1)
    BY <1>5, <2>1
  <2>3. Slots(m - 1) # k
    BY <1>5, <2>2
  <2>4. Slots(m) \in {Slots(m - 1), Slots(m - 1) + 1} /\ Slots(m - 1) \in Nat
    BY <2>2, SlotsStep
  <2> QED BY <1>5, <2>3, <2>4
<1> QED BY <1>5, <1>6, <1>7, <1>8 DEF m

-----------------------------------------------------------------------------
(* The formatted number.                                                    *)

\* What formattedNumber makes of a text: the filled part of the mask, with its digits.
LEMMA FormatIs ==
    ASSUME NEW s, Len(s) \in Nat
    PROVE  LET d == CleanNumber(s)
               k == KeptOf(d)
               f == formattedNumber(s)
           IN /\ d \in Seq(Digits) /\ k \in 0..11 /\ k <= Len(d) /\ (Len(d) <= 11 => k = Len(d))
              /\ f = [i \in 1..Filled(k) |-> IF Mask[i] = "#" THEN d[Slots(i)] ELSE Mask[i]]
              /\ f \in Seq(Chars) /\ Len(f) = Filled(k)
<1> DEFINE d == CleanNumber(s)
           k == KeptOf(d)
           f == formattedNumber(s)
           m == Filled(k)
<1>1. d \in Seq(Digits) /\ Len(d) \in Nat
  BY CleanType
<1>2. f = [i \in 1..m |-> IF Mask[i] = "#" THEN d[Slots(i)] ELSE Mask[i]]
  BY DEF formattedNumber, Filled, KeptOf
<1> HIDE DEF d, f
<1>3. k \in 0..11 /\ k <= Len(d) /\ (Len(d) <= 11 => k = Len(d))
  <2> DEFINE n == Len(d)
  <2>1. n \in Nat /\ k = IF n <= 11 THEN n ELSE 11
    BY <1>1, KeptIs
  <2> HIDE DEF n, k
  <2>2. k \in 0..11 /\ k <= n /\ (n <= 11 => k = n)
    BY <2>1
  <2> QED BY <2>2 DEF n
<1> HIDE DEF k
<1>4. m \in 0..15 /\ \A i \in 1..m : Mask[i] = "#" => Slots(i) \in 1..k
  BY <1>3, FilledIs
<1> HIDE DEF m
<1>5. ASSUME NEW i \in 1..m
      PROVE  (IF Mask[i] = "#" THEN d[Slots(i)] ELSE Mask[i]) \in Chars
  <2>1. CASE Mask[i] = "#"
    <3>1. Slots(i) \in 1..Len(d)
      BY <1>1, <1>3, <1>4, <2>1
    <3>2. d[Slots(i)] \in Digits
      BY <1>1, <3>1, ElementOfSeq
    <3> QED BY <2>1, <3>2 DEF Chars
  <2>2. CASE Mask[i] # "#"
    <3>1. i \in 1..15
      BY <1>4
    <3>2. Mask[i] \in Range(Mask)
      BY <3>1, MaskIs
    <3> QED BY <2>2, <3>2 DEF Chars
  <2> QED BY <2>1, <2>2
<1>6. f \in Seq(Chars) /\ Len(f) = m
  <2>1. f \in [1..m -> Chars]
    BY <1>2, <1>5
  <2>2. m \in Nat
    BY <1>4
  <2> QED BY <2>1, <2>2
<1> QED BY <1>1, <1>2, <1>3, <1>6 DEF d, f, k, m

\* On the way through a formatted number, the digits met are the first of the text.
LEMMA DigitsOfFormat ==
    ASSUME NEW s, Len(s) \in Nat, NEW i \in 0..Len(formattedNumber(s))
    PROVE  LET c == Cleaned(formattedNumber(s))[i]
           IN /\ Len(c) = Slots(i)
              /\ \A j \in 1..Slots(i) : c[j] = CleanNumber(s)[j]
<1> DEFINE d == CleanNumber(s)
           k == KeptOf(d)
           f == formattedNumber(s)
           m == Filled(k)
           c(n) == Cleaned(f)[n]
           F == {n \in Nat : n <= m => /\ Len(c(n)) = Slots(n)
                                       /\ \A j \in 1..Slots(n) : c(n)[j] = d[j]}
<1>1. /\ d \in Seq(Digits) /\ k \in 0..11 /\ k <= Len(d)
      /\ f = [n \in 1..m |-> IF Mask[n] = "#" THEN d[Slots(n)] ELSE Mask[n]]
      /\ f \in Seq(Chars) /\ Len(f) = m
  BY FormatIs
<1>i. i \in 0..m
  BY <1>1
<1> HIDE DEF d, f, k
<1>2. m \in 0..15 /\ \A n \in 1..m : Mask[n] = "#" => Slots(n) \in 1..k
  BY <1>1, FilledIs
<1> HIDE DEF m
<1>3. /\ c(0) = <<>>
      /\ \A n \in 1..m : c(n) = IF f[n] \in Digits THEN Append(c(n - 1), f[n]) ELSE c(n - 1)
  BY <1>1, <1>2, CleanedSteps
<1>4. ASSUME NEW n \in 0..m PROVE c(n) \in Seq(Digits)
  <2>1. Len(f) \in Nat /\ n \in 0..Len(f)
    BY <1>1, <1>2
  <2> QED BY <2>1, CleanedType
<1>5. \A n \in 1..m : f[n] = IF Mask[n] = "#" THEN d[Slots(n)] ELSE Mask[n]
  BY <1>1
<1> HIDE DEF c
<1>6. 0 \in F
  <2>1. Slots(0) = 0 /\ 1..0 = {}
    BY SlotsStep
  <2>2. Len(c(0)) = 0
    BY <1>3
  <2> QED BY <2>1, <2>2
<1>7. ASSUME NEW n \in Nat, n \in F PROVE n + 1 \in F
  <2> SUFFICES ASSUME n + 1 <= m
               PROVE  /\ Len(c(n + 1)) = Slots(n + 1)
                      /\ \A j \in 1..Slots(n + 1) : c(n + 1)[j] = d[j]
    OBVIOUS
  <2>1. n + 1 \in 1..m /\ n \in 0..m /\ (n + 1) - 1 = n /\ n <= m /\ n + 1 \in 1..15
    BY <1>2
  <2>2. Len(c(n)) = Slots(n) /\ \A j \in 1..Slots(n) : c(n)[j] = d[j]
    BY <1>7, <2>1
  <2>3. c(n) \in Seq(Digits) /\ Slots(n) \in Nat
    BY <1>4, <2>1, SlotsStep
  <2>4. c(n + 1) = IF f[n + 1] \in Digits THEN Append(c(n), f[n + 1]) ELSE c(n)
    BY <1>3, <2>1
  <2>5. Slots(n + 1) = IF Mask[n + 1] = "#" THEN Slots(n) + 1 ELSE Slots(n)
    BY SlotsStep
  <2>6. CASE Mask[n + 1] = "#"
    <3>1. f[n + 1] = d[Slots(n + 1)] /\ Slots(n + 1) = Slots(n) + 1
      BY <1>5, <2>1, <2>5, <2>6
    <3>2. Slots(n + 1) \in 1..Len(d)
      BY <1>1, <1>2, <2>1, <2>6
    <3>3. f[n + 1] \in Digits
      BY <1>1, <3>1, <3>2, ElementOfSeq
    <3>4. c(n + 1) = Append(c(n), d[Slots(n) + 1])
      BY <2>4, <3>1, <3>3
    <3>5. d[Slots(n) + 1] \in Digits
      BY <3>1, <3>3
    <3>6. /\ Len(c(n + 1)) = Slots(n) + 1
          /\ \A j \in 1..Slots(n) : c(n + 1)[j] = c(n)[j]
          /\ c(n + 1)[Slots(n) + 1] = d[Slots(n) + 1]
      <4> DEFINE q == c(n)
                 x == d[Slots(n) + 1]
      <4>1. q \in Seq(Digits) /\ x \in Digits /\ Len(q) = Slots(n) /\ Slots(n) \in Nat
        BY <2>2, <2>3, <3>5
      <4>2. c(n + 1) = Append(q, x)
        BY <3>4
      <4> HIDE DEF q, x
      <4>3. /\ Len(Append(q, x)) = Len(q) + 1
            /\ \A j \in 1..Len(q) : Append(q, x)[j] = q[j]
            /\ Append(q, x)[Len(q) + 1] = x
        BY <4>1, AppendProperties
      <4> QED BY <4>1, <4>2, <4>3 DEF q, x
    <3>7. ASSUME NEW j \in 1..(Slots(n) + 1) PROVE c(n + 1)[j] = d[j]
      <4>1. CASE j = Slots(n) + 1
        BY <3>6, <4>1
      <4>2. CASE j # Slots(n) + 1
        <5>1. j \in 1..Slots(n)
          BY <2>3, <4>2
        <5> QED BY <2>2, <3>6, <5>1
      <4> QED BY <4>1, <4>2
    <3> QED BY <3>1, <3>6, <3>7
  <2>7. CASE Mask[n + 1] # "#"
    <3>1. f[n + 1] = Mask[n + 1]
      BY <1>5, <2>1, <2>7
    <3>2. Mask[n + 1] \in Range(Mask)
      BY <2>1, MaskIs
    <3>3. f[n + 1] \notin Digits
      BY <3>1, <3>2, DigitsAssumption
    <3> QED BY <2>2, <2>4, <2>5, <2>7, <3>3
  <2> QED BY <2>6, <2>7
<1> HIDE DEF F
<1>8. i \in F
  BY <1>2, <1>i, <1>6, <1>7, Numbers!SetOfNats
<1> QED BY <1>2, <1>i, <1>8 DEF F, c, d, f

\* A formatted number has the first digits of the text, up to as many as the mask holds.
LEMMA CleanOfFormat ==
    ASSUME NEW s, Len(s) \in Nat
    PROVE  LET c == CleanNumber(formattedNumber(s))
               k == KeptOf(CleanNumber(s))
           IN Len(c) = k /\ \A j \in 1..k : c[j] = CleanNumber(s)[j]
<1> DEFINE k == KeptOf(CleanNumber(s))
           f == formattedNumber(s)
<1>1. k \in 0..11 /\ Len(f) = Filled(k)
  BY FormatIs
<1>2. Filled(k) \in 0..15 /\ Slots(Filled(k)) = k
  <2> HIDE DEF k
  <2> QED BY <1>1, FilledIs
<1>3. Len(f) \in 0..Len(f)
  <2> HIDE DEF f, k
  <2> QED BY <1>1, <1>2
<1>4. CleanNumber(f) = Cleaned(f)[Len(f)]
  BY CleanDef
<1>5. /\ Len(Cleaned(f)[Len(f)]) = Slots(Len(f))
      /\ \A j \in 1..Slots(Len(f)) : Cleaned(f)[Len(f)][j] = CleanNumber(s)[j]
  BY <1>3, DigitsOfFormat
<1>6. Slots(Len(f)) = k
  BY <1>1, <1>2
<1> HIDE DEF f, k
<1>7. Len(CleanNumber(f)) = k /\ \A j \in 1..k : CleanNumber(f)[j] = CleanNumber(s)[j]
  BY <1>4, <1>5, <1>6
<1> QED BY <1>7 DEF f, k

\* Formatting a formatted number changes nothing.
LEMMA FormatAgain ==
    ASSUME NEW s, Len(s) \in Nat
    PROVE  formattedNumber(formattedNumber(s)) = formattedNumber(s)
<1> DEFINE d == CleanNumber(s)
           k == KeptOf(d)
           f == formattedNumber(s)
           e == CleanNumber(f)
           l == KeptOf(e)
<1>1. /\ k \in 0..11 /\ k <= Len(d)
      /\ f = [i \in 1..Filled(k) |-> IF Mask[i] = "#" THEN d[Slots(i)] ELSE Mask[i]]
      /\ Len(f) = Filled(k)
  BY FormatIs
<1>2. Len(e) = k /\ \A j \in 1..k : e[j] = d[j]
  BY CleanOfFormat
<1> HIDE DEF d, k
<1>3. Filled(k) \in 0..15 /\ \A i \in 1..Filled(k) : Mask[i] = "#" => Slots(i) \in 1..k
  BY <1>1, FilledIs
<1> HIDE DEF f
<1>4. Len(f) \in Nat
  BY <1>1, <1>3
<1>5. /\ Len(e) <= 11 => l = Len(e)
      /\ formattedNumber(f) =
            [i \in 1..Filled(l) |-> IF Mask[i] = "#" THEN e[Slots(i)] ELSE Mask[i]]
  BY <1>4, FormatIs
<1> HIDE DEF e, l
<1>6. l = k
  BY <1>1, <1>2, <1>5
<1>7. \A i \in 1..Filled(k) : (IF Mask[i] = "#" THEN e[Slots(i)] ELSE Mask[i])
                              = (IF Mask[i] = "#" THEN d[Slots(i)] ELSE Mask[i])
  BY <1>2, <1>3
<1>8. formattedNumber(f) = f
  BY <1>1, <1>5, <1>6, <1>7
<1> QED BY <1>8 DEF f

-----------------------------------------------------------------------------
(* Types, and what backspace does.                                          *)

\* Every edit of the phone number is formatted as a whole.
LEMMA StepPhone ==
    ASSUME TypeOK, NEW i \in 0..Len(telefone), NEW k \in 0..1, NEW s \in Seq(Chars),
           ChangeTelefone(i, k, s)
    PROVE  telefone' \in Seq(Chars) /\ telefone' = formattedNumber(telefone')
<1> DEFINE a == SubSeq(telefone, 1, i)
           b == SubSeq(telefone, i + k + 1, Len(telefone))
           t == a \o s \o b
<1>1. telefone \in Seq(Chars)
  BY DEF TypeOK, Chars
<1>2. a \in Seq(Chars) /\ b \in Seq(Chars)
  <2>1. \A j \in 1..Len(telefone) : telefone[j] \in Chars
    BY <1>1, ElementOfSeq
  <2> DEFINE n == Len(telefone)
  <2>2. n \in Nat
    BY <1>1
  <2> HIDE DEF n
  <2>3. i \in 0..n /\ i + k + 1 \in Int /\ i + k + 1 >= 1
    BY <2>2 DEF n
  <2>4. /\ \A j \in 1..i : telefone[j] \in Chars
        /\ \A j \in (i + k + 1)..n : telefone[j] \in Chars
    BY <2>1, <2>2, <2>3 DEF n
  <2> QED BY <2>2, <2>3, <2>4, SubSeqProperties DEF n
<1> HIDE DEF a, b
<1>3. t \in Seq(Chars) /\ Len(t) \in Nat
  BY <1>2
<1>4. telefone' = formattedNumber(t)
  BY DEF ChangeTelefone, a, b
<1> HIDE DEF t
<1>5. /\ formattedNumber(t) \in Seq(Chars)
      /\ formattedNumber(formattedNumber(t)) = formattedNumber(t)
  BY <1>3, FormatIs, FormatAgain
<1> QED BY <1>4, <1>5

\* Every field keeps its type, and the phone number is at every moment what its own digits
\* are formatted to (formattedNumber lines 29-46, shouldChangeCharactersIn).
THEOREM TypeCorrect == Spec => []TypeOK
<1>1. Init => TypeOK
  <2> SUFFICES ASSUME Init PROVE TypeOK
    OBVIOUS
  <2>1. <<>> \in Seq(Chars) /\ Len(<<>>) = 0
    OBVIOUS
  <2>2. formattedNumber(<<>>) = <<>>
    <3> DEFINE f == formattedNumber(<<>>)
               k == KeptOf(CleanNumber(<<>>))
    <3>1. /\ k \in 0..11 /\ k <= Len(CleanNumber(<<>>))
          /\ f \in Seq(Chars) /\ Len(f) = Filled(k)
      BY <2>1, FormatIs
    <3>2. CleanNumber(<<>>) = <<>>
      BY <2>1, CleanDef, CleanedSteps
    <3>3. k = 0
      BY <2>1, <3>1, <3>2
    <3>4. Filled(k) = 0
      BY <3>1, <3>3, FilledIs
    <3> HIDE DEF f
    <3> QED BY <3>1, <3>4, EmptySeq DEF f
  <2> QED BY <2>1, <2>2 DEF Init, TypeOK, Texts, Nothing, Chars
<1>2. TypeOK /\ [Next]_vars => TypeOK'
  <2> SUFFICES ASSUME TypeOK, [Next]_vars PROVE TypeOK'
    OBVIOUS
  <2>1. ASSUME NEW new \in {"", "blank", "filled"}, ChangeNome(new) PROVE TypeOK'
    BY <2>1 DEF TypeOK, ChangeNome, Texts
  <2>2. ASSUME NEW new \in {"", "bad", "good"}, ChangeEmail(new) PROVE TypeOK'
    BY <2>2 DEF TypeOK, ChangeEmail, Texts
  <2>3. ASSUME NEW new \in {"", "filled"}, ChangeSenha(new) PROVE TypeOK'
    BY <2>3 DEF TypeOK, ChangeSenha, Texts
  <2>4. ASSUME NEW i \in 0..Len(telefone), NEW k \in 0..1, NEW s \in Seq(Chars),
               ChangeTelefone(i, k, s)
        PROVE TypeOK'
    <3>1. telefone' \in Seq(Chars) /\ telefone' = formattedNumber(telefone')
      BY <2>4, StepPhone
    <3> QED BY <2>4, <3>1 DEF TypeOK, ChangeTelefone, labels, Chars
  <2>5. CASE Cadastrar
    BY <2>5 DEF TypeOK, Cadastrar, Texts
  <2>6. CASE UNCHANGED vars
    BY <2>6 DEF TypeOK, vars
  <2>7. ASSUME NEW i \in 0..Len(telefone), NEW d \in Digits, ChangeTelefone(i, 0, <<d>>)
        PROVE TypeOK'
    <3>1. <<d>> \in Seq(Chars)
      BY DEF Chars
    <3>2. 0 \in 0..1
      OBVIOUS
    <3> QED BY <2>4, <2>7, <3>1, <3>2
  <2>8. ASSUME NEW i \in 0..Len(telefone), i > 0, ChangeTelefone(i - 1, 1, <<>>)
        PROVE TypeOK'
    <3>1. <<>> \in Seq(Chars)
      OBVIOUS
    <3>2. telefone \in Seq(Chars)
      BY DEF TypeOK, Chars
    <3>3. Len(telefone) \in Nat
      BY <3>2
    <3>4. i - 1 \in 0..Len(telefone) /\ 1 \in 0..1
      BY <2>8, <3>3
    <3> QED BY <2>4, <2>8, <3>1, <3>4
  <2> QED BY <2>1, <2>2, <2>3, <2>5, <2>6, <2>7, <2>8 DEF Next
<1> QED BY <1>1, <1>2, PTL DEF Spec

\* Backspace at the end of the number takes one digit away, whatever was typed, inserted
\* and deleted before: the mask never ends with a character that comes back
\* (formattedNumber lines 29-46).
THEOREM BackspaceWorks == Spec => []BackspaceDeletes
<1>1. TypeOK => BackspaceDeletes
  <2> DEFINE f == telefone
             k == KeptOf(CleanNumber(f))
             n == Len(f)
             p == SubSeq(f, 1, n - 1)
  <2> SUFFICES ASSUME TypeOK, f # <<>>
               PROVE  Len(CleanNumber(formattedNumber(p))) + 1 = Len(CleanNumber(f))
    BY DEF BackspaceDeletes
  <2>1. f \in Seq(Chars) /\ f = formattedNumber(f) /\ n \in Nat /\ n # 0
    <3>1. f \in Seq(Chars) /\ f = formattedNumber(f)
      BY DEF TypeOK, Chars
    <3> HIDE DEF f
    <3>2. f # <<>>
      BY DEF f
    <3> QED BY <3>1, <3>2, EmptySeq
  <2>2. k \in 0..11 /\ n = Filled(k)
    BY <2>1, FormatIs
  <2>3. Len(CleanNumber(f)) = k
    BY <2>1, CleanOfFormat
  <2> HIDE DEF f, k, n
  <2>4. k > 0
    BY <2>1, <2>2, FilledIs
  <2>5. Slots(n - 1) = k - 1
    BY <2>2, <2>4, FilledIs
  <2>6. n - 1 \in 0..n
    BY <2>1
  <2>7. CleanNumber(p) = Cleaned(f)[n - 1]
    BY <2>1, <2>6, CleanFront DEF n
  <2>8. Len(Cleaned(f)[n - 1]) = Slots(n - 1)
    BY <2>1, <2>6, DigitsOfFormat DEF n
  <2>9. Len(CleanNumber(p)) = k - 1
    BY <2>5, <2>7, <2>8
  <2>10. Len(p) \in Nat
    <3>1. \A i \in 1..(n - 1) : f[i] \in Chars
      BY <2>1, ElementOfSeq DEF n
    <3>2. p \in Seq(Chars)
      BY <2>1, <3>1, SubSeqProperties
    <3> QED BY <3>2
  <2> HIDE DEF p
  <2>11. Len(CleanNumber(formattedNumber(p))) = KeptOf(CleanNumber(p))
    BY <2>10, CleanOfFormat
  <2>12. KeptOf(CleanNumber(p)) = k - 1
    BY <2>2, <2>4, <2>9, KeptIs
  <2> QED BY <2>2, <2>3, <2>11, <2>12 DEF f, n, p
<1> QED BY <1>1, TypeCorrect, PTL
=============================================================================

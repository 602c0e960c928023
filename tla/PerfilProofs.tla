---------------------------- MODULE PerfilProofs ----------------------------
(***************************************************************************)
(* TypeOK, KeptApart, NameKept and PictureKept hold in every behaviour of    *)
(* module Perfil, for any users, texts and bounds.  KeptApart is not         *)
(* inductive: it needs that the screens belong to the session and hold only  *)
(* what its user entered.  Nor are the other two: they need what is under    *)
(* way, and what the profile shows, at every moment before (KeptInv).        *)
(***************************************************************************)
EXTENDS Perfil, SequenceTheorems, TLAPS

\* Without removes one element and keeps the others in their order (Perfil, CommitAnswer).
LEMMA WithoutType ==
    ASSUME NEW S, NEW s \in Seq(S), NEW i \in DOMAIN s
    PROVE  /\ Without(s, i) \in Seq(S)
           /\ Len(Without(s, i)) = Len(s) - 1
           /\ \A k \in 1..(Len(s) - 1) : Without(s, i)[k] = IF k < i THEN s[k] ELSE s[k + 1]
           /\ \A k \in DOMAIN Without(s, i) : \E j \in DOMAIN s : Without(s, i)[k] = s[j]
<1>1. i \in 1..Len(s)
  OBVIOUS
<1> DEFINE a == SubSeq(s, 1, i - 1)
           b == SubSeq(s, i + 1, Len(s))
<1>2. a \in Seq(S) /\ Len(a) = i - 1 /\ \A k \in 1..(i - 1) : a[k] = s[k]
  BY <1>1, SubSeqProperties
<1>3. b \in Seq(S) /\ Len(b) = Len(s) - i /\ \A k \in 1..(Len(s) - i) : b[k] = s[i + k]
  BY <1>1, SubSeqProperties
<1>4. Without(s, i) = a \o b
  BY DEF Without
<1> HIDE DEF a, b
<1>5. /\ a \o b \in Seq(S) /\ Len(a \o b) = Len(s) - 1
      /\ \A k \in 1..(Len(s) - 1) : (a \o b)[k] = IF k <= i - 1 THEN a[k] ELSE b[k - (i - 1)]
  <2>1. a \o b \in Seq(S) /\ Len(a \o b) = Len(a) + Len(b)
    BY <1>2, <1>3, ConcatProperties
  <2>2. \A k \in 1..(Len(a) + Len(b)) : (a \o b)[k] = IF k <= Len(a) THEN a[k] ELSE b[k - Len(a)]
    BY <1>2, <1>3, ConcatProperties
  <2>3. Len(a) + Len(b) = Len(s) - 1
    BY <1>1, <1>2, <1>3
  <2> QED BY <1>2, <2>1, <2>2, <2>3
<1>6. ASSUME NEW k \in 1..(Len(s) - 1)
      PROVE  /\ (a \o b)[k] = IF k < i THEN s[k] ELSE s[k + 1]
             /\ \E j \in DOMAIN s : (a \o b)[k] = s[j]
  <2>1. CASE k < i
    <3>1. (a \o b)[k] = s[k] /\ k \in DOMAIN s
      BY <1>1, <1>2, <1>5, <2>1
    <3> QED BY <2>1, <3>1
  <2>2. CASE ~(k < i)
    <3>1. k - (i - 1) \in 1..(Len(s) - i) /\ i + (k - (i - 1)) = k + 1 /\ k + 1 \in DOMAIN s
      BY <1>1, <2>2
    <3>2. (a \o b)[k] = s[k + 1]
      BY <1>1, <1>3, <1>5, <2>2, <3>1
    <3> QED BY <2>2, <3>1, <3>2
  <2> QED BY <2>1, <2>2
<1>7. DOMAIN (a \o b) = 1..(Len(s) - 1)
  BY <1>5
<1> QED BY <1>4, <1>5, <1>6, <1>7

-----------------------------------------------------------------------------
(* Types.                                                                   *)

\* The initial values have their types.
LEMMA InitType == Init => TypeOK
<1> SUFFICES ASSUME Init PROVE TypeOK
  OBVIOUS
<1>1. form \in Forms
  BY DEF Init, NoForm, Forms, Phones
<1>2. /\ commits \in [Users -> Seq([name : Values, object : 0..MaxObjects])]
      /\ object \in 0..MaxObjects
  BY ProfileAssumption, EmptySeq DEF Init
<1>3. last \in [Users -> [name : Values \cup {None}, picture : Values \cup {ProfilePic, None}]]
  BY DEF Init
<1> QED BY <1>1, <1>2, <1>3 DEF Init, TypeOK

\* Every action keeps the types.
LEMMA StepType == TypeOK /\ [Next]_vars => TypeOK'
<1> SUFFICES ASSUME TypeOK, [Next]_vars PROVE TypeOK'
  OBVIOUS
<1> USE ProfileAssumption
<1>1. CASE UNCHANGED vars
  BY <1>1 DEF TypeOK, vars, backend, auth, writes, view, history
<1>2. ASSUME NEW u \in Users, NEW t \in Texts, SignUp(u, t) PROVE TypeOK'
  BY <1>2 DEF TypeOK, SignUp, backend, writes, view, history
<1>3. ASSUME NEW u \in Users, NEW phone \in {u, None}, SignUpDone(u, phone) PROVE TypeOK'
  <2> DEFINE entered == [by |-> u, n |-> signup[u]]
  <2>1. entered \in Values /\ phone \in Phones
    BY <1>3 DEF TypeOK, SignUpDone, Values, Phones
  <2>2. object + 1 \in 0..MaxObjects
    BY <1>3 DEF TypeOK, SignUpDone, SignedIn
  <2>3. [name |-> entered, object |-> object + 1] \in [name : Values, object : 0..MaxObjects]
    BY <2>1, <2>2
  <2> HIDE DEF entered
  <2>4. Append(commits[u], [name |-> entered, object |-> object + 1])
          \in Seq([name : Values, object : 0..MaxObjects])
    BY <2>3, AppendProperties DEF TypeOK
  <2>5. commits' \in [Users -> Seq([name : Values, object : 0..MaxObjects])]
    BY <1>3, <2>4 DEF TypeOK, SignUpDone, entered
  <2>6. /\ uploads' \in [Users -> SUBSET (Values \cup {ProfilePic})]
        /\ last' \in [Users -> [name : Values \cup {None},
                               picture : Values \cup {ProfilePic, None}]]
    BY <1>3, <2>1 DEF TypeOK, SignUpDone, entered
  <2>7. /\ telefones' \in [Users -> [phone : Phones, console : BOOLEAN] \cup {None}]
        /\ signup' \in [Users -> Texts \cup {None}]
    BY <1>3, <2>1 DEF TypeOK, SignUpDone
  <2>8. /\ account' \subseteq Users
        /\ session' \in account' \cup {None} /\ object' \in 0..MaxObjects
        /\ displayName' \in Values \cup {None}
        /\ late' \in BOOLEAN /\ session' # None
    BY <1>3, <2>2 DEF TypeOK, SignUpDone, SignedIn
  <2> QED BY <1>3, <2>5, <2>6, <2>7, <2>8 DEF TypeOK, SignUpDone, view
<1>4. ASSUME NEW u \in Users, NEW created \in BOOLEAN, SignUpError(u, created) PROVE TypeOK'
  BY <1>4 DEF TypeOK, SignUpError, backend, writes, view
<1>5. ASSUME NEW u \in Users, Login(u) PROVE TypeOK'
  <2>1. /\ object' \in 0..MaxObjects
        /\ displayName' \in Values \cup {None}
        /\ session' \in account \cup {None} /\ session' # None
    BY <1>5 DEF TypeOK, Login, SignedIn
  <2>2. calm' \in BOOLEAN
    BY <1>5 DEF TypeOK, Login
  <2> QED BY <1>5, <2>1, <2>2 DEF TypeOK, Login, backend, writes
<1>6. CASE ButtonLogout
  BY <1>6 DEF TypeOK, ButtonLogout, Closed, NoForm, Forms, Phones, backend, writes, history
<1>7. CASE Relaunch
  <2>1. /\ session' \in account \cup {None} /\ object' \in 0..MaxObjects
        /\ displayName' \in Values \cup {None} /\ session' = session
    BY <1>7 DEF TypeOK, Relaunch, SignedIn
  <2>2. form' \in Forms
    BY <1>7 DEF Relaunch, Closed, NoForm, Forms, Phones
  <2>3. calm' \in BOOLEAN
    BY <1>7 DEF TypeOK, Relaunch
  <2>4. /\ commits' \in [Users -> Seq([name : Values, object : 0..MaxObjects])]
        /\ uploads' \in [Users -> SUBSET (Values \cup {ProfilePic})]
        /\ signup' \in [Users -> Texts \cup {None}]
    BY <1>7, EmptySeq DEF Relaunch
  <2>5. screen' \in {"login", "tabs"} /\ owner' = session /\ (screen' # "login" => session # None)
    BY <1>7 DEF Relaunch
  <2> QED BY <1>7, <2>1, <2>2, <2>3, <2>4, <2>5 DEF TypeOK, Relaunch, Closed, backend
<1>8. ASSUME NEW u \in Users, NEW i \in Heads(u), NEW outcome \in {"done", "failed", "lost"},
             CommitAnswer(u, i, outcome)
      PROVE TypeOK'
  <2>1. i \in DOMAIN commits[u] /\ commits[u] \in Seq([name : Values, object : 0..MaxObjects])
    BY DEF Heads, TypeOK
  <2>2. Without(commits[u], i) \in Seq([name : Values, object : 0..MaxObjects])
    BY <2>1, WithoutType
  <2>3. commits[u][i] \in [name : Values, object : 0..MaxObjects]
    <3>1. i \in 1..Len(commits[u])
      BY <2>1
    <3> QED BY <2>1, <3>1, ElementOfSeq
  <2>4. commits' \in [Users -> Seq([name : Values, object : 0..MaxObjects])]
    BY <1>8, <2>2 DEF TypeOK, CommitAnswer
  <2>5. names' \in [Users -> Values \cup {None}] /\ displayName' \in Values \cup {None}
    BY <1>8, <2>3 DEF TypeOK, CommitAnswer
  <2> QED BY <1>8, <2>4, <2>5 DEF TypeOK, CommitAnswer, view
<1>9. ASSUME NEW u \in Users, NEW p \in uploads[u], NEW ok \in BOOLEAN, UploadAnswer(u, p, ok)
      PROVE TypeOK'
  BY <1>9 DEF TypeOK, UploadAnswer, auth, view
<1>10. CASE ViewDidLoad
  BY <1>10 DEF TypeOK, ViewDidLoad, NoForm, Forms, Phones, backend, auth, writes
<1>11. ASSUME NEW ok \in BOOLEAN, PhoneAnswer(ok) PROVE TypeOK'
  <2>1. form' \in Forms
    BY <1>11 DEF TypeOK, PhoneAnswer, Forms
  <2> QED BY <1>11, <2>1 DEF TypeOK, PhoneAnswer, backend, auth, writes, history
<1>12. ASSUME NEW ok \in BOOLEAN, ImageAnswer(ok) PROVE TypeOK'
  <2>1. form' \in Forms
    BY <1>12 DEF TypeOK, ImageAnswer, Forms
  <2> QED BY <1>12, <2>1 DEF TypeOK, ImageAnswer, backend, auth, writes
<1>13. CASE PressEditar
  BY <1>13 DEF TypeOK, PressEditar, backend, auth, writes, history
<1>14. ASSUME NEW f \in Forms, Edited(f) PROVE TypeOK'
  BY <1>14 DEF TypeOK, Edited, backend, auth, writes, history
<1>15. CASE SalvarRefused
  BY <1>15 DEF TypeOK, SalvarRefused, backend, auth, writes, history
<1>16. CASE Salvar
  <2>1. session \in Users /\ form.name \in Values /\ form.phone \in Phones
    BY <1>16 DEF TypeOK, Salvar, checkFields, Forms
  <2>2. [name |-> form.name, object |-> object] \in [name : Values, object : 0..MaxObjects]
    BY <2>1 DEF TypeOK
  <2>3. Append(commits[session], [name |-> form.name, object |-> object])
          \in Seq([name : Values, object : 0..MaxObjects])
    BY <2>1, <2>2, AppendProperties DEF TypeOK
  <2>4. commits' \in [Users -> Seq([name : Values, object : 0..MaxObjects])]
    BY <1>16, <2>1, <2>3 DEF TypeOK, Salvar
  <2>5. uploads' \in [Users -> SUBSET (Values \cup {ProfilePic})]
    BY <1>16, <2>1 DEF TypeOK, Salvar, Forms
  <2>6. /\ telefones' \in [Users -> [phone : Phones, console : BOOLEAN] \cup {None}]
        /\ calm' \in BOOLEAN
    BY <1>16, <2>1 DEF TypeOK, Salvar
  <2>7. last' \in [Users -> [name : Values \cup {None}, picture : Values \cup {ProfilePic, None}]]
    BY <1>16, <2>1 DEF TypeOK, Salvar, Forms
  <2> QED BY <1>16, <2>4, <2>5, <2>6, <2>7 DEF TypeOK, Salvar, auth
<1>17. ASSUME Screen PROVE TypeOK'
  <2>1. screen = "perfil" => owner \in Users
    BY DEF TypeOK
  <2>2. ASSUME NEW t \in Texts, screen = "perfil" PROVE [by |-> owner, n |-> t] \in Values
    BY <2>1, <2>2 DEF Values
  <2>3. ASSUME NEW v \in Values \cup {Empty}, TypeName(v) PROVE TypeOK'
    BY <1>14, <2>3 DEF TypeName, Forms, TypeOK
  <2>4. ASSUME NEW p \in Phones, TypePhone(p) PROVE TypeOK'
    BY <1>14, <2>4 DEF TypePhone, Forms, TypeOK
  <2>5. ASSUME NEW t \in Texts, PickImage(t) PROVE TypeOK'
    <3>1. [by |-> owner, n |-> t] \in Values
      BY <2>2, <2>5 DEF PickImage, Edited
    <3> QED BY <1>14, <2>5, <3>1 DEF PickImage, Forms, TypeOK
  <2>6. ASSUME NEW t \in Texts, TypeName([by |-> owner, n |-> t]) PROVE TypeOK'
    BY <2>2, <2>3, <2>6 DEF TypeName, Edited
  <2>7. owner \in Phones /\ None \in Phones
    BY DEF TypeOK, Phones
  <2> QED BY <1>10, <1>11, <1>12, <1>13, <1>15, <1>16, <1>17, <2>3, <2>4, <2>5, <2>6, <2>7
          DEF Screen
<1> QED BY <1>1, <1>2, <1>3, <1>4, <1>5, <1>6, <1>7, <1>8, <1>9, <1>17 DEF Next, Session, Writing

\* Every variable keeps its type, and beyond Login there is always a session and an
\* owner of the screens (Perfil, all the actions).
THEOREM TypeCorrect == Spec => []TypeOK
<1> QED BY InitType, StepType, PTL DEF Spec

-----------------------------------------------------------------------------
(* The profiles of two users.                                               *)

\* Until an account is created behind somebody's back, the screens are those of the
\* session, and they and the user object hold nothing another user entered.
ScreensOwned ==
    ~late =>
        /\ screen # "login" => owner = session
        /\ phoneAsked # None => screen = "perfil" /\ phoneAsked = owner
        /\ imageAsked # None => screen = "perfil" /\ imageAsked = owner
        /\ Of(session, displayName)
        /\ screen = "perfil" => /\ Of(session, form.name) /\ Of(session, form.picture)
                                /\ form.phone \in {session, None}

Apart == TypeOK /\ ScreensOwned /\ KeptApart

\* A commit added to those of a user (SignUpDone and Salvar).
LEMMA AppendOf ==
    ASSUME NEW S, NEW s \in Seq(S), NEW c, NEW u, Of(u, c.name),
           \A i \in DOMAIN s : Of(u, s[i].name)
    PROVE  \A i \in DOMAIN Append(s, c) : Of(u, Append(s, c)[i].name)
<1>1. DOMAIN Append(s, c) = 1..(Len(s) + 1) /\ DOMAIN s = 1..Len(s)
  OBVIOUS
<1>2. \A i \in 1..(Len(s) + 1) : Append(s, c)[i] = IF i = Len(s) + 1 THEN c ELSE s[i]
  OBVIOUS
<1>3. ASSUME NEW i \in 1..(Len(s) + 1) PROVE Of(u, Append(s, c)[i].name)
  <2>1. CASE i = Len(s) + 1
    BY <1>2, <2>1
  <2>2. CASE i # Len(s) + 1
    <3>1. i \in DOMAIN s /\ Append(s, c)[i] = s[i]
      BY <1>1, <1>2, <2>2
    <3> QED BY <3>1
  <2> QED BY <2>1, <2>2
<1> QED BY <1>1, <1>3

\* The screens stay those of the session (Login, Relaunch, ButtonLogout, and SignUpDone,
\* which changes the session without them).
LEMMA ScreensStep == Apart /\ TypeOK' /\ [Next]_vars => ScreensOwned'
<1> SUFFICES ASSUME Apart, TypeOK', [Next]_vars, ~late' PROVE ScreensOwned'
  BY DEF ScreensOwned
<1> USE ProfileAssumption
<1>1. CASE UNCHANGED vars
  BY <1>1 DEF Apart, ScreensOwned, Of, vars, auth, view, history
<1>2. ASSUME NEW u \in Users, NEW t \in Texts, SignUp(u, t) PROVE ScreensOwned'
  BY <1>2 DEF Apart, ScreensOwned, Of, SignUp, view, history
<1>3. ASSUME NEW u \in Users, NEW phone \in {u, None}, SignUpDone(u, phone) PROVE ScreensOwned'
  BY <1>3 DEF Apart, ScreensOwned, Of, SignUpDone, SignedIn, view
<1>4. ASSUME NEW u \in Users, NEW created \in BOOLEAN, SignUpError(u, created) PROVE ScreensOwned'
  BY <1>4 DEF Apart, ScreensOwned, Of, SignUpError, view
<1>5. ASSUME NEW u \in Users, Login(u) PROVE ScreensOwned'
  <2>1. Of(u, names[u])
    BY <1>5 DEF Apart, KeptApart, Login
  <2> QED BY <1>5, <2>1 DEF Apart, ScreensOwned, Of, Login, SignedIn
<1>6. CASE ButtonLogout
  BY <1>6 DEF Apart, ScreensOwned, Of, ButtonLogout, Closed, NoForm, history
<1>7. CASE Relaunch
  <2>1. session' = session /\ displayName' = displayName
    BY <1>7 DEF Relaunch, SignedIn
  <2> QED BY <1>7, <2>1 DEF Apart, ScreensOwned, Of, Relaunch, Closed, NoForm
<1>8. ASSUME NEW u \in Users, NEW i \in Heads(u), NEW outcome \in {"done", "failed", "lost"},
             CommitAnswer(u, i, outcome)
      PROVE ScreensOwned'
  <2>1. Of(u, commits[u][i].name)
    BY <1>8 DEF Apart, KeptApart, CommitAnswer, Heads
  <2>2. Of(session, displayName')
    BY <1>8, <2>1 DEF Apart, ScreensOwned, CommitAnswer
  <2> QED BY <1>8, <2>2 DEF Apart, ScreensOwned, Of, CommitAnswer, view
<1>9. ASSUME NEW u \in Users, NEW p \in uploads[u], NEW ok \in BOOLEAN, UploadAnswer(u, p, ok)
      PROVE ScreensOwned'
  BY <1>9 DEF Apart, ScreensOwned, Of, UploadAnswer, auth, view
<1>10. CASE ViewDidLoad
  <2>1. Of(session, displayName) /\ owner = session
    BY <1>10 DEF Apart, ScreensOwned, ViewDidLoad
  <2> QED BY <1>10, <2>1 DEF Apart, ScreensOwned, Of, ViewDidLoad, NoForm, auth
<1>11. ASSUME NEW ok \in BOOLEAN, PhoneAnswer(ok) PROVE ScreensOwned'
  <2>1. phoneAsked = session /\ phoneAsked \in Users
    BY <1>11 DEF Apart, TypeOK, ScreensOwned, PhoneAnswer, history
  <2>2. telefones[session] # None => telefones[session].phone \in {session, None}
    BY <1>11, <2>1 DEF Apart, KeptApart, PhoneAnswer, history
  <2>3. form \in Forms
    BY DEF Apart, TypeOK
  <2>4. /\ form'.name = form.name /\ form'.picture = form.picture
        /\ form'.phone \in {form.phone, session, None}
    BY <1>11, <2>1, <2>2, <2>3 DEF PhoneAnswer, Forms
  <2> QED BY <1>11, <2>4 DEF Apart, ScreensOwned, Of, PhoneAnswer, auth, history
<1>12. ASSUME NEW ok \in BOOLEAN, ImageAnswer(ok) PROVE ScreensOwned'
  <2>1. imageAsked = session /\ imageAsked \in Users /\ screen = "perfil" /\ owner = session
    BY <1>12 DEF Apart, TypeOK, ScreensOwned, ImageAnswer
  <2>2. Of(session, pictures[session])
    BY <1>12, <2>1 DEF Apart, KeptApart, ImageAnswer
  <2>3. form \in Forms
    BY DEF Apart, TypeOK
  <2>4. /\ form'.name = form.name /\ form'.phone = form.phone
        /\ form'.picture \in {form.picture, pictures[session]}
    BY <1>12, <2>1, <2>3 DEF ImageAnswer, Forms
  <2>5. Of(session, form.picture)
    BY <1>12, <2>1 DEF Apart, ScreensOwned, ImageAnswer
  <2>6. Of(session, form'.picture)
    BY <2>2, <2>4, <2>5
  <2> QED BY <1>12, <2>4, <2>6 DEF Apart, ScreensOwned, Of, ImageAnswer, auth
<1>13. CASE PressEditar
  BY <1>13 DEF Apart, ScreensOwned, Of, PressEditar, auth, history
<1>14. ASSUME NEW f, Edited(f), Of(session, f.name), Of(session, f.picture),
              f.phone \in {session, None}
       PROVE ScreensOwned'
  BY <1>14 DEF Apart, ScreensOwned, Of, Edited, auth, history
<1>15. CASE SalvarRefused
  BY <1>15 DEF Apart, ScreensOwned, Of, SalvarRefused, auth, history
<1>16. CASE Salvar
  BY <1>16 DEF Apart, ScreensOwned, Of, Salvar, auth
<1>17. ASSUME Screen PROVE ScreensOwned'
  <2>1. form \in Forms
    BY DEF Apart, TypeOK
  <2>2. ASSUME NEW f, Edited(f)
        PROVE  /\ owner = session
               /\ Of(session, form.name) /\ Of(session, form.picture)
               /\ form.phone \in {session, None}
    BY <2>2 DEF Apart, ScreensOwned, Edited, history
  <2>3. ASSUME NEW v, TypeName(v), Of(owner, v) PROVE ScreensOwned'
    <3> DEFINE f == [form EXCEPT !.name = v]
    <3>1. f.name = v /\ f.phone = form.phone /\ f.picture = form.picture
      BY <2>1 DEF Forms
    <3>2. Edited(f)
      BY <2>3 DEF TypeName
    <3> HIDE DEF f
    <3> QED BY <1>14, <2>2, <2>3, <3>1, <3>2
  <2>4. ASSUME NEW p \in {owner, None}, TypePhone(p) PROVE ScreensOwned'
    <3> DEFINE f == [form EXCEPT !.phone = p]
    <3>1. f.name = form.name /\ f.phone = p /\ f.picture = form.picture
      BY <2>1 DEF Forms
    <3>2. Edited(f)
      BY <2>4 DEF TypePhone
    <3> HIDE DEF f
    <3> QED BY <1>14, <2>2, <3>1, <3>2
  <2>5. ASSUME NEW t \in Texts, PickImage(t) PROVE ScreensOwned'
    <3> DEFINE f == [form EXCEPT !.picture = [by |-> owner, n |-> t], !.picked = TRUE]
    <3>1. f.name = form.name /\ f.phone = form.phone /\ f.picture.by = owner
      BY <2>1 DEF Forms
    <3>2. Edited(f)
      BY <2>5 DEF PickImage
    <3>3. Of(owner, f.picture)
      BY <3>1 DEF Of
    <3> HIDE DEF f
    <3> QED BY <1>14, <2>2, <3>1, <3>2, <3>3
  <2>6. Of(owner, Empty) /\ \A t \in Texts : Of(owner, [by |-> owner, n |-> t])
    BY DEF Of
  <2> QED BY <1>10, <1>11, <1>12, <1>13, <1>15, <1>16, <1>17, <2>3, <2>4, <2>5, <2>6 DEF Screen
<1> QED BY <1>1, <1>2, <1>3, <1>4, <1>5, <1>6, <1>7, <1>8, <1>9, <1>17 DEF Next, Session, Writing

\* No write gets a value of another user (SignUpDone, Salvar), none is made for another
\* one (CommitAnswer, UploadAnswer).
LEMMA ApartStep == Apart /\ TypeOK' /\ [Next]_vars => KeptApart'
<1> SUFFICES ASSUME Apart, TypeOK', [Next]_vars, ~late' PROVE KeptApart'
  BY DEF KeptApart
<1> USE ProfileAssumption
<1>0. ASSUME UNCHANGED <<backend, commits, uploads>>, UNCHANGED late PROVE KeptApart'
  BY <1>0 DEF Apart, KeptApart, Of, backend
<1>1. CASE UNCHANGED vars
  BY <1>0, <1>1 DEF vars, writes, history
<1>2. ASSUME NEW u \in Users, NEW t \in Texts, SignUp(u, t) PROVE KeptApart'
  BY <1>0, <1>2 DEF SignUp, writes, history
<1>3. ASSUME NEW u \in Users, NEW phone \in {u, None}, SignUpDone(u, phone) PROVE KeptApart'
  <2> DEFINE entered == [by |-> u, n |-> signup[u]]
             c == [name |-> entered, object |-> object + 1]
  <2>1. Of(u, entered) /\ Of(u, c.name)
    BY DEF Of
  <2>2. /\ ~late
        /\ telefones' = [telefones EXCEPT ![u] = [phone |-> phone, console |-> TRUE]]
        /\ commits' = [commits EXCEPT ![u] = Append(@, c)]
        /\ uploads' = [uploads EXCEPT ![u] = @ \cup {entered}]
        /\ names' = names /\ pictures' = pictures
    BY <1>3 DEF SignUpDone
  <2> HIDE DEF c, entered
  <2>3. ASSUME NEW x \in Users PROVE telefones'[x] # None => telefones'[x].phone \in {x, None}
    BY <2>2 DEF Apart, TypeOK, KeptApart
  <2>4. ASSUME NEW x \in Users PROVE Of(x, names'[x]) /\ Of(x, pictures'[x])
    BY <2>2 DEF Apart, KeptApart
  <2>5. ASSUME NEW x \in Users PROVE \A i \in DOMAIN commits'[x] : Of(x, commits'[x][i].name)
    <3>1. commits[x] \in Seq([name : Values, object : 0..MaxObjects])
      BY DEF Apart, TypeOK
    <3>2. \A i \in DOMAIN commits[x] : Of(x, commits[x][i].name)
      BY <2>2 DEF Apart, KeptApart
    <3>3. commits'[x] = IF x = u THEN Append(commits[x], c) ELSE commits[x]
      BY <2>2 DEF Apart, TypeOK
    <3>4. ASSUME x = u
          PROVE \A i \in DOMAIN Append(commits[x], c) : Of(x, Append(commits[x], c)[i].name)
      BY <2>1, <3>1, <3>2, <3>4, AppendOf
    <3> QED BY <3>2, <3>3, <3>4
  <2>6. ASSUME NEW x \in Users PROVE \A p \in uploads'[x] : Of(x, p)
    BY <2>1, <2>2 DEF Apart, TypeOK, KeptApart
  <2> QED BY <2>3, <2>4, <2>5, <2>6 DEF KeptApart
<1>4. ASSUME NEW u \in Users, NEW created \in BOOLEAN, SignUpError(u, created) PROVE KeptApart'
  BY <1>0, <1>4 DEF SignUpError, writes
<1>5. ASSUME NEW u \in Users, Login(u) PROVE KeptApart'
  BY <1>0, <1>5 DEF Login, writes
<1>6. CASE ButtonLogout
  BY <1>0, <1>6 DEF ButtonLogout, writes, history
<1>7. CASE Relaunch
  BY <1>7 DEF Apart, KeptApart, Relaunch, backend
<1>8. ASSUME NEW u \in Users, NEW i \in Heads(u), NEW outcome \in {"done", "failed", "lost"},
             CommitAnswer(u, i, outcome)
      PROVE KeptApart'
  <2>1. ~late /\ i \in DOMAIN commits[u]
    BY <1>8 DEF CommitAnswer, Heads
  <2>2. commits[u] \in Seq([name : Values, object : 0..MaxObjects])
    BY DEF Apart, TypeOK
  <2>3. Of(u, commits[u][i].name)
    BY <2>1 DEF Apart, KeptApart
  <2>4. \A k \in DOMAIN Without(commits[u], i) :
            \E j \in DOMAIN commits[u] : Without(commits[u], i)[k] = commits[u][j]
    BY <2>1, <2>2, WithoutType
  <2>5. \A k \in DOMAIN Without(commits[u], i) : Of(u, Without(commits[u], i)[k].name)
    BY <2>1, <2>4 DEF Apart, KeptApart
  <2>6. \A x \in Users : Of(x, names'[x])
    BY <1>8, <2>1, <2>3 DEF Apart, TypeOK, KeptApart, CommitAnswer
  <2>7. ASSUME NEW x \in Users PROVE \A k \in DOMAIN commits'[x] : Of(x, commits'[x][k].name)
    <3>1. commits'[x] = IF x = u THEN Without(commits[u], i) ELSE commits[x]
      BY <1>8 DEF Apart, TypeOK, CommitAnswer
    <3>2. \A k \in DOMAIN commits[x] : Of(x, commits[x][k].name)
      BY <2>1 DEF Apart, KeptApart
    <3> QED BY <2>5, <3>1, <3>2
  <2>8. telefones' = telefones /\ pictures' = pictures /\ uploads' = uploads
    BY <1>8 DEF CommitAnswer
  <2> QED BY <2>1, <2>6, <2>7, <2>8 DEF Apart, KeptApart
<1>9. ASSUME NEW u \in Users, NEW p \in uploads[u], NEW ok \in BOOLEAN, UploadAnswer(u, p, ok)
      PROVE KeptApart'
  <2>1. /\ ~late /\ Of(u, p)
        /\ telefones' = telefones /\ names' = names /\ commits' = commits
    BY <1>9 DEF Apart, KeptApart, UploadAnswer
  <2>2. \A x \in Users : Of(x, pictures'[x])
    BY <1>9, <2>1 DEF Apart, TypeOK, KeptApart, UploadAnswer
  <2>3. \A x \in Users : uploads'[x] \subseteq uploads[x]
    BY <1>9 DEF Apart, TypeOK, UploadAnswer
  <2> QED BY <2>1, <2>2, <2>3 DEF Apart, KeptApart
<1>10. CASE ViewDidLoad
  BY <1>0, <1>10 DEF ViewDidLoad, writes
<1>11. ASSUME NEW ok \in BOOLEAN, PhoneAnswer(ok) PROVE KeptApart'
  BY <1>0, <1>11 DEF PhoneAnswer, writes, history
<1>12. ASSUME NEW ok \in BOOLEAN, ImageAnswer(ok) PROVE KeptApart'
  BY <1>0, <1>12 DEF ImageAnswer, writes
<1>13. CASE PressEditar
  BY <1>0, <1>13 DEF PressEditar, writes, history
<1>14. ASSUME NEW f, Edited(f) PROVE KeptApart'
  BY <1>0, <1>14 DEF Edited, writes, history
<1>15. CASE SalvarRefused
  BY <1>0, <1>15 DEF SalvarRefused, writes, history
<1>16. CASE Salvar
  <2> DEFINE c == [name |-> form.name, object |-> object]
  <2>1. /\ ~late /\ session \in Users
        /\ telefones' = [telefones EXCEPT ![session] = [phone |-> form.phone, console |-> FALSE]]
        /\ commits' = [commits EXCEPT ![session] = Append(@, c)]
        /\ uploads' = [uploads EXCEPT ![session] = @ \cup {form.picture}]
        /\ names' = names /\ pictures' = pictures
    BY <1>16 DEF Apart, TypeOK, Salvar
  <2>2. /\ Of(session, c.name) /\ Of(session, form.picture)
        /\ form.phone \in {session, None}
    BY <1>16, <2>1 DEF Apart, ScreensOwned, Salvar
  <2> HIDE DEF c
  <2>3. ASSUME NEW x \in Users PROVE telefones'[x] # None => telefones'[x].phone \in {x, None}
    BY <2>1, <2>2 DEF Apart, TypeOK, KeptApart
  <2>4. ASSUME NEW x \in Users PROVE Of(x, names'[x]) /\ Of(x, pictures'[x])
    BY <2>1 DEF Apart, KeptApart
  <2>5. ASSUME NEW x \in Users PROVE \A i \in DOMAIN commits'[x] : Of(x, commits'[x][i].name)
    <3>1. commits[x] \in Seq([name : Values, object : 0..MaxObjects])
      BY DEF Apart, TypeOK
    <3>2. \A i \in DOMAIN commits[x] : Of(x, commits[x][i].name)
      BY <2>1 DEF Apart, KeptApart
    <3>3. commits'[x] = IF x = session THEN Append(commits[x], c) ELSE commits[x]
      BY <2>1 DEF Apart, TypeOK
    <3>4. ASSUME x = session
          PROVE \A i \in DOMAIN Append(commits[x], c) : Of(x, Append(commits[x], c)[i].name)
      BY <2>2, <3>1, <3>2, <3>4, AppendOf
    <3> QED BY <3>2, <3>3, <3>4
  <2>6. ASSUME NEW x \in Users PROVE \A p \in uploads'[x] : Of(x, p)
    BY <2>1, <2>2 DEF Apart, TypeOK, KeptApart
  <2> QED BY <2>3, <2>4, <2>5, <2>6 DEF KeptApart
<1>17. ASSUME Screen PROVE KeptApart'
  BY <1>10, <1>11, <1>12, <1>13, <1>14, <1>15, <1>16, <1>17
     DEF Screen, TypeName, TypePhone, PickImage
<1> QED BY <1>1, <1>2, <1>3, <1>4, <1>5, <1>6, <1>7, <1>8, <1>9, <1>17 DEF Next, Session, Writing

\* What two users enter on one phone is kept apart (SignUpDone, upload): the theorem says
\* so for any number of users, texts, sign-ins and writes under way.
THEOREM ProfilesApart == Spec => []KeptApart
<1>1. Init => Apart
  <2> SUFFICES ASSUME Init PROVE Apart
    OBVIOUS
  <2>1. TypeOK
    BY InitType
  <2>2. ScreensOwned
    BY DEF Init, ScreensOwned, Of
  <2>3. KeptApart
    BY DEF Init, KeptApart, Of
  <2> QED BY <2>1, <2>2, <2>3 DEF Apart
<1>2. Apart /\ [Next]_vars => Apart'
  BY StepType, ScreensStep, ApartStep DEF Apart
<1>3. Apart => KeptApart
  BY DEF Apart
<1> QED BY <1>1, <1>2, <1>3, PTL DEF Spec
-----------------------------------------------------------------------------
(* The name and the picture of a profile.                                   *)
(*                                                                          *)
(* Neither NameKept nor PictureKept is inductive: both speak of the moment    *)
(* when nothing is under way.  Before it, the last commit of a user carries   *)
(* the last name, all commits come from the user object of the session, so    *)
(* that they end in their order, and the only picture under way is the last   *)
(* one chosen, which the profile shows whenever it can be saved.              *)

\* Commits and uploads are those of accounts, and no account is created twice.
Fresh ==
    \A u \in Users : /\ signup[u] # None => u \notin account
                     /\ u \notin account => Settled(u)

\* The loading view lies over the profile until its picture is answered.
Covered == imageAsked # None => overlay

\* The commits of a user share one user object, the one of the session if it is theirs.
OneObject ==
    \A u \in Users : \A i, j \in DOMAIN commits[u] :
        /\ commits[u][i].object = commits[u][j].object
        /\ session = u => commits[u][i].object = object

\* The last commit carries the last name.
LastName ==
    \A u \in Users :
        IF commits[u] = <<>> THEN names[u] = last[u].name
                             ELSE commits[u][Len(commits[u])].name = last[u].name

\* Every account was given a name and a picture, and the session knows the name.
Named ==
    /\ \A u \in account : last[u].name # None /\ last[u].picture # None
    /\ session # None /\ commits[session] = <<>> => displayName # None
    /\ screen = "perfil" => form.name # None

\* The only picture under way is the last one.
LastPicture ==
    \A u \in Users :
        /\ uploads[u] \subseteq {last[u].picture}
        /\ uploads[u] = {} /\ last[u].picture # None => pictures[u] = last[u].picture

\* What a save would send is the picture of the user, or a new one.
Shown ==
    screen = "perfil" =>
        /\ overlay => uploads[session] = {}
        /\ ~overlay /\ ~form.picked => form.picture = last[session].picture

NamesKept == OneObject /\ LastName /\ Named
PicturesKept == LastPicture /\ Shown

KeptInv == /\ Apart /\ Fresh /\ Covered
           /\ calm /\ ~late => NamesKept /\ PicturesKept

Commit == [name : Values, object : 0..MaxObjects]

\* The element of an index of a sequence of commits, and its length.
LEMMA CommitsOf ==
    ASSUME TypeOK, NEW u \in Users
    PROVE  /\ commits[u] \in Seq(Commit)
           /\ Len(commits[u]) \in Nat
           /\ DOMAIN commits[u] = 1..Len(commits[u])
           /\ commits[u] = <<>> <=> Len(commits[u]) = 0
           /\ \A i \in 1..Len(commits[u]) : commits[u][i] \in Commit
<1>1. commits[u] \in Seq(Commit)
  BY DEF TypeOK, Commit
<1> HIDE DEF Commit
<1>2. commits[u] = <<>> <=> Len(commits[u]) = 0
  BY <1>1, EmptySeq
<1>3. \A i \in 1..Len(commits[u]) : commits[u][i] \in Commit
  BY <1>1, ElementOfSeq
<1> QED BY <1>1, <1>2, <1>3

\* The histories calm and late never turn back.
LEMMA CalmPast == TypeOK /\ [Next]_vars => (calm' => calm) /\ (~late' => ~late)
<1> SUFFICES ASSUME TypeOK, [Next]_vars PROVE (calm' => calm) /\ (~late' => ~late)
  OBVIOUS
<1>1. ASSUME UNCHANGED <<calm, late>> PROVE (calm' => calm) /\ (~late' => ~late)
  BY <1>1
<1>2. CASE UNCHANGED vars
  BY <1>1, <1>2 DEF vars, history
<1>3. ASSUME NEW u \in Users, NEW phone \in {u, None}, SignUpDone(u, phone)
      PROVE (calm' => calm) /\ (~late' => ~late)
  BY <1>3 DEF SignUpDone
<1>4. ASSUME NEW u \in Users, NEW created \in BOOLEAN, SignUpError(u, created)
      PROVE (calm' => calm) /\ (~late' => ~late)
  BY <1>4 DEF SignUpError
<1>6. ASSUME NEW u \in Users, Login(u) PROVE (calm' => calm) /\ (~late' => ~late)
  BY <1>6 DEF Login
<1>7. CASE Relaunch
  BY <1>7 DEF Relaunch
<1>8. ASSUME NEW u \in Users, NEW i \in Heads(u), NEW outcome \in {"done", "failed", "lost"},
             CommitAnswer(u, i, outcome)
      PROVE (calm' => calm) /\ (~late' => ~late)
  BY <1>8 DEF CommitAnswer
<1>9. ASSUME NEW u \in Users, NEW p \in uploads[u], NEW ok \in BOOLEAN, UploadAnswer(u, p, ok)
      PROVE (calm' => calm) /\ (~late' => ~late)
  BY <1>9 DEF UploadAnswer
<1>10. CASE ButtonLogout \/ \E u \in Users, t \in Texts : SignUp(u, t)
  <2>1. UNCHANGED <<calm, late>>
    BY <1>10 DEF ButtonLogout, SignUp, history
  <2> QED BY <1>1, <2>1
<1>5. CASE Screen
  <2>1. CASE ViewDidLoad
    BY <2>1 DEF ViewDidLoad
  <2>2. CASE Salvar
    BY <2>2 DEF Salvar
  <2>3. CASE ~ViewDidLoad /\ ~Salvar
    <3>1. UNCHANGED <<calm, late>>
      BY <1>5, <2>3 DEF Screen, PhoneAnswer, ImageAnswer, PressEditar, TypeName, TypePhone,
                        PickImage, Edited, SalvarRefused, history
    <3> QED BY <1>1, <3>1
  <2> QED BY <2>1, <2>2, <2>3
<1> QED BY <1>2, <1>3, <1>4, <1>5, <1>6, <1>7, <1>8, <1>9, <1>10 DEF Next, Session, Writing

\* The loading view is hidden by an answer only (ViewDidLoad, ImageAnswer).
LEMMA CoveredStep == Covered /\ [Next]_vars => Covered'
<1> SUFFICES ASSUME Covered, [Next]_vars PROVE Covered'
  OBVIOUS
<1>1. CASE UNCHANGED vars
  BY <1>1 DEF Covered, vars, view
<1>2. CASE Session
  BY <1>2 DEF Covered, Session, SignUp, SignUpDone, SignUpError, Login, ButtonLogout, Relaunch,
              Closed, view
<1>3. CASE Writing
  BY <1>3 DEF Covered, Writing, CommitAnswer, UploadAnswer, view
<1>4. CASE Screen
  BY <1>4 DEF Covered, Screen, ViewDidLoad, PhoneAnswer, ImageAnswer, PressEditar, TypeName,
              TypePhone, PickImage, Edited, SalvarRefused, Salvar
<1> QED BY <1>1, <1>2, <1>3, <1>4 DEF Next

\* A user who has no account has nothing under way (SignUp, SignUpDone, Salvar).
LEMMA FreshStep == TypeOK /\ Fresh /\ [Next]_vars => Fresh'
<1> SUFFICES ASSUME TypeOK, Fresh, [Next]_vars PROVE Fresh'
  OBVIOUS
<1> USE ProfileAssumption
<1>0. ASSUME UNCHANGED <<account, signup, writes>> PROVE Fresh'
  BY <1>0 DEF Fresh, Settled, writes
<1>1. CASE UNCHANGED vars
  BY <1>0, <1>1 DEF vars, auth
<1>2. ASSUME NEW u \in Users, NEW t \in Texts, SignUp(u, t) PROVE Fresh'
  BY <1>2 DEF TypeOK, Fresh, Settled, SignUp, writes
<1>3. ASSUME NEW u \in Users, NEW phone \in {u, None}, SignUpDone(u, phone) PROVE Fresh'
  <2>1. /\ account' = account \cup {u}
        /\ \A x \in Users : x # u => /\ signup'[x] = signup[x] /\ commits'[x] = commits[x]
                                     /\ uploads'[x] = uploads[x]
        /\ signup'[u] = None
    BY <1>3 DEF TypeOK, SignUpDone
  <2> QED BY <2>1 DEF Fresh, Settled
<1>4. ASSUME NEW u \in Users, NEW created \in BOOLEAN, SignUpError(u, created) PROVE Fresh'
  BY <1>4 DEF TypeOK, Fresh, Settled, SignUpError, writes
<1>5. ASSUME NEW u \in Users, Login(u) PROVE Fresh'
  BY <1>0, <1>5 DEF Login
<1>6. CASE ButtonLogout
  BY <1>0, <1>6 DEF ButtonLogout
<1>7. CASE Relaunch
  BY <1>7 DEF Fresh, Settled, Relaunch
<1>8. ASSUME NEW u \in Users, NEW i \in Heads(u), NEW outcome \in {"done", "failed", "lost"},
             CommitAnswer(u, i, outcome)
      PROVE Fresh'
  <2>1. commits[u] # <<>>
    BY DEF Heads
  <2>2. u \in account
    BY <2>1 DEF Fresh, Settled
  <2>3. /\ account' = account /\ signup' = signup /\ uploads' = uploads
        /\ \A x \in Users : x # u => commits'[x] = commits[x]
    BY <1>8 DEF TypeOK, CommitAnswer
  <2> QED BY <2>2, <2>3 DEF Fresh, Settled
<1>9. ASSUME NEW u \in Users, NEW p \in uploads[u], NEW ok \in BOOLEAN, UploadAnswer(u, p, ok)
      PROVE Fresh'
  BY <1>9 DEF TypeOK, Fresh, Settled, UploadAnswer, auth
<1>10. CASE Salvar
  <2>1. session \in account
    BY <1>10 DEF TypeOK, Salvar
  <2>2. /\ account' = account /\ signup' = signup
        /\ \A x \in Users : x # session => commits'[x] = commits[x] /\ uploads'[x] = uploads[x]
    BY <1>10 DEF TypeOK, Salvar, auth
  <2> QED BY <2>1, <2>2 DEF Fresh, Settled
<1>11. CASE Screen /\ ~Salvar
  BY <1>0, <1>11 DEF Screen, ViewDidLoad, PhoneAnswer, ImageAnswer, PressEditar, TypeName,
                     TypePhone, PickImage, Edited, SalvarRefused, auth
<1> QED BY <1>1, <1>2, <1>3, <1>4, <1>5, <1>6, <1>7, <1>8, <1>9, <1>10, <1>11
        DEF Next, Session, Writing

\* Names are issued and answered in their order (SignUpDone, CommitAnswer, Salvar).
LEMMA NamesStep ==
    Apart /\ TypeOK' /\ Fresh /\ NamesKept /\ [Next]_vars /\ calm' /\ ~late' => NamesKept'
<1> SUFFICES ASSUME Apart, TypeOK', Fresh, NamesKept, [Next]_vars, calm', ~late' PROVE NamesKept'
  OBVIOUS
<1> USE ProfileAssumption, NoneAssumption
<1>0. ASSUME UNCHANGED <<account, session, object, displayName, names, commits, last, screen>>,
             form'.name = form.name
      PROVE NamesKept'
  BY <1>0 DEF NamesKept, OneObject, LastName, Named
<1>t. TypeOK /\ ~late
  BY CalmPast DEF Apart
<1>1. CASE UNCHANGED vars
  BY <1>0, <1>1 DEF vars, backend, auth, writes, view, history
<1>2. ASSUME NEW u \in Users, NEW t \in Texts, SignUp(u, t) PROVE NamesKept'
  BY <1>0, <1>2 DEF SignUp, backend, writes, view, history
<1>3. ASSUME NEW u \in Users, NEW phone \in {u, None}, SignUpDone(u, phone) PROVE NamesKept'
  <2> DEFINE entered == [by |-> u, n |-> signup[u]]
             c == [name |-> entered, object |-> object + 1]
  <2>1. entered \in Values /\ entered # None
    BY <1>3, <1>t DEF TypeOK, SignUpDone, Values
  <2>2. u \notin account /\ commits[u] = <<>>
    BY <1>3 DEF Fresh, Settled, SignUpDone
  <2>3. commits'[u] = <<c>>
    BY <1>3, <1>t, <2>2 DEF TypeOK, SignUpDone
  <2>4. /\ session' = u /\ object' = object + 1
        /\ \A x \in Users : x # u => commits'[x] = commits[x] /\ last'[x] = last[x]
        /\ names' = names
        /\ account' = account \cup {u}
        /\ last'[u] = [name |-> entered, picture |-> entered]
        /\ screen' # "perfil"
    BY <1>3, <1>t DEF TypeOK, SignUpDone, SignedIn, view
  <2> HIDE DEF entered
  <2>5. c.name = entered /\ c.object = object + 1
    OBVIOUS
  <2> HIDE DEF c
  <2>6. OneObject'
    BY <2>3, <2>4, <2>5 DEF NamesKept, OneObject
  <2>7. LastName'
    BY <2>3, <2>4, <2>5 DEF NamesKept, LastName
  <2>8. commits'[session'] # <<>>
    <3>1. <<c>> # <<>>
      OBVIOUS
    <3> QED BY <2>3, <2>4, <3>1
  <2>9. \A x \in account' : last'[x].name # None /\ last'[x].picture # None
    BY <2>1, <2>4, <1>t DEF NamesKept, Named, TypeOK
  <2> QED BY <2>4, <2>6, <2>7, <2>8, <2>9 DEF NamesKept, Named
<1>4. ASSUME NEW u \in Users, NEW created \in BOOLEAN, SignUpError(u, created) PROVE NamesKept'
  <2>1. account' = account
    BY <1>4 DEF SignUpError
  <2> QED BY <1>0, <1>4, <2>1 DEF SignUpError, backend, writes, view
<1>5. ASSUME NEW u \in Users, Login(u) PROVE NamesKept'
  <2>1. u \in account /\ commits[u] = <<>>
    BY <1>5 DEF Login, Settled
  <2>2. names[u] # None
    BY <2>1, <1>t DEF NamesKept, LastName, Named, TypeOK
  <2>3. /\ session' = u /\ displayName' = names[u] /\ screen' = "tabs"
        /\ UNCHANGED <<account, names, commits, last>>
    BY <1>5 DEF Login, SignedIn, backend, writes
  <2>4. OneObject'
    BY <2>1, <2>3 DEF NamesKept, OneObject
  <2> QED BY <2>2, <2>3, <2>4 DEF NamesKept, LastName, Named
<1>6. CASE ButtonLogout
  <2>1. session' = None /\ screen' = "login" /\ UNCHANGED <<account, names, commits, last>>
    BY <1>6 DEF ButtonLogout, backend, writes, history
  <2> QED BY <2>1 DEF NamesKept, OneObject, LastName, Named
<1>7. CASE Relaunch
  <2>1. \A x \in Users : commits[x] = <<>> /\ commits'[x] = <<>>
    BY <1>7 DEF Relaunch, Settled
  <2>2. /\ session' = session /\ displayName' = displayName /\ screen' # "perfil"
        /\ UNCHANGED <<account, names, last>>
    BY <1>7 DEF Relaunch, SignedIn, backend
  <2>3. session # None => session \in Users
    BY <1>t DEF TypeOK
  <2>4. OneObject' /\ LastName'
    BY <2>1, <2>2 DEF NamesKept, OneObject, LastName
  <2> QED BY <2>1, <2>2, <2>3, <2>4 DEF NamesKept, Named
<1>8. ASSUME NEW u \in Users, NEW i \in Heads(u), NEW outcome \in {"done", "failed", "lost"},
             CommitAnswer(u, i, outcome)
      PROVE NamesKept'
  <2> DEFINE n == Len(commits[u])
  <2>1. outcome = "done"
    BY <1>8 DEF CommitAnswer
  <2>2. /\ commits[u] \in Seq(Commit) /\ n \in Nat /\ DOMAIN commits[u] = 1..n
        /\ \A j \in 1..n : commits[u][j] \in Commit
    BY <1>t, CommitsOf
  <2>3. i = 1 /\ n >= 1
    <3>1. /\ i \in 1..n
          /\ \A j \in 1..(i - 1) : commits[u][j].object # commits[u][i].object
      BY <2>2 DEF Heads
    <3>2. ASSUME i # 1 PROVE FALSE
      <4>1. 1 \in 1..(i - 1) /\ 1 \in 1..n
        BY <2>2, <3>1, <3>2
      <4> QED BY <2>2, <3>1, <4>1 DEF NamesKept, OneObject
    <3> QED BY <2>2, <3>1, <3>2
  <2>4. commits[u][1].name \in Values /\ 1 \in DOMAIN commits[u]
    BY <2>2, <2>3 DEF Commit
  <2> DEFINE w == Without(commits[u], 1)
  <2>5. /\ w \in Seq(Commit) /\ Len(w) = n - 1
        /\ \A k \in 1..(n - 1) : w[k] = commits[u][k + 1]
    <3>1. \A k \in 1..(n - 1) : ~(k < 1)
      BY <2>2
    <3> HIDE DEF Commit
    <3> QED BY <2>2, <2>4, <3>1, WithoutType
  <2>6. /\ commits' = [commits EXCEPT ![u] = w]
        /\ names' = [names EXCEPT ![u] = commits[u][1].name]
        /\ displayName' = IF commits[u][1].object = object /\ session = u
                          THEN commits[u][1].name ELSE displayName
        /\ UNCHANGED <<account, session, object, screen, form, last>>
    BY <1>8, <2>1, <2>3 DEF CommitAnswer, view
  <2> HIDE DEF w
  <2>7. DOMAIN w = 1..(n - 1)
    BY <2>5
  <2>8. /\ commits'[u] = w /\ names'[u] = commits[u][1].name
        /\ \A x \in Users : x # u => commits'[x] = commits[x] /\ names'[x] = names[x]
    BY <2>6, <1>t DEF TypeOK
  <2>9. OneObject'
    <3>1. ASSUME NEW x \in Users, NEW k \in DOMAIN commits'[x], NEW l \in DOMAIN commits'[x]
          PROVE  /\ commits'[x][k].object = commits'[x][l].object
                 /\ session' = x => commits'[x][k].object = object'
      <4>1. CASE x # u
        BY <2>6, <2>8, <3>1, <4>1 DEF NamesKept, OneObject
      <4>2. CASE x = u
        <5>1. k \in 1..(n - 1) /\ l \in 1..(n - 1)
          BY <2>7, <2>8, <3>1, <4>2
        <5>2. k + 1 \in DOMAIN commits[u] /\ l + 1 \in DOMAIN commits[u]
          BY <2>2, <5>1
        <5>3. w[k] = commits[u][k + 1] /\ w[l] = commits[u][l + 1]
          BY <2>5, <5>1
        <5> QED BY <2>6, <2>8, <4>2, <5>2, <5>3 DEF NamesKept, OneObject
      <4> QED BY <4>1, <4>2
    <3> QED BY <3>1 DEF OneObject
  <2>10. commits[u][n].name = last[u].name
    <3>1. commits[u] # <<>>
      BY <2>4
    <3> QED BY <3>1 DEF NamesKept, LastName
  <2>11. LastName'
    <3>1. ASSUME NEW x \in Users, x # u
          PROVE IF commits'[x] = <<>> THEN names'[x] = last'[x].name
                ELSE commits'[x][Len(commits'[x])].name = last'[x].name
      BY <2>6, <2>8, <3>1 DEF NamesKept, LastName
    <3>2. CASE n = 1
      <4>1. w = <<>>
        BY <2>5, <3>2, EmptySeq
      <4> QED BY <2>6, <2>8, <2>10, <3>1, <3>2, <4>1 DEF LastName
    <3>3. CASE n # 1
      <4>1. n - 1 \in 1..(n - 1) /\ (n - 1) + 1 = n
        <5>1. n \in Nat /\ n >= 1 /\ n # 1
          BY <2>2, <2>3, <3>3
        <5> HIDE DEF n
        <5> QED BY <5>1
      <4>2. w # <<>> /\ w[Len(w)] = commits[u][n]
        BY <2>5, <2>7, <4>1
      <4> QED BY <2>6, <2>8, <2>10, <3>1, <4>2 DEF LastName
    <3> QED BY <3>2, <3>3
  <2>12. session' # None /\ commits'[session'] = <<>> => displayName' # None
    <3>1. CASE session = u
      <4>1. commits[u][1].object = object
        BY <2>4, <3>1 DEF NamesKept, OneObject
      <4> QED BY <2>4, <2>6, <3>1, <4>1
    <3>2. CASE session # u
      <4>1. session # None => session \in Users
        BY <1>t DEF TypeOK
      <4> QED BY <2>6, <2>8, <3>2, <4>1 DEF NamesKept, Named
    <3> QED BY <3>1, <3>2
  <2> QED BY <2>6, <2>9, <2>11, <2>12 DEF NamesKept, Named
<1>9. ASSUME NEW u \in Users, NEW p \in uploads[u], NEW ok \in BOOLEAN, UploadAnswer(u, p, ok)
      PROVE NamesKept'
  BY <1>0, <1>9 DEF UploadAnswer, auth, view
<1>10. CASE ViewDidLoad
  <2>1. commits[session] = <<>> /\ session # None
    BY <1>10, <1>t DEF ViewDidLoad, Settled, TypeOK
  <2>2. /\ form'.name = displayName
        /\ UNCHANGED <<account, session, object, displayName, names, commits, last>>
    BY <1>10 DEF ViewDidLoad, NoForm, backend, auth, writes
  <2>3. OneObject' /\ LastName'
    BY <2>2 DEF NamesKept, OneObject, LastName
  <2> QED BY <2>1, <2>2, <2>3 DEF NamesKept, Named
<1>11. ASSUME NEW ok \in BOOLEAN, PhoneAnswer(ok) PROVE NamesKept'
  <2>1. form'.name = form.name
    BY <1>11, <1>t DEF TypeOK, Forms, PhoneAnswer
  <2> QED BY <1>0, <1>11, <2>1 DEF PhoneAnswer, backend, auth, writes, history
<1>12. ASSUME NEW ok \in BOOLEAN, ImageAnswer(ok) PROVE NamesKept'
  <2>1. form'.name = form.name
    BY <1>12, <1>t DEF TypeOK, Forms, ImageAnswer
  <2> QED BY <1>0, <1>12, <2>1 DEF ImageAnswer, backend, auth, writes
<1>13. CASE PressEditar
  BY <1>0, <1>13 DEF PressEditar, backend, auth, writes, history
<1>14. ASSUME NEW f, Edited(f), f.name # None PROVE NamesKept'
  <2>1. UNCHANGED <<account, session, object, displayName, names, commits, last, screen>>
    BY <1>14 DEF Edited, backend, auth, writes, history
  <2>2. form'.name # None
    BY <1>14 DEF Edited
  <2> QED BY <2>1, <2>2 DEF NamesKept, OneObject, LastName, Named
<1>15. CASE SalvarRefused
  BY <1>0, <1>15 DEF SalvarRefused, backend, auth, writes, history
<1>16. CASE Salvar
  <2> DEFINE c == [name |-> form.name, object |-> object]
             n == Len(commits[session])
  <2>1. session \in Users /\ session \in account /\ form.name \in Values
    BY <1>16, <1>t DEF TypeOK, Salvar, checkFields, Forms
  <2>2. /\ commits' = [commits EXCEPT ![session] = Append(@, c)]
        /\ last' = [last EXCEPT ![session] =
                       [name |-> form.name,
                        picture |-> IF form.picked THEN form.picture ELSE @.picture]]
        /\ UNCHANGED <<account, session, object, displayName, names, screen, form>>
    BY <1>16 DEF Salvar, auth
  <2>3. /\ commits'[session] = Append(commits[session], c)
        /\ last'[session].name = form.name
        /\ last'[session].picture \in {form.picture, last[session].picture}
        /\ \A x \in Users : x # session => commits'[x] = commits[x] /\ last'[x] = last[x]
    BY <2>1, <2>2, <1>t DEF TypeOK
  <2>4. c.name = form.name /\ c.object = object
    OBVIOUS
  <2> HIDE DEF c
  <2>5. commits[session] \in Seq(Commit) /\ n \in Nat /\ DOMAIN commits[session] = 1..n
    BY <1>t, <2>1, CommitsOf
  <2>6. /\ DOMAIN commits'[session] = 1..(n + 1) /\ Len(commits'[session]) = n + 1
        /\ commits'[session][n + 1] = c /\ commits'[session] # <<>>
        /\ \A k \in 1..n : commits'[session][k] = commits[session][k]
    <3> HIDE DEF Commit
    <3>1. /\ Len(Append(commits[session], c)) = n + 1
          /\ \A k \in 1..n : Append(commits[session], c)[k] = commits[session][k]
          /\ Append(commits[session], c)[n + 1] = c
          /\ DOMAIN Append(commits[session], c) = 1..(n + 1)
      BY <2>5
    <3>2. Append(commits[session], c) # <<>>
      BY <2>5, <3>1
    <3> QED BY <2>3, <3>1, <3>2
  <2>7. \A k \in 1..(n + 1) : commits'[session][k].object = object
    <3>1. ASSUME NEW k \in 1..(n + 1) PROVE commits'[session][k].object = object
      <4>1. CASE k = n + 1
        BY <2>4, <2>6, <4>1
      <4>2. CASE k # n + 1
        <5>1. k \in DOMAIN commits[session]
          BY <2>5, <4>2
        <5>2. commits'[session][k] = commits[session][k]
          BY <2>5, <2>6, <5>1
        <5> QED BY <2>1, <5>1, <5>2 DEF NamesKept, OneObject
      <4> QED BY <4>1, <4>2
    <3> QED BY <3>1
  <2>8. OneObject'
    BY <2>2, <2>3, <2>6, <2>7 DEF NamesKept, OneObject
  <2>9. LastName'
    BY <2>2, <2>3, <2>4, <2>6 DEF NamesKept, LastName
  <2>10. form.name # None /\ form.picture # None
    BY <2>1, <1>t DEF TypeOK, Forms
  <2>11. \A x \in account' : last'[x].name # None /\ last'[x].picture # None
    BY <2>1, <2>2, <2>3, <2>10, <1>t DEF NamesKept, Named, TypeOK
  <2>12. screen' = "perfil" => form'.name # None
    BY <2>2, <2>10
  <2> QED BY <2>2, <2>6, <2>8, <2>9, <2>11, <2>12 DEF NamesKept, Named
<1>17. ASSUME Screen PROVE NamesKept'
  <2>1. form \in Forms
    BY <1>t DEF TypeOK
  <2>2. ASSUME NEW v, TypeName(v), v # None PROVE NamesKept'
    <3> DEFINE f == [form EXCEPT !.name = v]
    <3>1. f.name = v /\ Edited(f)
      BY <2>1, <2>2 DEF Forms, TypeName
    <3> HIDE DEF f
    <3> QED BY <1>14, <2>2, <3>1
  <2>3. ASSUME NEW f, Edited(f), f.name = form.name PROVE NamesKept'
    BY <1>0, <2>3 DEF Edited, backend, auth, writes, history
  <2>4. ASSUME NEW p, TypePhone(p) PROVE NamesKept'
    <3> DEFINE f == [form EXCEPT !.phone = p]
    <3>1. f.name = form.name /\ Edited(f)
      BY <2>1, <2>4 DEF Forms, TypePhone
    <3> HIDE DEF f
    <3> QED BY <2>3, <3>1
  <2>5. ASSUME NEW t \in Texts, PickImage(t) PROVE NamesKept'
    <3> DEFINE f == [form EXCEPT !.picture = [by |-> owner, n |-> t], !.picked = TRUE]
    <3>1. f.name = form.name /\ Edited(f)
      BY <2>1, <2>5 DEF Forms, PickImage
    <3> HIDE DEF f
    <3> QED BY <2>3, <3>1
  <2>6. ASSUME NEW t \in Texts, TypeName([by |-> owner, n |-> t]) PROVE NamesKept'
    <3>1. owner \in Users
      BY <2>6, <1>t DEF TypeName, Edited, TypeOK
    <3>2. [by |-> owner, n |-> t] \in Values
      BY <3>1 DEF Values
    <3> QED BY <2>2, <2>6, <3>2
  <2> QED BY <1>10, <1>11, <1>12, <1>13, <1>15, <1>16, <1>17, <2>2, <2>4, <2>5, <2>6 DEF Screen
<1> QED BY <1>1, <1>2, <1>3, <1>4, <1>5, <1>6, <1>7, <1>8, <1>9, <1>17 DEF Next, Session, Writing

\* A picture is sent only when it is the one shown, and shown only when it is the one
\* kept (fetchImage, Salvar, UploadAnswer).
LEMMA PicturesStep ==
    /\ Apart /\ TypeOK' /\ Fresh /\ Covered /\ Named /\ PicturesKept
    /\ [Next]_vars /\ calm' /\ ~late'
    => PicturesKept'
<1> SUFFICES ASSUME Apart, TypeOK', Fresh, Covered, Named, PicturesKept,
                    [Next]_vars, calm', ~late'
             PROVE  PicturesKept'
  OBVIOUS
<1> USE ProfileAssumption, NoneAssumption
<1>t. TypeOK /\ ~late
  BY CalmPast DEF Apart
<1>0. ASSUME UNCHANGED <<session, pictures, uploads, last, screen, overlay>>,
             form'.picture = form.picture, form'.picked = form.picked
      PROVE PicturesKept'
  BY <1>0 DEF PicturesKept, LastPicture, Shown
<1>l. ASSUME UNCHANGED <<pictures, uploads, last>> PROVE LastPicture'
  BY <1>l DEF PicturesKept, LastPicture
<1>1. CASE UNCHANGED vars
  BY <1>0, <1>1 DEF vars, backend, auth, writes, view, history
<1>2. ASSUME NEW u \in Users, NEW t \in Texts, SignUp(u, t) PROVE PicturesKept'
  BY <1>0, <1>2 DEF SignUp, backend, writes, view, history
<1>3. ASSUME NEW u \in Users, NEW phone \in {u, None}, SignUpDone(u, phone) PROVE PicturesKept'
  <2> DEFINE entered == [by |-> u, n |-> signup[u]]
  <2>1. uploads[u] = {}
    BY <1>3 DEF Fresh, Settled, SignUpDone
  <2>2. /\ uploads'[u] = {entered} /\ last'[u].picture = entered
        /\ \A x \in Users : x # u => uploads'[x] = uploads[x] /\ last'[x] = last[x]
        /\ pictures' = pictures /\ screen' # "perfil"
    BY <1>3, <1>t, <2>1 DEF TypeOK, SignUpDone, view
  <2> HIDE DEF entered
  <2> QED BY <2>2 DEF PicturesKept, LastPicture, Shown
<1>4. ASSUME NEW u \in Users, NEW created \in BOOLEAN, SignUpError(u, created)
      PROVE PicturesKept'
  BY <1>0, <1>4 DEF SignUpError, backend, writes, view
<1>5. ASSUME NEW u \in Users, Login(u) PROVE PicturesKept'
  <2>1. LastPicture'
    BY <1>5, <1>l DEF Login, backend, writes
  <2> QED BY <1>5, <2>1 DEF PicturesKept, Shown, Login
<1>6. CASE ButtonLogout
  <2>1. LastPicture'
    BY <1>6, <1>l DEF ButtonLogout, backend, writes, history
  <2> QED BY <1>6, <2>1 DEF PicturesKept, Shown, ButtonLogout
<1>7. CASE Relaunch
  <2>1. \A x \in Users : uploads[x] = {} /\ uploads'[x] = {}
    BY <1>7 DEF Relaunch, Settled
  <2>2. pictures' = pictures /\ last' = last /\ screen' # "perfil"
    BY <1>7 DEF Relaunch, backend
  <2> QED BY <2>1, <2>2 DEF PicturesKept, LastPicture, Shown
<1>8. ASSUME NEW u \in Users, NEW i \in Heads(u), NEW outcome \in {"done", "failed", "lost"},
             CommitAnswer(u, i, outcome)
      PROVE PicturesKept'
  BY <1>0, <1>8 DEF CommitAnswer, view
<1>9. ASSUME NEW u \in Users, NEW p \in uploads[u], NEW ok \in BOOLEAN, UploadAnswer(u, p, ok)
      PROVE PicturesKept'
  <2>1. ok
    BY <1>9 DEF UploadAnswer
  <2>2. /\ uploads'[u] = uploads[u] \ {p} /\ pictures'[u] = p
        /\ \A x \in Users : x # u => uploads'[x] = uploads[x] /\ pictures'[x] = pictures[x]
        /\ UNCHANGED <<session, last, screen, overlay, form>>
    BY <1>9, <1>t, <2>1 DEF TypeOK, UploadAnswer, auth, view
  <2>3. p = last[u].picture
    BY <1>9 DEF PicturesKept, LastPicture
  <2>4. LastPicture'
    BY <2>2, <2>3 DEF PicturesKept, LastPicture
  <2>5. screen = "perfil" => session \in Users
    BY <1>t DEF TypeOK
  <2>6. Shown'
    BY <2>2, <2>5 DEF PicturesKept, Shown
  <2> QED BY <2>4, <2>6 DEF PicturesKept
<1>10. CASE ViewDidLoad
  <2>1. LastPicture'
    BY <1>10, <1>l DEF ViewDidLoad, backend, writes
  <2>2. uploads'[session'] = {} /\ overlay'
    BY <1>10 DEF ViewDidLoad, Settled, auth, writes
  <2> QED BY <2>1, <2>2 DEF PicturesKept, Shown
<1>11. ASSUME NEW ok \in BOOLEAN, PhoneAnswer(ok) PROVE PicturesKept'
  <2>1. form'.picture = form.picture /\ form'.picked = form.picked
    BY <1>11, <1>t DEF TypeOK, Forms, PhoneAnswer
  <2> QED BY <1>0, <1>11, <2>1 DEF PhoneAnswer, backend, auth, writes, history
<1>12. ASSUME NEW ok \in BOOLEAN, ImageAnswer(ok) PROVE PicturesKept'
  <2>1. imageAsked = session /\ session \in account /\ screen = "perfil" /\ overlay
    BY <1>12, <1>t DEF Apart, TypeOK, ScreensOwned, Covered, ImageAnswer
  <2>2. session \in Users /\ uploads[session] = {} /\ last[session].picture # None
    BY <2>1, <1>t DEF TypeOK, PicturesKept, Shown, Named
  <2>3. pictures[session] = last[session].picture
    BY <2>2 DEF PicturesKept, LastPicture
  <2>4. LastPicture'
    BY <1>12, <1>l DEF ImageAnswer, backend, writes
  <2>5. UNCHANGED <<session, uploads, last>>
    BY <1>12 DEF ImageAnswer, auth, writes
  <2>6. ~overlay' => form'.picture = pictures[session]
    BY <1>12, <2>1, <1>t DEF TypeOK, Forms, ImageAnswer
  <2>7. Shown'
    BY <2>2, <2>3, <2>5, <2>6 DEF Shown
  <2> QED BY <2>4, <2>7 DEF PicturesKept
<1>13. CASE PressEditar
  BY <1>0, <1>13 DEF PressEditar, backend, auth, writes, history
<1>14. ASSUME NEW f, Edited(f), f.picture = form.picture \/ f.picked,
              f.picked = form.picked \/ f.picked
       PROVE PicturesKept'
  <2>1. /\ ~overlay /\ screen = "perfil" /\ form' = f
        /\ UNCHANGED <<session, pictures, uploads, last, screen, overlay>>
    BY <1>14 DEF Edited, backend, auth, writes, history
  <2>2. LastPicture'
    BY <1>l, <2>1
  <2> QED BY <1>14, <2>1, <2>2 DEF PicturesKept, Shown
<1>15. CASE SalvarRefused
  BY <1>0, <1>15 DEF SalvarRefused, backend, auth, writes, history
<1>16. CASE Salvar
  <2>1. session \in Users /\ uploads[session] = {} /\ screen = "perfil" /\ ~overlay
    BY <1>16, <1>t DEF TypeOK, Salvar
  <2>2. /\ uploads'[session] = {form.picture}
        /\ last'[session].picture = IF form.picked THEN form.picture ELSE last[session].picture
        /\ \A x \in Users : x # session => uploads'[x] = uploads[x] /\ last'[x] = last[x]
        /\ UNCHANGED <<session, pictures, screen, overlay, form>>
    BY <1>16, <1>t, <2>1 DEF TypeOK, Salvar, auth
  <2>3. last'[session].picture = form.picture
    BY <2>1, <2>2 DEF PicturesKept, Shown
  <2>4. LastPicture'
    BY <2>2, <2>3 DEF PicturesKept, LastPicture
  <2>5. Shown'
    BY <2>1, <2>2, <2>3 DEF Shown
  <2> QED BY <2>4, <2>5 DEF PicturesKept
<1>17. ASSUME Screen PROVE PicturesKept'
  <2>1. form \in Forms
    BY <1>t DEF TypeOK
  <2>2. ASSUME NEW v, TypeName(v) PROVE PicturesKept'
    <3> DEFINE f == [form EXCEPT !.name = v]
    <3>1. f.picture = form.picture /\ f.picked = form.picked /\ Edited(f)
      BY <2>1, <2>2 DEF Forms, TypeName
    <3> HIDE DEF f
    <3> QED BY <1>14, <3>1
  <2>3. ASSUME NEW p, TypePhone(p) PROVE PicturesKept'
    <3> DEFINE f == [form EXCEPT !.phone = p]
    <3>1. f.picture = form.picture /\ f.picked = form.picked /\ Edited(f)
      BY <2>1, <2>3 DEF Forms, TypePhone
    <3> HIDE DEF f
    <3> QED BY <1>14, <3>1
  <2>4. ASSUME NEW t \in Texts, PickImage(t) PROVE PicturesKept'
    <3> DEFINE f == [form EXCEPT !.picture = [by |-> owner, n |-> t], !.picked = TRUE]
    <3>1. f.picked /\ Edited(f)
      BY <2>1, <2>4 DEF Forms, PickImage
    <3> HIDE DEF f
    <3> QED BY <1>14, <3>1
  <2> QED BY <1>10, <1>11, <1>12, <1>13, <1>15, <1>16, <1>17, <2>2, <2>3, <2>4 DEF Screen
<1> QED BY <1>1, <1>2, <1>3, <1>4, <1>5, <1>6, <1>7, <1>8, <1>9, <1>17 DEF Next, Session, Writing

\* The invariant behind the two theorems below.
THEOREM ProfileInvariance == Spec => []KeptInv
<1>1. Init => KeptInv
  <2> SUFFICES ASSUME Init PROVE KeptInv
    OBVIOUS
  <2>1. Apart
    <3>1. TypeOK
      BY InitType
    <3> QED BY <3>1 DEF Apart, ScreensOwned, KeptApart, Of, Init
  <2>2. Fresh /\ Covered
    BY DEF Fresh, Covered, Settled, Init
  <2>3. NamesKept
    BY DEF NamesKept, OneObject, LastName, Named, Init
  <2>4. PicturesKept
    BY DEF PicturesKept, LastPicture, Shown, Init
  <2> QED BY <2>1, <2>2, <2>3, <2>4 DEF KeptInv
<1>2. KeptInv /\ [Next]_vars => KeptInv'
  <2> SUFFICES ASSUME KeptInv, [Next]_vars PROVE KeptInv'
    OBVIOUS
  <2>1. Apart' /\ TypeOK' /\ TypeOK
    BY StepType, ScreensStep, ApartStep DEF KeptInv, Apart
  <2>2. Fresh' /\ Covered'
    BY <2>1, FreshStep, CoveredStep DEF KeptInv
  <2>3. ASSUME calm', ~late' PROVE NamesKept' /\ PicturesKept'
    <3>1. NamesKept /\ PicturesKept /\ Named
      BY <2>1, <2>3, CalmPast DEF KeptInv, NamesKept
    <3> QED BY <2>1, <2>3, <3>1, NamesStep, PicturesStep DEF KeptInv
  <2> QED BY <2>1, <2>2, <2>3 DEF KeptInv
<1> QED BY <1>1, <1>2, PTL DEF Spec

\* Saves that overlap leave the name saved last and a profile that can be edited, with any
\* number of commits under way, users and sign-ins, as long as none of them overtakes
\* writes under way and none of those fails (CommitAnswer, Salvar, viewDidLoad lines 41-66).
THEOREM NameOfLastSave == Spec => []NameKept
<1>1. KeptInv => NameKept
  BY DEF KeptInv, NamesKept, LastName, Named, NameKept
<1> QED BY <1>1, ProfileInvariance, PTL

\* A profile saved again and again without a new picture keeps the one chosen last, for
\* any number of users, pictures and sign-ins (fetchImage lines 131-137, Salvar).
THEOREM PictureOfLastChoice == Spec => []PictureKept
<1>1. KeptInv => PictureKept
  BY DEF KeptInv, PicturesKept, LastPicture, PictureKept
<1> QED BY <1>1, ProfileInvariance, PTL
=============================================================================

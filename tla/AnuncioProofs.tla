--------------------------- MODULE AnuncioProofs ---------------------------
(***************************************************************************)
(* Proofs about module Anuncio, for any phones, users, ads and queues.      *)
(*                                                                          *)
(* Types alone are not inductive: what a document becomes depends on what   *)
(* the queued writes carry.  IInv adds what a pending write may say         *)
(* (QueueInv), what the collection holds (ServerInv), and what a phone      *)
(* shows and is publishing (ScreenInv).  PubInv adds, for the second write  *)
(* of saveOffer, where the two writes of an ad may be.                      *)
(***************************************************************************)
EXTENDS Anuncio, FiniteSetTheorems, FiniteSetsExt, TLAPS

\* Induction, as module FoldLemmas has it; no loop is meant.
Numbers == INSTANCE FoldLemmas WITH Step <- LAMBDA p, x, acc : acc

\* Names for parts of an action, expanded wherever the action is.
USE DEF history, TurnTo, LeaveScreens

\* Max is what its name says on a bounded set with an element.
LEMMA MaxExists ==
    ASSUME NEW n \in Nat, NEW S \in SUBSET (0..n), NEW s \in S
    PROVE  Max(S) \in S /\ \A i \in S : i <= Max(S)
<1> DEFINE T == {m \in Nat : \E i \in S : m = n - i}
<1>1. n - s \in T
  OBVIOUS
<1>2. PICK m \in T : \A y \in T : m <= y
  <2> HIDE DEF T
  <2>1. T \subseteq Nat
    BY DEF T
  <2> QED
    BY <1>1, <2>1, Numbers!LeastNatural
<1>3. PICK j \in S : m = n - j
  OBVIOUS
<1>4. ASSUME NEW k \in S PROVE k <= j
  <2>1. n - k \in T
    OBVIOUS
  <2>2. n - j <= n - k
    BY <1>2, <1>3, <2>1
  <2> QED
    BY <2>2
<1> QED
  BY <1>4 DEF Max

\* Each pending write was issued by the user in whose queue it is, for the document
\* called "No Id", for an ad of that user, or -- an edit or a delete -- for an ad that
\* user found open; an id write stores the document's own id.
WriteOK(w, u, a, st) ==
    /\ w \in Writes
    /\ w.uid = u
    /\ w.key \in Ids => \/ a[w.key] = u
                        \/ /\ w.kind \in {"edit", "delete"}
                           /\ <<u, w.key>> \in st /\ a[w.key] # None
    /\ w.kind = "add" => w.key \in Ids /\ w.data \in Texts
    /\ w.kind = "id" => w.key \in Ids /\ w.data = w.key
    /\ w.kind = "edit" => w.data \in Texts

QueueInv ==
    \A d \in Devices, u \in Users :
        \A i \in DOMAIN queue[d][u] : WriteOK(queue[d][u][i], u, author, strays)

ServerInv ==
    /\ server[NoId] = Absent
    /\ \A k \in Ids : server[k] # Absent => /\ server[k].uid = author[k]
                                            /\ server[k].id \in {k, NoId}

RowOK(row, s, a) == /\ s # None
                    /\ a[row.key] # None
                    /\ row.id \in {row.key, NoId}

ScreenInv ==
    \A d \in Devices : /\ \A row \in list[d] : RowOK(row, session[d], author)
                       /\ open[d] # None => RowOK(open[d], session[d], author)
                       /\ half[d] # None => author[half[d]] = session[d]

IInv == TypeOK /\ QueueInv /\ ServerInv /\ ScreenInv

\* The initial state satisfies the inductive invariant.
LEMMA InitIInv == Init => IInv
BY AbsentAssumption, NamesAssumption
   DEF Init, IInv, TypeOK, PipelineOK, QueueInv, ServerInv, ScreenInv, Keys, Docs, Rows

\* Newest points at a write of the kinds asked for, or is 0.
LEMMA NewestOK ==
    ASSUME NEW q \in Seq(Writes), NEW k, NEW kinds
    PROVE  LET n == Newest(q, k, kinds)
           IN /\ n \in Nat
              /\ n > 0 => n \in DOMAIN q /\ q[n].key = k /\ q[n].kind \in kinds
<1> DEFINE S == {i \in DOMAIN q : q[i].key = k /\ q[i].kind \in kinds}
           Z == {0} \cup S
<1>1. Z \in SUBSET (0..Len(q)) /\ 0 \in Z /\ Len(q) \in Nat
  OBVIOUS
<1>2. Max(Z) \in Z
  <2> HIDE DEF Z
  <2> QED
    BY <1>1, MaxExists
<1>3. Newest(q, k, kinds) = Max(Z)
  BY DEF Newest
<1> QED
  BY <1>1, <1>2, <1>3

\* What a query answers about an ad: its author and its id field are right, also
\* with writes pending.
LEMMA SeenOK ==
    ASSUME TypeOK, QueueInv, ServerInv,
           NEW d \in Devices, NEW u \in Users, NEW k \in Ids,
           View(d, u)[k] # Absent
    PROVE  /\ View(d, u)[k].uid = author[k]
           /\ View(d, u)[k].id \in {k, NoId}
<1> DEFINE q == queue[d][u]
           base == Newest(q, k, {"add", "delete"})
           id == Newest(q, k, {"id"})
           start == IF base = 0 THEN server[k] ELSE Written(server[k], q[base])
<1>1. q \in Seq(Writes)
  BY DEF TypeOK
<1>2. View(d, u)[k] = Seen(q, k, server[k])
  BY DEF View, Keys
<1>3. base \in Nat /\ (base > 0 => base \in DOMAIN q /\ q[base].key = k
                                  /\ q[base].kind \in {"add", "delete"})
  BY <1>1, NewestOK
<1>4. id \in Nat /\ (id > 0 => id \in DOMAIN q /\ q[id].key = k /\ q[id].kind = "id")
  BY <1>1, NewestOK
<1> HIDE DEF base, id
<1>5. start # Absent
  BY <1>2 DEF Seen, base
<1>6. start.uid = author[k] /\ start.id \in {k, NoId}
  <2>1. CASE base = 0
    BY <1>5, <2>1 DEF ServerInv
  <2>2. CASE base # 0
    <3>1. WriteOK(q[base], u, author, strays) /\ q[base].key = k /\ q[base].kind \in {"add", "delete"}
      BY <1>3, <2>2 DEF QueueInv
    <3>2. start = Written(server[k], q[base]) /\ q[base].kind = "add"
      BY <1>5, <2>2, <3>1 DEF Written
    <3>3. start = [uid |-> q[base].uid, id |-> NoId, text |-> q[base].data]
      BY <3>2 DEF Written
    <3>4. q[base].uid = u /\ author[k] = u
      BY <3>1, <3>2 DEF WriteOK
    <3> QED
      BY <3>3, <3>4
  <2> QED
    BY <2>1, <2>2
<1>7. id > base => q[id].data = k
  <2> SUFFICES ASSUME id > base PROVE q[id].data = k
    OBVIOUS
  <2>1. id \in DOMAIN q /\ q[id].key = k /\ q[id].kind = "id"
    BY <1>3, <1>4
  <2> QED
    BY <2>1 DEF QueueInv, WriteOK
<1>8. /\ Seen(q, k, server[k]).uid = start.uid
      /\ Seen(q, k, server[k]).id = IF id > base THEN q[id].data ELSE start.id
  BY <1>5 DEF Seen, base, id
<1> QED
  BY <1>2, <1>6, <1>7, <1>8

-----------------------------------------------------------------------------
(* Queues.                                                                  *)

\* A document id, once given to an ad, stays its author's, and strays stay.
AuthorKept == /\ author' \in [Ids -> Users \cup {None}]
              /\ \A k \in Ids : author[k] # None => author'[k] = author[k]
              /\ strays \subseteq strays'

\* What holds of a pending write keeps holding.
LEMMA WriteKept ==
    ASSUME NEW u \in Users, NEW w, WriteOK(w, u, author, strays), AuthorKept
    PROVE  WriteOK(w, u, author', strays')
BY NamesAssumption DEF WriteOK, AuthorKept, Writes

\* A write issued by a screen joins the queue of the user signed in.
LEMMA AppendOK ==
    ASSUME TypeOK, QueueInv, AuthorKept,
           NEW d \in Devices, NEW u \in Users, NEW w, WriteOK(w, u, author', strays'),
           queue' = [queue EXCEPT ![d][u] = Append(@, w)]
    PROVE  /\ queue' \in [Devices -> [Users -> Seq(Writes)]]
           /\ QueueInv'
           /\ Len(queue'[d][u]) = Len(queue[d][u]) + 1
           /\ \A e \in Devices : e # d => queue'[e] = queue[e]
<1>1. w \in Writes /\ queue \in [Devices -> [Users -> Seq(Writes)]]
  BY DEF TypeOK, WriteOK
<1>2. queue' \in [Devices -> [Users -> Seq(Writes)]]
  BY <1>1
<1>3. ASSUME NEW e \in Devices, NEW v \in Users, NEW i \in DOMAIN queue'[e][v]
      PROVE  WriteOK(queue'[e][v][i], v, author', strays')
  <2>1. CASE e = d /\ v = u
    <3>1. queue'[d][u] = Append(queue[d][u], w)
      BY <1>1
    <3>2. CASE i \in DOMAIN queue[d][u]
      <4>1. queue'[e][v][i] = queue[d][u][i]
        BY <1>1, <2>1, <3>1, <3>2
      <4>2. WriteOK(queue[d][u][i], u, author, strays)
        BY <3>2 DEF QueueInv
      <4> QED
        BY <2>1, <4>1, <4>2, WriteKept
    <3>3. CASE i \notin DOMAIN queue[d][u]
      <4>1. queue'[e][v][i] = w
        BY <1>1, <2>1, <3>1, <3>3
      <4> QED
        BY <2>1, <4>1
    <3> QED
      BY <3>2, <3>3
  <2>2. CASE ~(e = d /\ v = u)
    <3>1. queue'[e][v] = queue[e][v]
      BY <1>1, <2>2
    <3>2. WriteOK(queue[e][v][i], v, author, strays)
      BY <3>1 DEF QueueInv
    <3> QED
      BY <3>1, <3>2, WriteKept
  <2> QED
    BY <2>1, <2>2
<1>4. QueueInv'
  BY <1>3 DEF QueueInv
<1> QED
  BY <1>1, <1>2, <1>4

\* The oldest write leaves the queue.
LEMMA TailOK ==
    ASSUME TypeOK, QueueInv, UNCHANGED <<author, strays>>,
           NEW d \in Devices, NEW u \in Users, queue[d][u] # <<>>,
           queue' = [queue EXCEPT ![d][u] = Tail(@)]
    PROVE  /\ queue' \in [Devices -> [Users -> Seq(Writes)]]
           /\ QueueInv'
           /\ Len(queue'[d][u]) = Len(queue[d][u]) - 1
           /\ \A e \in Devices : e # d => queue'[e] = queue[e]
<1>1. queue \in [Devices -> [Users -> Seq(Writes)]] /\ AuthorKept
  BY DEF TypeOK, AuthorKept
<1>2. queue' \in [Devices -> [Users -> Seq(Writes)]]
  BY <1>1
<1>3. ASSUME NEW e \in Devices, NEW v \in Users, NEW i \in DOMAIN queue'[e][v]
      PROVE  WriteOK(queue'[e][v][i], v, author', strays')
  <2>1. CASE e = d /\ v = u
    <3>1. i + 1 \in DOMAIN queue[d][u] /\ queue'[e][v][i] = queue[d][u][i + 1]
      BY <1>1, <2>1
    <3>2. WriteOK(queue[d][u][i + 1], u, author, strays)
      BY <3>1 DEF QueueInv
    <3> QED
      BY <1>1, <2>1, <3>1, <3>2, WriteKept
  <2>2. CASE ~(e = d /\ v = u)
    <3>1. queue'[e][v] = queue[e][v]
      BY <1>1, <2>2
    <3>2. WriteOK(queue[e][v][i], v, author, strays)
      BY <3>1 DEF QueueInv
    <3> QED
      BY <1>1, <3>1, <3>2, WriteKept
  <2> QED
    BY <2>1, <2>2
<1>4. QueueInv'
  BY <1>3 DEF QueueInv
<1> QED
  BY <1>1, <1>2, <1>4

-----------------------------------------------------------------------------
(* Every action keeps the inductive invariant.                              *)

\* The screens' own writes go through WriteMutations or straight to the queue.
LEMMA SaveOfferOK ==
    ASSUME IInv, NEW d \in Devices, NEW k \in Ids, NEW t \in Texts, SaveOffer(d, k, t)
    PROVE  IInv'
<1> DEFINE u == session[d]
           w == Write("add", k, u, t)
<1> USE DEF IInv
<1>1. u \in Users /\ half[d] = None /\ author[k] = None
  BY DEF SaveOffer, TypeOK
<1>2. AuthorKept /\ author'[k] = u
  BY <1>1 DEF SaveOffer, TypeOK, AuthorKept
<1>3. WriteOK(w, u, author', strays')
  BY <1>1, <1>2 DEF WriteOK, Write, Writes, Kinds, Keys
<1>4. queue' = [queue EXCEPT ![d][u] = Append(@, w)]
  BY DEF SaveOffer, WriteMutations
<1>5. /\ queue' \in [Devices -> [Users -> Seq(Writes)]]
      /\ QueueInv'
      /\ Len(queue'[d][u]) = Len(queue[d][u]) + 1
      /\ \A e \in Devices : e # d => queue'[e] = queue[e]
  <2> HIDE DEF w, u
  <2> QED
    BY <1>1, <1>2, <1>3, <1>4, AppendOK
<1>6. PipelineOK'
  BY <1>1, <1>5, NamesAssumption DEF SaveOffer, TypeOK, PipelineOK, Pending
<1>7. TypeOK'
  BY <1>1, <1>2, <1>5, <1>6 DEF SaveOffer, TypeOK, AuthorKept
<1>8. ServerInv'
  <2>1. \A j \in Ids : server[j] # Absent => server[j].uid \in Users
    BY DEF TypeOK, Keys, Docs
  <2>2. \A j \in Ids : server[j] # Absent => author'[j] = author[j]
    BY <1>2, <2>1, NamesAssumption DEF AuthorKept, ServerInv
  <2> QED
    BY <2>2 DEF SaveOffer, ServerInv
<1>9. ScreenInv'
  <2>1. \A e \in Devices, row \in Rows :
            RowOK(row, session[e], author) => RowOK(row, session[e], author')
    BY <1>2 DEF RowOK, Rows, AuthorKept
  <2>2. \A e \in Devices : half'[e] # None => author'[half'[e]] = session[e]
    <3> SUFFICES ASSUME NEW e \in Devices, half'[e] # None
                 PROVE  author'[half'[e]] = session[e]
      OBVIOUS
    <3>1. CASE e = d
      BY <1>2, <3>1 DEF SaveOffer, TypeOK
    <3>2. CASE e # d
      <4>1. half'[e] = half[e] /\ half[e] \in Ids /\ author[half[e]] = session[e]
        BY <3>2 DEF SaveOffer, TypeOK, ScreenInv
      <4>2. session[e] # None
        BY <4>1, NamesAssumption DEF TypeOK, PipelineOK
      <4> QED
        BY <1>2, <4>1, <4>2 DEF AuthorKept
    <3> QED
      BY <3>1, <3>2
  <2> QED
    BY <2>1, <2>2 DEF SaveOffer, ScreenInv, TypeOK
<1> QED
  BY <1>5, <1>7, <1>8, <1>9

LEMMA SaveOfferIdOK ==
    ASSUME IInv, NEW d \in Devices, SaveOfferId(d)
    PROVE  IInv'
<1> DEFINE u == session[d]
           w == Write("id", half[d], u, half[d])
<1> USE DEF IInv
<1>1. u \in Users /\ half[d] \in Ids /\ author[half[d]] = u /\ AuthorKept
  <2>1. half[d] \in Ids /\ session[d] # None
    BY NamesAssumption DEF SaveOfferId, TypeOK, PipelineOK
  <2> QED
    BY <2>1 DEF SaveOfferId, TypeOK, ScreenInv, AuthorKept
<1>2. author' = author /\ session' = session
  BY DEF SaveOfferId
<1>3. WriteOK(w, u, author', strays')
  BY <1>1, <1>2 DEF WriteOK, Write, Writes, Kinds, Keys
<1>4. queue' = [queue EXCEPT ![d][u] = Append(@, w)]
  BY DEF SaveOfferId
<1>5. /\ queue' \in [Devices -> [Users -> Seq(Writes)]]
      /\ QueueInv'
      /\ Len(queue'[d][u]) = Len(queue[d][u]) + 1
      /\ \A e \in Devices : e # d => queue'[e] = queue[e]
  <2> HIDE DEF w, u
  <2> QED
    BY <1>1, <1>2, <1>3, <1>4, AppendOK
<1>6. TypeOK'
  <2>1. PipelineOK'
    BY <1>1, <1>5, NamesAssumption DEF SaveOfferId, TypeOK, PipelineOK, Pending
  <2> QED
    BY <1>5, <2>1 DEF SaveOfferId, TypeOK
<1>7. ServerInv'
  BY DEF SaveOfferId, ServerInv
<1>8. ScreenInv'
  BY DEF SaveOfferId, ScreenInv, TypeOK
<1> QED
  BY <1>5, <1>6, <1>7, <1>8

LEMMA LoadOffersOK ==
    ASSUME IInv, NEW d \in Devices, LoadOffersForIUD(d)
    PROVE  IInv'
<1> DEFINE docs == View(d, session[d])
           mine == {k \in Ids : docs[k] # Absent /\ docs[k].uid = session[d]}
           rows == {[key |-> k, id |-> docs[k].id] : k \in mine}
<1> USE DEF IInv
<1>1. session[d] \in Users /\ list' = [list EXCEPT ![d] = rows]
  BY DEF LoadOffersForIUD, TypeOK
<1>2. \A k \in mine : author[k] # None /\ docs[k].id \in {k, NoId}
  <2> SUFFICES ASSUME NEW k \in Ids, docs[k] # Absent, docs[k].uid = session[d]
               PROVE  author[k] # None /\ docs[k].id \in {k, NoId}
    OBVIOUS
  <2> QED
    BY <1>1, SeenOK, NamesAssumption
<1> HIDE DEF docs
<1>3. \A row \in rows : row \in Rows /\ RowOK(row, session[d], author)
  BY <1>1, <1>2, NamesAssumption DEF Rows, RowOK, Keys
<1> HIDE DEF rows, mine
<1>4. TypeOK'
  BY <1>1, <1>3 DEF LoadOffersForIUD, TypeOK, PipelineOK, Pending
<1>5. ScreenInv'
  BY <1>1, <1>3 DEF LoadOffersForIUD, ScreenInv, TypeOK
<1>6. QueueInv' /\ ServerInv'
  BY DEF LoadOffersForIUD, QueueInv, ServerInv
<1> QED
  BY <1>4, <1>5, <1>6

LEMMA OpenOfferOK ==
    ASSUME IInv, NEW d \in Devices, NEW row \in Rows, OpenOffer(d, row)
    PROVE  IInv'
<1> USE DEF IInv
<1>1. TypeOK'
  BY DEF OpenOffer, TypeOK, PipelineOK, Pending
<1>2. ScreenInv'
  BY DEF OpenOffer, ScreenInv, TypeOK
<1>3. QueueInv' /\ ServerInv'
  BY DEF OpenOffer, QueueInv, ServerInv
<1> QED
  BY <1>1, <1>2, <1>3

LEMMA CloseOfferOK ==
    ASSUME IInv, NEW d \in Devices, CloseOffer(d)
    PROVE  IInv'
<1> USE DEF IInv
<1>1. TypeOK'
  BY DEF CloseOffer, TypeOK, PipelineOK, Pending
<1>2. ScreenInv'
  BY DEF CloseOffer, ScreenInv, TypeOK
<1>3. QueueInv' /\ ServerInv'
  BY DEF CloseOffer, QueueInv, ServerInv
<1> QED
  BY <1>1, <1>2, <1>3

\* An edit or a delete of the ad on the screen.
LEMMA ButtonOK ==
    ASSUME IInv, NEW d \in Devices, open[d] # None,
           NEW kind \in {"edit", "delete"}, NEW data \in Texts \cup {None},
           kind = "edit" => data \in Texts,
           queue' = [queue EXCEPT ![d][session[d]] =
                        Append(@, Write(kind, open[d].id, session[d], data))],
           strays' = Strayed(d),
           UNCHANGED <<server, author, session, inFlight, half, list, open, account, lostId>>
    PROVE  IInv'
<1> DEFINE u == session[d]
           k == open[d].id
           w == Write(kind, k, u, data)
<1> USE DEF IInv
<1>1. u \in Users /\ open[d] \in Rows /\ k \in Keys
      /\ (k \in Ids => author[k] # None)
  BY NamesAssumption DEF TypeOK, ScreenInv, RowOK, Rows
<1>2. /\ AuthorKept
      /\ strays' \subseteq Users \X Ids
      /\ k \in Ids => author[k] = u \/ <<u, k>> \in strays'
  BY <1>1 DEF TypeOK, AuthorKept, Strayed
<1> HIDE DEF k
<1>3. WriteOK(w, u, author', strays')
  BY <1>1, <1>2, NamesAssumption DEF WriteOK, Write, Writes, Kinds
<1>4. /\ queue' \in [Devices -> [Users -> Seq(Writes)]]
      /\ QueueInv'
      /\ Len(queue'[d][u]) = Len(queue[d][u]) + 1
      /\ \A e \in Devices : e # d => queue'[e] = queue[e]
  <2>1. queue' = [queue EXCEPT ![d][u] = Append(@, w)]
    BY DEF k
  <2> HIDE DEF w, u
  <2> QED
    BY <1>1, <1>2, <1>3, <2>1, AppendOK
<1>5. TypeOK'
  <2>1. PipelineOK'
    BY <1>1, <1>4 DEF TypeOK, PipelineOK, Pending
  <2> QED
    BY <1>2, <1>4, <2>1 DEF TypeOK
<1>6. ScreenInv' /\ ServerInv'
  BY DEF ScreenInv, ServerInv
<1> QED
  BY <1>4, <1>5, <1>6

\* The next write of a phone, as the backend receives it, is one of the signed-in
\* user, for one of that user's ads or a stray; the document called "No Id" is never
\* made.
LEMMA NextWriteOK ==
    ASSUME TypeOK, QueueInv, ServerInv, NEW d \in Devices, session[d] # None,
           inFlight[d] < Len(Pending(d))
    PROVE  LET w == Pending(d)[inFlight[d] + 1]
           IN WriteOK(w, session[d], author, strays) /\ (Accepts(server, w) =>
                 w.key \in Ids \/ w.kind = "delete")
<1> DEFINE w == Pending(d)[inFlight[d] + 1]
<1>1. session[d] \in Users /\ inFlight[d] + 1 \in DOMAIN queue[d][session[d]]
  BY DEF TypeOK, Pending
<1>2. WriteOK(w, session[d], author, strays)
  BY <1>1 DEF QueueInv, Pending
<1>3. Accepts(server, w) => w.key \in Ids \/ w.kind = "delete"
  BY <1>2 DEF Accepts, ServerInv, WriteOK, Writes, Keys, Kinds
<1> QED
  BY <1>2, <1>3

LEMMA ServerCommitOK ==
    ASSUME IInv, NEW d \in Devices, ServerCommit(d)
    PROVE  IInv'
<1> DEFINE w == Pending(d)[inFlight[d] + 1]
<1> USE DEF IInv
<1>1. WriteOK(w, session[d], author, strays) /\ (w.key \in Ids \/ w.kind = "delete")
  BY NextWriteOK DEF ServerCommit
<1>2. Accepts(server, w) /\ server' = [server EXCEPT ![w.key] = Written(server[w.key], w)]
  BY DEF ServerCommit, Commit
<1> HIDE DEF w
<1>3. w.key \in Keys /\ w.kind \in Kinds /\ w.uid = session[d] /\ session[d] \in Users
  BY <1>1 DEF WriteOK, Writes, ServerCommit, TypeOK
<1>4. ASSUME w.kind = "delete"
      PROVE  server' \in [Keys -> Docs \cup {Absent}] /\ ServerInv'
  <2>1. server' = [server EXCEPT ![w.key] = Absent]
    BY <1>2, <1>4 DEF Written
  <2>2. server' \in [Keys -> Docs \cup {Absent}] /\ ServerInv'
    BY <1>3, <2>1 DEF TypeOK, ServerInv, ServerCommit, Keys
  <2> QED
    BY <2>2
<1>5. ASSUME w.kind = "add"
      PROVE  server' \in [Keys -> Docs \cup {Absent}] /\ ServerInv'
  <2> DEFINE doc == [uid |-> w.uid, id |-> NoId, text |-> w.data]
  <2>1. server' = [server EXCEPT ![w.key] = doc]
    BY <1>2, <1>5 DEF Written
  <2>2. doc \in Docs /\ w.key \in Ids /\ author[w.key] = w.uid
    BY <1>1, <1>3, <1>5 DEF Docs, Keys, WriteOK
  <2>3. server' \in [Keys -> Docs \cup {Absent}] /\ ServerInv'
    BY <1>3, <2>1, <2>2, NamesAssumption DEF TypeOK, ServerInv, ServerCommit, Keys
  <2> QED
    BY <2>3
<1>6. ASSUME w.kind = "id"
      PROVE  server' \in [Keys -> Docs \cup {Absent}] /\ ServerInv'
  <2> DEFINE doc == [server[w.key] EXCEPT !.id = w.data]
  <2>1. server' = [server EXCEPT ![w.key] = doc]
    BY <1>2, <1>6 DEF Written
  <2>2. server[w.key] \in Docs /\ w.key \in Ids /\ w.data = w.key
    BY <1>1, <1>2, <1>3, <1>6 DEF Accepts, TypeOK, WriteOK
  <2>3. doc \in Docs /\ doc.uid = server[w.key].uid /\ doc.id = w.key
    BY <2>2 DEF Docs, Keys
  <2> HIDE DEF doc
  <2>4. server' \in [Keys -> Docs \cup {Absent}] /\ ServerInv'
    BY <1>3, <2>1, <2>2, <2>3, NamesAssumption, AbsentAssumption
       DEF TypeOK, ServerInv, ServerCommit, Keys
  <2> QED
    BY <2>4
<1>7. ASSUME w.kind = "edit"
      PROVE  server' \in [Keys -> Docs \cup {Absent}] /\ ServerInv'
  <2> DEFINE doc == [server[w.key] EXCEPT !.text = w.data]
  <2>1. server' = [server EXCEPT ![w.key] = doc]
    BY <1>2, <1>7 DEF Written
  <2>2. server[w.key] \in Docs /\ w.key \in Ids /\ w.data \in Texts
    BY <1>1, <1>2, <1>3, <1>7 DEF Accepts, TypeOK, WriteOK
  <2>3. doc \in Docs /\ doc.uid = server[w.key].uid /\ doc.id = server[w.key].id
    BY <2>2 DEF Docs, Keys
  <2> HIDE DEF doc
  <2>4. server' \in [Keys -> Docs \cup {Absent}] /\ ServerInv'
    BY <1>3, <2>1, <2>2, <2>3, NamesAssumption, AbsentAssumption
       DEF TypeOK, ServerInv, ServerCommit, Keys
  <2> QED
    BY <2>4
<1>8. server' \in [Keys -> Docs \cup {Absent}] /\ ServerInv'
  BY <1>3, <1>4, <1>5, <1>6, <1>7 DEF Kinds
<1>9. PipelineOK'
  BY DEF ServerCommit, TypeOK, PipelineOK, Pending
<1>10. TypeOK'
  BY <1>8, <1>9 DEF ServerCommit, TypeOK
<1>11. QueueInv' /\ ScreenInv'
  BY DEF ServerCommit, QueueInv, ScreenInv
<1> QED
  BY <1>8, <1>10, <1>11

\* A write leaves the front of the queue, with its result or with an error.
LEMMA DropFirstOK ==
    ASSUME IInv, NEW d \in Devices, session[d] # None, Pending(d) # <<>>, DropFirst(d),
           NEW n \in Nat, n <= Len(Pending(d)) - 1,
           inFlight' = [inFlight EXCEPT ![d] = n],
           lostId' \subseteq Ids,
           UNCHANGED <<server, author, session, half, list, open, account, strays>>
    PROVE  IInv'
<1> DEFINE u == session[d]
<1> USE DEF IInv
<1>1. u \in Users /\ queue[d][u] # <<>> /\ queue' = [queue EXCEPT ![d][u] = Tail(@)]
  BY DEF TypeOK, Pending, DropFirst
<1>2. /\ queue' \in [Devices -> [Users -> Seq(Writes)]]
      /\ QueueInv'
      /\ Len(queue'[d][u]) = Len(queue[d][u]) - 1
      /\ \A e \in Devices : e # d => queue'[e] = queue[e]
  <2> HIDE DEF u
  <2> QED
    BY <1>1, TailOK
<1>3. PipelineOK'
  BY <1>2 DEF TypeOK, PipelineOK, Pending
<1>4. TypeOK'
  BY <1>2, <1>3 DEF TypeOK
<1>5. ScreenInv' /\ ServerInv'
  BY DEF ScreenInv, ServerInv
<1> QED
  BY <1>2, <1>4, <1>5

LEMMA MutationResultOK ==
    ASSUME IInv, NEW d \in Devices, OnWriteStreamMutationResult(d)
    PROVE  IInv'
<1>1. /\ inFlight[d] \in Nat /\ inFlight[d] > 0 /\ inFlight[d] <= Len(Pending(d))
      /\ Len(Pending(d)) \in Nat /\ Pending(d) # <<>>
  BY DEF IInv, TypeOK, PipelineOK, Pending, OnWriteStreamMutationResult
<1>2. inFlight[d] - 1 \in Nat /\ inFlight[d] - 1 <= Len(Pending(d)) - 1
  BY <1>1
<1> QED
  BY <1>1, <1>2, DropFirstOK DEF OnWriteStreamMutationResult, IInv, TypeOK

LEMMA HandleWriteErrorOK ==
    ASSUME IInv, NEW d \in Devices, HandleWriteError(d)
    PROVE  IInv'
<1>1. session[d] \in Users /\ Pending(d) \in Seq(Writes) /\ Pending(d) # <<>>
  BY DEF IInv, TypeOK, Pending, HandleWriteError
<1>2. Head(Pending(d)).kind = "id" => Head(Pending(d)).key \in Ids
  <2>1. 1 \in DOMAIN queue[d][session[d]] /\ Head(Pending(d)) = queue[d][session[d]][1]
    BY <1>1 DEF Pending
  <2>2. WriteOK(queue[d][session[d]][1], session[d], author, strays)
    BY <1>1, <2>1 DEF IInv, QueueInv
  <2> QED
    BY <2>1, <2>2 DEF WriteOK
<1>3. lostId' \subseteq Ids
  BY <1>2 DEF HandleWriteError, IInv, TypeOK
<1>4. inFlight' = [inFlight EXCEPT ![d] = 0] /\ 0 <= Len(Pending(d)) - 1
  BY <1>1 DEF HandleWriteError, IInv, TypeOK
<1>5. session[d] # None /\ DropFirst(d)
      /\ UNCHANGED <<server, author, session, half, list, open, account, strays>>
  BY DEF HandleWriteError
<1> QED
  BY <1>1, <1>3, <1>4, <1>5, DropFirstOK

LEMMA StreamCloseOK ==
    ASSUME IInv, NEW d \in Devices, OnWriteStreamClose(d)
    PROVE  IInv'
<1> USE DEF IInv
<1>1. TypeOK'
  BY DEF OnWriteStreamClose, TypeOK, PipelineOK, Pending
<1>2. QueueInv' /\ ServerInv' /\ ScreenInv'
  BY DEF OnWriteStreamClose, QueueInv, ServerInv, ScreenInv
<1> QED
  BY <1>1, <1>2

LEMMA CredentialChangeOK ==
    ASSUME IInv, NEW d \in Devices, NEW s \in Users \cup {None}, HandleCredentialChange(d, s)
    PROVE  IInv'
<1> USE DEF IInv
<1>1. TypeOK'
  BY DEF HandleCredentialChange, TypeOK, PipelineOK, Pending
<1>2. ScreenInv'
  BY DEF HandleCredentialChange, ScreenInv, TypeOK
<1>3. QueueInv' /\ ServerInv'
  BY DEF HandleCredentialChange, QueueInv, ServerInv
<1> QED
  BY <1>1, <1>2, <1>3

LEMMA CreateUserOK ==
    ASSUME IInv, NEW d \in Devices, NEW u \in Users, CreateUser(d, u)
    PROVE  IInv'
<1> USE DEF IInv
<1>1. TypeOK'
  BY NamesAssumption DEF CreateUser, TypeOK, PipelineOK, Pending
<1>2. ScreenInv'
  BY NamesAssumption DEF CreateUser, ScreenInv, RowOK, TypeOK
<1>3. QueueInv' /\ ServerInv'
  BY DEF CreateUser, QueueInv, ServerInv
<1> QED
  BY <1>1, <1>2, <1>3

LEMMA RestartOK ==
    ASSUME IInv, NEW d \in Devices, Restart(d)
    PROVE  IInv'
<1> USE DEF IInv
<1>1. TypeOK'
  BY DEF Restart, TypeOK, PipelineOK, Pending
<1>2. ScreenInv'
  BY DEF Restart, ScreenInv, TypeOK
<1>3. QueueInv' /\ ServerInv'
  BY DEF Restart, QueueInv, ServerInv
<1> QED
  BY <1>1, <1>2, <1>3

\* No step of any phone, and no stuttering, breaks the inductive invariant.
LEMMA NextIInv == IInv /\ [Next]_vars => IInv'
<1> SUFFICES ASSUME IInv, [Next]_vars PROVE IInv'
  OBVIOUS
<1>1. ASSUME NEW d \in Devices, Screens(d) PROVE IInv'
  <2>1. CASE \E k \in Ids, t \in Texts : SaveOffer(d, k, t)
    BY <2>1, SaveOfferOK
  <2>2. CASE SaveOfferId(d)
    BY <2>2, SaveOfferIdOK
  <2>3. CASE LoadOffersForIUD(d)
    BY <2>3, LoadOffersOK
  <2>4. CASE \E row \in Rows : OpenOffer(d, row)
    BY <2>4, OpenOfferOK
  <2>5. CASE CloseOffer(d)
    BY <2>5, CloseOfferOK
  <2>6. CASE \E t \in Texts : UpdateOffer(d, t)
    <3>1. PICK t \in Texts : UpdateOffer(d, t)
      BY <2>6
    <3>2. queue' = [queue EXCEPT ![d][session[d]] =
                       Append(@, Write("edit", open[d].id, session[d], t))]
      BY <3>1 DEF UpdateOffer, WriteMutations
    <3> QED
      BY <3>1, <3>2, ButtonOK DEF UpdateOffer
  <2>7. CASE DeleteOffer(d)
    <3>1. queue' = [queue EXCEPT ![d][session[d]] =
                       Append(@, Write("delete", open[d].id, session[d], None))]
      BY <2>7 DEF DeleteOffer, WriteMutations
    <3> QED
      BY <2>7, <3>1, ButtonOK DEF DeleteOffer
  <2> QED
    BY <1>1, <2>1, <2>2, <2>3, <2>4, <2>5, <2>6, <2>7 DEF Screens
<1>2. ASSUME NEW d \in Devices, Network(d) PROVE IInv'
  BY <1>2, ServerCommitOK, MutationResultOK, HandleWriteErrorOK, StreamCloseOK DEF Network
<1>3. ASSUME NEW d \in Devices, NEW s \in Users \cup {None}, HandleCredentialChange(d, s)
      PROVE  IInv'
  BY <1>3, CredentialChangeOK
<1>4. ASSUME NEW d \in Devices, NEW u \in Users, CreateUser(d, u) PROVE IInv'
  BY <1>4, CreateUserOK
<1>5. ASSUME NEW d \in Devices, Restart(d) PROVE IInv'
  BY <1>5, RestartOK
<1>6. ASSUME UNCHANGED vars PROVE IInv'
  BY <1>6 DEF vars, IInv, TypeOK, PipelineOK, Pending, QueueInv, ServerInv, ScreenInv
<1> QED
  BY <1>1, <1>2, <1>3, <1>4, <1>5, <1>6 DEF Next

\* The inductive invariant holds in every run of every number of phones.
THEOREM Invariance == Spec => []IInv
BY InitIInv, NextIInv, PTL DEF Spec

-----------------------------------------------------------------------------
(* What follows from it.                                                    *)

\* Every variable keeps its type; the count of committed writes never passes the
\* length of the queue it counts in.
THEOREM TypeCorrect == Spec => []TypeOK
<1>1. IInv => TypeOK
  BY DEF IInv
<1> QED
  BY <1>1, Invariance, PTL

\* Rows, screens and documents name their own ad or say "No Id": the edit and delete
\* buttons never reach another ad (IdNamesItsAd).
THEOREM IdCorrect == Spec => []IdNamesItsAd
<1>1. IInv => IdNamesItsAd
  BY DEF IInv, ServerInv, ScreenInv, RowOK, IdNamesItsAd
<1> QED
  BY <1>1, Invariance, PTL

\* A step that changes the collection is the commit of a write of a signed-in user.
LEMMA CommitByAuthor ==
    ASSUME IInv, [Next]_vars, server' # server
    PROVE  \E d \in Devices :
              LET w == Pending(d)[inFlight[d] + 1]
              IN /\ ServerCommit(d)
                 /\ session[d] \in Users
                 /\ inFlight'[d] > inFlight[d]
                 /\ WriteOK(w, session[d], author, strays)
                 /\ Accepts(server, w)
                 /\ server' = [server EXCEPT ![w.key] = Written(server[w.key], w)]
<1>1. PICK d \in Devices : ServerCommit(d)
  <2>1. ASSUME NEW d \in Devices, Screens(d) PROVE UNCHANGED server
    BY <2>1 DEF Screens, SaveOffer, SaveOfferId, LoadOffersForIUD, OpenOffer, CloseOffer,
                UpdateOffer, DeleteOffer
  <2>2. ASSUME NEW d \in Devices, Network(d) PROVE ServerCommit(d) \/ UNCHANGED server
    BY <2>2 DEF Network, OnWriteStreamMutationResult, HandleWriteError, OnWriteStreamClose
  <2>3. ASSUME NEW d \in Devices, NEW s, HandleCredentialChange(d, s) PROVE UNCHANGED server
    BY <2>3 DEF HandleCredentialChange
  <2>4. ASSUME NEW d \in Devices, NEW u, CreateUser(d, u) PROVE UNCHANGED server
    BY <2>4 DEF CreateUser
  <2>5. ASSUME NEW d \in Devices, Restart(d) PROVE UNCHANGED server
    BY <2>5 DEF Restart
  <2> QED
    BY <2>1, <2>2, <2>3, <2>4, <2>5 DEF Next, vars
<1> DEFINE w == Pending(d)[inFlight[d] + 1]
<1>2. session[d] \in Users /\ inFlight'[d] > inFlight[d]
  BY <1>1 DEF ServerCommit, IInv, TypeOK
<1>3. WriteOK(w, session[d], author, strays)
  BY <1>1, NextWriteOK DEF ServerCommit, IInv
<1>4. Accepts(server, w) /\ server' = [server EXCEPT ![w.key] = Written(server[w.key], w)]
  BY <1>1 DEF ServerCommit, Commit
<1> QED
  BY <1>1, <1>2, <1>3, <1>4

\* Only a write of a user signed in on the phone that sends it makes, changes or removes
\* an ad, and that user is its author or found it open (OnlyTheAuthorChanges).
THEOREM AuthorOnly == Spec => OnlyTheAuthorChanges
<1>1. IInv /\ [Next]_vars =>
        [\A k \in Ids : server'[k] # server[k] =>
            \E d \in Devices :
                /\ inFlight'[d] > inFlight[d]
                /\ session[d] = author[k] \/ <<session[d], k>> \in strays]_vars
  <2> SUFFICES ASSUME IInv, [Next]_vars, NEW k \in Ids, server'[k] # server[k]
               PROVE  \E d \in Devices :
                         /\ inFlight'[d] > inFlight[d]
                         /\ session[d] = author[k] \/ <<session[d], k>> \in strays
    OBVIOUS
  <2>1. PICK d \in Devices :
            LET w == Pending(d)[inFlight[d] + 1]
            IN /\ inFlight'[d] > inFlight[d]
               /\ WriteOK(w, session[d], author, strays)
               /\ server' = [server EXCEPT ![w.key] = Written(server[w.key], w)]
    BY CommitByAuthor
  <2> DEFINE w == Pending(d)[inFlight[d] + 1]
  <2>2. w.key = k
    <3> HIDE DEF w
    <3> QED
      BY <2>1 DEF IInv, TypeOK, Keys, w
  <2>3. author[k] = session[d] \/ <<session[d], k>> \in strays
    BY <2>1, <2>2 DEF WriteOK
  <2> QED
    BY <2>1, <2>3
<1> QED
  BY <1>1, Invariance, PTL DEF Spec, OnlyTheAuthorChanges

-----------------------------------------------------------------------------
(* Anuncio implements the board of module Mural.                            *)

shown == [k \in Ids |-> IF server[k] = Absent THEN Absent
                        ELSE [uid |-> server[k].uid, text |-> server[k].text]]

\* A commit shows, rewrites or removes an ad: for its author, or for a stray.
LEMMA CommitOnBoard ==
    ASSUME IInv, [Next]_vars, server' # server
    PROVE  Board!Next \/ UNCHANGED Board!vars
<1>1. PICK d \in Devices :
          LET w == Pending(d)[inFlight[d] + 1]
          IN /\ ServerCommit(d)
             /\ session[d] \in Users
             /\ WriteOK(w, session[d], author, strays)
             /\ Accepts(server, w)
             /\ server' = [server EXCEPT ![w.key] = Written(server[w.key], w)]
  BY CommitByAuthor
<1> DEFINE w == Pending(d)[inFlight[d] + 1]
           u == session[d]
<1>2. /\ u \in Users /\ WriteOK(w, u, author, strays) /\ Accepts(server, w)
      /\ server' = [server EXCEPT ![w.key] = Written(server[w.key], w)]
      /\ author' = author /\ session' = session /\ strays' = strays
      /\ Board!SignedIn(u)
  BY <1>1 DEF ServerCommit, Board!SignedIn
<1>3. /\ server \in [Keys -> Docs \cup {Absent}] /\ server[NoId] = Absent
      /\ \A j \in Ids : server[j] # Absent => server[j].uid = author[j]
  BY DEF IInv, TypeOK, ServerInv
<1> HIDE DEF w, u
<1>4. w.kind \in Kinds /\ w.key \in Keys
  BY <1>2 DEF WriteOK, Writes
<1>5. CASE w.key = NoId
  <2>1. \A j \in Ids : server'[j] = server[j]
    BY <1>2, <1>3, <1>5, NamesAssumption DEF Keys
  <2> QED
    BY <1>2, <2>1 DEF Board!vars
<1>6. CASE w.key \in Ids
  <2>1. author[w.key] = u \/ (w.kind \in {"edit", "delete"} /\ <<u, w.key>> \in strays)
    BY <1>2, <1>6 DEF WriteOK
  <2>2. shown' = [j \in Ids |-> IF server'[j] = Absent THEN Absent
                               ELSE [uid |-> server'[j].uid, text |-> server'[j].text]]
    BY DEF shown
  <2>3. \A j \in Ids : j # w.key => server'[j] = server[j]
    BY <1>2, <1>3 DEF Keys
  <2>4. server'[w.key] = Written(server[w.key], w)
    BY <1>2, <1>3, <1>4
  <2>5. CASE w.kind = "delete"
    <3>1. server'[w.key] = Absent
      BY <2>4, <2>5 DEF Written
    <3>2. shown' = [shown EXCEPT ![w.key] = Absent]
      BY <1>6, <2>2, <2>3, <3>1 DEF shown
    <3>3. Board!TakeDown(u, w.key)
      BY <1>2, <2>1, <3>2 DEF Board!TakeDown, shown
    <3>4. \E v \in Users, j \in Ids : Board!TakeDown(v, j)
      BY <1>2, <1>6, <3>3 DEF Board!TakeDown
    <3> QED
      BY <3>4 DEF Board!Next
  <2>6. ASSUME author[w.key] = u, NEW t \in Texts, server'[w.key] # Absent,
               server'[w.key].uid = u, server'[w.key].text = t
        PROVE  Board!Next
    <3>1. shown' = [shown EXCEPT ![w.key] = [uid |-> u, text |-> t]]
      BY <1>6, <2>2, <2>3, <2>6 DEF shown
    <3>2. Board!Show(u, w.key, t)
      BY <1>2, <2>6, <3>1 DEF Board!Show, shown
    <3> QED
      BY <1>2, <1>6, <3>2 DEF Board!Next
  <2>7. CASE w.kind = "add"
    <3> DEFINE doc == [uid |-> w.uid, id |-> NoId, text |-> w.data]
    <3>1. server'[w.key] = doc
      BY <2>4, <2>7 DEF Written
    <3>2. author[w.key] = u /\ w.uid = u /\ w.data \in Texts /\ doc \in Docs
      BY <1>2, <2>1, <2>7 DEF WriteOK, Docs, Keys
    <3> QED
      BY <2>6, <3>1, <3>2, AbsentAssumption
  <2>8. ASSUME w.kind \in {"id", "edit"}
        PROVE  server[w.key] \in Docs /\ server[w.key].uid = author[w.key]
    BY <1>2, <1>3, <1>4, <1>6, <2>8 DEF Accepts
  <2>9. CASE w.kind = "id"
    <3> DEFINE doc == [server[w.key] EXCEPT !.id = w.data]
    <3>1. server'[w.key] = doc
      BY <2>4, <2>9 DEF Written
    <3>2. author[w.key] = u /\ doc \in Docs /\ doc.uid = u /\ doc.text \in Texts
      BY <1>2, <1>6, <2>1, <2>8, <2>9 DEF Docs, Keys, WriteOK
    <3> QED
      BY <2>6, <3>1, <3>2, AbsentAssumption
  <2>10. CASE w.kind = "edit"
    <3> DEFINE doc == [server[w.key] EXCEPT !.text = w.data]
    <3>1. server'[w.key] = doc
      BY <2>4, <2>10 DEF Written
    <3>2. doc \in Docs /\ doc.uid = author[w.key] /\ doc.text = w.data /\ w.data \in Texts
      BY <1>2, <2>8, <2>10 DEF Docs, WriteOK
    <3>3. CASE author[w.key] = u
      BY <2>6, <3>1, <3>2, <3>3, AbsentAssumption
    <3>4. CASE <<u, w.key>> \in strays
      <4>1. server[w.key] # Absent /\ server[w.key] \in Docs
        BY <2>8, <2>10, AbsentAssumption
      <4>2. shown[w.key] = [uid |-> server[w.key].uid, text |-> server[w.key].text]
        BY <1>6, <4>1 DEF shown
      <4>3. shown'[w.key] = [uid |-> server[w.key].uid, text |-> w.data]
        BY <1>6, <2>2, <2>8, <2>10, <3>1, <3>2, AbsentAssumption
      <4>4. shown' = [shown EXCEPT ![w.key].text = w.data]
        BY <1>6, <2>2, <2>3, <4>2, <4>3 DEF shown
      <4>5. shown[w.key] # Absent
        BY <4>1, <4>2, AbsentAssumption DEF Docs
      <4>6. Board!Rewrite(u, w.key, w.data)
        BY <1>2, <3>4, <4>4, <4>5 DEF Board!Rewrite, shown
      <4>7. \E v \in Users, j \in Ids, t \in Texts : Board!Rewrite(v, j, t)
        BY <1>2, <1>6, <3>2, <4>6 DEF Board!Rewrite
      <4> QED
        BY <4>7 DEF Board!Next
    <3> QED
      BY <2>1, <3>3, <3>4
  <2> QED
    BY <1>4, <2>5, <2>7, <2>9, <2>10 DEF Kinds
<1> QED
  BY <1>4, <1>5, <1>6 DEF Keys

\* Publishing, editing and deleting through queues, retries and refusals implement
\* the board: ads are shown by their signed-in author alone, changed and removed by the
\* author or by who found them open, and stay their author's (ImplementsMural).
THEOREM Refinement == Spec => ImplementsMural
<1>1. Init => Board!Init
  BY DEF Init, Board!Init, Keys
<1>2. IInv /\ [Next]_vars => [Board!Next]_(Board!vars)
  <2> SUFFICES ASSUME IInv, [Next]_vars
               PROVE  Board!Next \/ UNCHANGED Board!vars
    OBVIOUS
  <2>1. CASE server' # server
    BY <2>1, CommitOnBoard
  <2>2. CASE UNCHANGED <<server, author, session, strays>>
    BY <2>2 DEF Board!vars
  <2>3. ASSUME NEW d \in Devices, NEW k \in Ids, NEW t \in Texts, SaveOffer(d, k, t)
        PROVE  Board!Next
    <3>1. session[d] \in Users
      BY <2>3 DEF SaveOffer, IInv, TypeOK
    <3>2. Board!Write(session[d], k)
      BY <2>3 DEF SaveOffer, Board!Write, Board!SignedIn
    <3> QED
      BY <3>1, <3>2 DEF Board!Next
  <2>4. ASSUME NEW d \in Devices, open[d] # None, strays' = Strayed(d),
               UNCHANGED <<server, author, session>>
        PROVE  Board!Next \/ UNCHANGED Board!vars
    <3> DEFINE k == open[d].id
    <3>1. session[d] \in Users /\ (k \in Ids => author[k] # None)
      BY <2>4, NamesAssumption DEF IInv, TypeOK, ScreenInv, RowOK
    <3>2. CASE k \in Ids /\ author[k] # session[d]
      <4>1. strays' = strays \cup {<<session[d], k>>}
        BY <2>4, <3>2 DEF Strayed
      <4>2. Board!FindOpen(session[d], k)
        BY <2>4, <3>1, <3>2, <4>1 DEF Board!FindOpen, Board!SignedIn
      <4> QED
        BY <3>1, <3>2, <4>2 DEF Board!Next
    <3>3. CASE ~(k \in Ids /\ author[k] # session[d])
      BY <2>4, <3>3 DEF Strayed, Board!vars
    <3> QED
      BY <3>2, <3>3
  <2>5. ASSUME NEW d \in Devices, NEW s \in Users \cup {None},
               HandleCredentialChange(d, s) \/ (s \in Users /\ CreateUser(d, s))
        PROVE  Board!Next
    <3>1. Board!Switch(d, s)
      BY <2>5 DEF HandleCredentialChange, CreateUser, Board!Switch
    <3> QED
      BY <3>1 DEF Board!Next
  <2>6. CASE server' = server /\ ~UNCHANGED <<server, author, session, strays>>
    <3>1. PICK d \in Devices : \/ Screens(d)
                               \/ Network(d)
                               \/ \E s \in Users \cup {None} : HandleCredentialChange(d, s)
                               \/ \E u \in Users : CreateUser(d, u)
                               \/ Restart(d)
      BY <2>6 DEF Next, vars
    <3>2. CASE Screens(d)
      <4>1. \/ \E k \in Ids, t \in Texts : SaveOffer(d, k, t)
            \/ \E t \in Texts : UpdateOffer(d, t)
            \/ DeleteOffer(d)
        BY <2>6, <3>2 DEF Screens, SaveOfferId, LoadOffersForIUD, OpenOffer, CloseOffer
      <4> QED
        BY <2>3, <2>4, <4>1 DEF UpdateOffer, DeleteOffer
    <3>3. CASE Network(d)
      BY <2>6, <3>3 DEF Network, ServerCommit, OnWriteStreamMutationResult, HandleWriteError,
                        OnWriteStreamClose
    <3>4. CASE Restart(d)
      BY <2>6, <3>4 DEF Restart
    <3> QED
      BY <2>5, <3>1, <3>2, <3>3, <3>4
  <2> QED
    BY <2>1, <2>2, <2>6
<1> QED
  BY <1>1, <1>2, Invariance, PTL DEF Spec, ImplementsMural, Board!Spec

-----------------------------------------------------------------------------
(* The two writes of saveOffer.  An "add" that is sent again, because its   *)
(* result was lost, sets the field back to "No Id".  It does no harm since  *)
(* the phone that sends it is the only one that holds writes of the         *)
(* publication (OnePhone) and its id write is behind it in the queue        *)
(* (AddFirst, AddFollowed), so an id write that was committed stays the     *)
(* last word (IdCommitted).                                                 *)

\* Write number i of user u on phone d is a write of this kind to ad k.
At(d, u, i, k, kind) ==
    i \in DOMAIN queue[d][u] /\ queue[d][u][i].key = k /\ queue[d][u][i].kind = kind

\* Phone d is between the first and the last moment of publishing ad k.
Publishing(d, k) ==
    \/ half[d] = k
    \/ \E u \in Users, i \in Nat : At(d, u, i, k, "add") \/ At(d, u, i, k, "id")

OnePhone ==
    \A d, e \in Devices, k \in Ids : Publishing(d, k) /\ Publishing(e, k) => d = e

AddFirst ==
    \A d \in Devices, u \in Users, k \in Ids, i, j \in Nat :
        At(d, u, i, k, "add") /\ At(d, u, j, k, "id") => i < j

AddFollowed ==
    \A d \in Devices, u \in Users, k \in Ids, i \in Nat :
        At(d, u, i, k, "add") => \/ \E j \in Nat : At(d, u, j, k, "id")
                                 \/ half[d] = k
                                 \/ k \in lostId

IdCommitted ==
    \A d \in Devices, u \in Users, k \in Ids, i \in Nat :
        session[d] = u /\ i <= inFlight[d] /\ At(d, u, i, k, "id") /\ server[k] # Absent
            => server[k].id # NoId

SecondWrite ==
    \A k \in Ids : server[k] # Absent /\ server[k].id = NoId =>
        \/ \E d \in Devices, u \in Users, i \in Nat : At(d, u, i, k, "id")
        \/ \E d \in Devices : half[d] = k
        \/ k \in lostId

PubInv == OnePhone /\ AddFirst /\ AddFollowed /\ IdCommitted /\ SecondWrite

\* The initial state: empty queues, an empty collection.
LEMMA InitPub == Init => PubInv
BY NamesAssumption
   DEF Init, PubInv, OnePhone, AddFirst, AddFollowed, IdCommitted, SecondWrite,
       Publishing, At, Keys

\* A waiting write of saveOffer is in a queue of the ad's author.
LEMMA InAuthorsQueue ==
    ASSUME IInv, NEW d \in Devices, NEW u \in Users, NEW i, NEW k \in Ids,
           NEW kind \in {"add", "id"}, At(d, u, i, k, kind)
    PROVE  author[k] = u /\ queue[d][u][i] \in Writes /\ i \in Nat
<1> DEFINE w == queue[d][u][i]
<1>1. w \in Writes /\ i \in Nat
  BY DEF IInv, TypeOK, At
<1>2. WriteOK(w, u, author, strays) /\ w.key = k /\ w.kind = kind
  BY DEF IInv, QueueInv, At
<1> QED
  BY <1>1, <1>2 DEF WriteOK

\* The two ways a queue changes.
Enqueues(d, u, w) == queue' = [queue EXCEPT ![d][u] = Append(@, w)]
Dequeues(d, u) == queue[d][u] # <<>> /\ queue' = [queue EXCEPT ![d][u] = Tail(@)]

\* A new write is the last of its queue; the others keep their places.
LEMMA Appended ==
    ASSUME IInv, NEW d \in Devices, NEW u \in Users, NEW w \in Writes, Enqueues(d, u, w)
    PROVE  \A e \in Devices, v \in Users, i \in Nat, k \in Ids, kind \in {"add", "id"} :
              At(e, v, i, k, kind)' <=>
                 \/ At(e, v, i, k, kind)
                 \/ e = d /\ v = u /\ i = Len(queue[d][u]) + 1 /\ k = w.key /\ kind = w.kind
<1>1. queue \in [Devices -> [Users -> Seq(Writes)]]
  BY DEF IInv, TypeOK
<1> SUFFICES ASSUME NEW e \in Devices, NEW v \in Users, NEW i \in Nat, NEW k \in Ids,
                    NEW kind \in {"add", "id"}
             PROVE  At(e, v, i, k, kind)' <=>
                       \/ At(e, v, i, k, kind)
                       \/ e = d /\ v = u /\ i = Len(queue[d][u]) + 1 /\ k = w.key /\ kind = w.kind
  OBVIOUS
<1>2. CASE e = d /\ v = u
  <2> DEFINE q == queue[d][u]
  <2>1. queue'[d][u] = Append(q, w) /\ q \in Seq(Writes)
    BY <1>1 DEF Enqueues
  <2> HIDE DEF q
  <2>2. /\ DOMAIN Append(q, w) = DOMAIN q \cup {Len(q) + 1}
        /\ Len(q) + 1 \notin DOMAIN q
        /\ \A j \in DOMAIN q : Append(q, w)[j] = q[j]
        /\ Append(q, w)[Len(q) + 1] = w
    BY <2>1
  <2> QED
    BY <1>2, <2>1, <2>2 DEF At, q
<1>3. CASE ~(e = d /\ v = u)
  <2>1. queue'[e][v] = queue[e][v]
    BY <1>1, <1>3 DEF Enqueues
  <2> QED
    BY <1>3, <2>1 DEF At
<1> QED
  BY <1>2, <1>3

\* When the oldest write leaves, the ones behind it move up.
LEMMA Dropped ==
    ASSUME IInv, NEW d \in Devices, NEW u \in Users, Dequeues(d, u)
    PROVE  /\ \A i \in Nat, k \in Ids, kind \in {"add", "id"} :
                 At(d, u, i, k, kind)' <=> i > 0 /\ At(d, u, i + 1, k, kind)
           /\ \A e \in Devices, v \in Users, i \in Nat, k \in Ids, kind \in {"add", "id"} :
                 ~(e = d /\ v = u) => (At(e, v, i, k, kind)' <=> At(e, v, i, k, kind))
<1>1. queue \in [Devices -> [Users -> Seq(Writes)]]
  BY DEF IInv, TypeOK
<1>2. ASSUME NEW i \in Nat, NEW k \in Ids,
                    NEW kind \in {"add", "id"}
      PROVE  At(d, u, i, k, kind)' <=> i > 0 /\ At(d, u, i + 1, k, kind)
  <2> DEFINE q == queue[d][u]
  <2>1. queue'[d][u] = Tail(q) /\ q \in Seq(Writes) /\ q # <<>>
    BY <1>1 DEF Dequeues
  <2> HIDE DEF q
  <2>2. /\ i \in DOMAIN Tail(q) <=> i > 0 /\ i + 1 \in DOMAIN q
        /\ i \in DOMAIN Tail(q) => Tail(q)[i] = q[i + 1]
    BY <2>1
  <2> QED
    BY <2>1, <2>2 DEF At, q
<1>3. ASSUME NEW e \in Devices, NEW v \in Users, NEW i \in Nat, NEW k \in Ids,
             NEW kind \in {"add", "id"}, ~(e = d /\ v = u)
      PROVE  At(e, v, i, k, kind)' <=> At(e, v, i, k, kind)
  <2>1. queue'[e][v] = queue[e][v]
    BY <1>1, <1>3 DEF Dequeues
  <2> QED
    BY <2>1 DEF At
<1> QED
  BY <1>2, <1>3

-----------------------------------------------------------------------------
(* Each kind of step keeps the invariant.                                   *)

\* Publishing a new ad: nobody holds a write of it, it is in no queue.
LEMMA SaveOfferPub ==
    ASSUME IInv, PubInv, NEW d \in Devices, NEW k \in Ids, NEW t \in Texts, SaveOffer(d, k, t)
    PROVE  PubInv'
<1>1. PICK u \in Users : u = session[d] /\ half[d] = None /\ author[k] = None
  BY DEF SaveOffer, IInv, TypeOK
<1> DEFINE w == Write("add", k, u, t)
<1>2. w \in Writes /\ w.key = k /\ w.kind = "add"
  BY <1>1 DEF Write, Writes, Kinds, Keys
<1>3. /\ Enqueues(d, u, w)
      /\ half' = [half EXCEPT ![d] = k]
      /\ UNCHANGED <<server, session, inFlight, lostId>>
  BY <1>1 DEF SaveOffer, WriteMutations, Enqueues
<1> HIDE DEF w
<1>4. \A e \in Devices, v \in Users, i \in Nat, j \in Ids, kind \in {"add", "id"} :
         At(e, v, i, j, kind)' <=>
            \/ At(e, v, i, j, kind)
            \/ e = d /\ v = u /\ i = Len(queue[d][u]) + 1 /\ j = k /\ kind = "add"
  <2>1. \A e \in Devices, v \in Users, i \in Nat, j \in Ids, kind \in {"add", "id"} :
           At(e, v, i, j, kind)' <=>
              \/ At(e, v, i, j, kind)
              \/ e = d /\ v = u /\ i = Len(queue[d][u]) + 1 /\ j = w.key /\ kind = w.kind
    BY <1>1, <1>2, <1>3, Appended
  <2> QED
    BY <1>2, <2>1
<1>5. \A e \in Devices : /\ \A v \in Users, i \in Nat, kind \in {"add", "id"} : ~At(e, v, i, k, kind)
                         /\ half[e] # k
  <2>1. \A e \in Devices, v \in Users, i \in Nat, kind \in {"add", "id"} : ~At(e, v, i, k, kind)
    BY <1>1, InAuthorsQueue, NamesAssumption
  <2>2. \A e \in Devices : half[e] # k
    BY <1>1, NamesAssumption DEF IInv, TypeOK, PipelineOK, ScreenInv
  <2> QED
    BY <2>1, <2>2
<1>6. half'[d] = k /\ \A e \in Devices : e # d => half'[e] = half[e]
  BY <1>3 DEF IInv, TypeOK
<1>7. \A e \in Devices, j \in Ids : Publishing(e, j)' => Publishing(e, j) \/ (e = d /\ j = k)
  BY <1>4, <1>6 DEF Publishing
<1>8. \A e \in Devices : ~Publishing(e, k)
  BY <1>5 DEF Publishing
<1>9. OnePhone'
  BY <1>7, <1>8 DEF PubInv, OnePhone
<1>10. AddFirst'
  BY <1>4, <1>5 DEF PubInv, AddFirst
<1>11. AddFollowed'
  BY <1>3, <1>4, <1>6, <1>1, NamesAssumption DEF PubInv, AddFollowed
<1>12. IdCommitted'
  BY <1>3, <1>4 DEF PubInv, IdCommitted
<1>13. SecondWrite'
  BY <1>1, <1>3, <1>4, <1>6, NamesAssumption DEF PubInv, SecondWrite
<1> QED
  BY <1>9, <1>10, <1>11, <1>12, <1>13 DEF PubInv

\* The second write: behind the first, and new to the backend.
LEMMA SaveOfferIdPub ==
    ASSUME IInv, PubInv, NEW d \in Devices, SaveOfferId(d)
    PROVE  PubInv'
<1>1. PICK u \in Users, k \in Ids : u = session[d] /\ k = half[d]
  <2>1. half[d] \in Ids /\ session[d] # None
    BY NamesAssumption DEF SaveOfferId, IInv, TypeOK, PipelineOK
  <2> QED
    BY <2>1 DEF IInv, TypeOK
<1> DEFINE w == Write("id", k, u, k)
<1>2. w \in Writes /\ w.key = k /\ w.kind = "id"
  BY <1>1 DEF Write, Writes, Kinds, Keys
<1>3. /\ Enqueues(d, u, w)
      /\ half' = [half EXCEPT ![d] = None]
      /\ UNCHANGED <<server, session, inFlight, lostId>>
  BY <1>1 DEF SaveOfferId, Enqueues
<1> DEFINE n == Len(queue[d][u]) + 1
<1>4. /\ \A i \in Nat, j \in Ids, kind \in {"add", "id"} : At(d, u, i, j, kind) => i < n
      /\ n \in Nat /\ inFlight[d] < n
  <2>1. queue[d][u] \in Seq(Writes) /\ inFlight[d] \in Nat
    BY DEF IInv, TypeOK
  <2>2. inFlight[d] <= Len(queue[d][u])
    BY <1>1, NamesAssumption DEF IInv, TypeOK, PipelineOK, Pending
  <2> QED
    BY <2>1, <2>2 DEF At
<1>5. author[k] = u
  BY <1>1, NamesAssumption DEF IInv, ScreenInv
<1>6. half[d] = k
  BY <1>1
<1> HIDE DEF w, n
<1>7. \A e \in Devices, v \in Users, i \in Nat, j \in Ids, kind \in {"add", "id"} :
         At(e, v, i, j, kind)' <=>
            \/ At(e, v, i, j, kind)
            \/ e = d /\ v = u /\ i = n /\ j = k /\ kind = "id"
  <2>1. \A e \in Devices, v \in Users, i \in Nat, j \in Ids, kind \in {"add", "id"} :
           At(e, v, i, j, kind)' <=>
              \/ At(e, v, i, j, kind)
              \/ e = d /\ v = u /\ i = n /\ j = w.key /\ kind = w.kind
    BY <1>1, <1>2, <1>3, Appended DEF n
  <2> QED
    BY <1>2, <2>1
<1>8. half'[d] = None /\ \A e \in Devices : e # d => half'[e] = half[e]
  BY <1>3 DEF IInv, TypeOK
<1>9. \A e \in Devices, j \in Ids : Publishing(e, j)' => Publishing(e, j)
  BY <1>6, <1>7, <1>8, NamesAssumption DEF Publishing
<1>10. OnePhone'
  BY <1>9 DEF PubInv, OnePhone
<1>11. AddFirst'
  <2> SUFFICES ASSUME NEW e \in Devices, NEW v \in Users, NEW j \in Ids,
                      NEW i1 \in Nat, NEW i2 \in Nat,
                      At(e, v, i1, j, "add")', At(e, v, i2, j, "id")'
               PROVE  i1 < i2
    BY DEF AddFirst
  <2>1. At(e, v, i1, j, "add")
    BY <1>7
  <2> QED
    BY <1>4, <1>7, <2>1 DEF PubInv, AddFirst
<1>12. AddFollowed'
  <2> SUFFICES ASSUME NEW e \in Devices, NEW v \in Users, NEW j \in Ids, NEW i \in Nat,
                      At(e, v, i, j, "add")'
               PROVE  \/ \E i2 \in Nat : At(e, v, i2, j, "id")'
                      \/ half'[e] = j
                      \/ j \in lostId'
    BY DEF AddFollowed
  <2>1. At(e, v, i, j, "add")
    BY <1>7
  <2>2. CASE e = d /\ j = k
    <3>1. v = u
      BY <1>1, <1>5, <2>1, <2>2, InAuthorsQueue
    <3> QED
      BY <1>4, <1>7, <2>2, <3>1
  <2>3. CASE e = d /\ j # k
    BY <1>3, <1>6, <1>7, <2>1, <2>3 DEF PubInv, AddFollowed
  <2>4. CASE e # d
    BY <1>3, <1>7, <1>8, <2>1, <2>4 DEF PubInv, AddFollowed
  <2> QED
    BY <2>2, <2>3, <2>4
<1>13. IdCommitted'
  <2> SUFFICES ASSUME NEW e \in Devices, NEW v \in Users, NEW j \in Ids, NEW i \in Nat,
                      session[e] = v, i <= inFlight[e], At(e, v, i, j, "id")',
                      server[j] # Absent
               PROVE  server[j].id # NoId
    BY <1>3 DEF IdCommitted
  <2>1. CASE e = d /\ i = n
    BY <1>4, <2>1 DEF IInv, TypeOK
  <2>2. CASE ~(e = d /\ i = n)
    BY <1>7, <2>2 DEF PubInv, IdCommitted
  <2> QED
    BY <2>1, <2>2
<1>14. SecondWrite'
  <2> SUFFICES ASSUME NEW j \in Ids, server[j] # Absent, server[j].id = NoId
               PROVE  \/ \E e \in Devices, v \in Users, i \in Nat : At(e, v, i, j, "id")'
                      \/ \E e \in Devices : half'[e] = j
                      \/ j \in lostId'
    BY <1>3 DEF SecondWrite
  <2>1. CASE j = k
    BY <1>1, <1>4, <1>7, <2>1
  <2>2. CASE j # k
    BY <1>3, <1>6, <1>7, <1>8, <2>2 DEF PubInv, SecondWrite
  <2> QED
    BY <2>1, <2>2
<1> QED
  BY <1>10, <1>11, <1>12, <1>13, <1>14 DEF PubInv

\* An edit or a delete: no publication is touched.
LEMMA ButtonPub ==
    ASSUME IInv, PubInv, NEW d \in Devices,
           NEW w \in Writes, w.kind \in {"edit", "delete"},
           NEW u \in Users, Enqueues(d, u, w),
           UNCHANGED <<server, session, inFlight, half, lostId>>
    PROVE  PubInv'
<1>1. \A e \in Devices, v \in Users, i \in Nat, j \in Ids, kind \in {"add", "id"} :
         At(e, v, i, j, kind)' <=>
            \/ At(e, v, i, j, kind)
            \/ e = d /\ v = u /\ i = Len(queue[d][u]) + 1 /\ j = w.key /\ kind = w.kind
  BY Appended
<1>2. \A e \in Devices, v \in Users, i \in Nat, j \in Ids :
         /\ At(e, v, i, j, "add")' <=> At(e, v, i, j, "add")
         /\ At(e, v, i, j, "id")' <=> At(e, v, i, j, "id")
  BY <1>1
<1>3. \A e \in Devices, j \in Ids : Publishing(e, j)' <=> Publishing(e, j)
  BY <1>2 DEF Publishing
<1>4. OnePhone'
  BY <1>3 DEF PubInv, OnePhone
<1>5. AddFirst'
  BY <1>2 DEF PubInv, AddFirst
<1>6. AddFollowed'
  BY <1>2 DEF PubInv, AddFollowed
<1>7. IdCommitted'
  BY <1>2 DEF PubInv, IdCommitted
<1>8. SecondWrite'
  BY <1>2 DEF PubInv, SecondWrite
<1> QED
  BY <1>4, <1>5, <1>6, <1>7, <1>8 DEF PubInv

\* Neither the queues nor the collection change; a publication may be cut short,
\* a phone may forget which writes were committed.
LEMMA CalmPub ==
    ASSUME IInv, PubInv, UNCHANGED <<server, queue>>,
           \A e \in Devices : \/ half'[e] = half[e]
                              \/ half'[e] = None /\ half[e] \in lostId',
           lostId \subseteq lostId',
           \A e \in Devices : \/ inFlight'[e] = 0
                              \/ session'[e] = session[e] /\ inFlight'[e] = inFlight[e]
    PROVE  PubInv'
<1>1. \A e \in Devices, v \in Users, i \in Nat, j \in Ids, kind \in {"add", "id"} :
         /\ At(e, v, i, j, kind)' <=> At(e, v, i, j, kind)
         /\ At(e, v, i, j, kind) => i > 0
  BY DEF At, IInv, TypeOK
<1>2. \A e \in Devices, j \in Ids : Publishing(e, j)' => Publishing(e, j)
  BY <1>1, NamesAssumption DEF Publishing
<1>3. OnePhone'
  BY <1>2 DEF PubInv, OnePhone
<1>4. AddFirst'
  BY <1>1 DEF PubInv, AddFirst
<1>5. AddFollowed'
  BY <1>1 DEF PubInv, AddFollowed
<1>6. IdCommitted'
  BY <1>1 DEF PubInv, IdCommitted
<1>7. SecondWrite'
  BY <1>1 DEF PubInv, SecondWrite
<1> QED
  BY <1>3, <1>4, <1>5, <1>6, <1>7 DEF PubInv

\* The backend commits a write.  A first write sets the field to "No Id": the second
\* is behind it, not committed yet, in this queue and no other.
LEMMA ServerCommitPub ==
    ASSUME IInv, PubInv, NEW d \in Devices, ServerCommit(d)
    PROVE  PubInv'
<1> DEFINE u == session[d]
           n == inFlight[d] + 1
           w == queue[d][u][n]
           k == w.key
<1>1. u \in Users /\ n \in Nat /\ n \in DOMAIN queue[d][u] /\ WriteOK(w, u, author, strays)
  BY DEF ServerCommit, IInv, TypeOK, QueueInv, Pending
<1>2. /\ server' = [server EXCEPT ![k] = Written(server[k], w)]
      /\ Accepts(server, w)
      /\ inFlight' = [inFlight EXCEPT ![d] = n]
      /\ UNCHANGED <<session, queue, half, lostId>>
  BY DEF ServerCommit, Commit, Pending
<1>3. k \in Keys /\ w.kind \in Kinds /\ w.uid = u
  BY <1>1 DEF WriteOK, Writes
<1>4. At(d, u, n, k, w.kind)
  BY <1>1 DEF At
<1>5. u = session[d] /\ n = inFlight[d] + 1 /\ inFlight \in [Devices -> Nat]
  BY DEF IInv, TypeOK
<1>6. \A j \in Keys : j # k => server'[j] = server[j]
  BY <1>2 DEF IInv, TypeOK
<1>7. server'[k] = Written(server[k], w)
  BY <1>2, <1>3 DEF IInv, TypeOK
<1>8. /\ w.kind = "add" => k \in Ids
      /\ w.kind = "id" => k \in Ids /\ server'[k].id # NoId
      /\ w.kind = "edit" => server'[k].id = server[k].id /\ server[k] # Absent
      /\ w.kind = "delete" => server'[k] = Absent
  <2>1. w.kind \in {"add", "id"} => k \in Ids
    BY <1>1 DEF WriteOK
  <2>2. w.kind \in {"id", "edit"} => server[k] \in Docs
    BY <1>2, <1>3 DEF Accepts, IInv, TypeOK
  <2>3. w.kind = "id" => server'[k].id = w.data /\ w.data = k
    BY <1>1, <1>7, <2>2 DEF Written, Docs, WriteOK
  <2>4. w.kind = "edit" => server'[k].id = server[k].id /\ server[k] # Absent
    <3>1. w.kind = "edit" => server'[k] = [server[k] EXCEPT !.text = w.data]
      BY <1>7 DEF Written
    <3> QED
      BY <1>2, <2>2, <3>1 DEF Docs, Accepts
  <2>5. w.kind = "delete" => server'[k] = Absent
    BY <1>7 DEF Written
  <2> QED
    BY <2>1, <2>3, <2>4, <2>5, NamesAssumption
<1>9. ASSUME NEW e \in Devices, NEW v \in Users, NEW i \in Nat, w.kind = "add",
             At(e, v, i, k, "id")
      PROVE  e = d /\ v = u /\ n < i
  <2>1. Publishing(d, k) /\ Publishing(e, k) /\ k \in Ids
    BY <1>1, <1>4, <1>8, <1>9 DEF Publishing
  <2>2. e = d
    BY <2>1 DEF PubInv, OnePhone
  <2>3. v = u
    BY <1>1, <1>4, <1>9, <2>1, InAuthorsQueue
  <2> QED
    BY <1>1, <1>4, <1>9, <2>1, <2>2, <2>3 DEF PubInv, AddFirst
<1> HIDE DEF u, n, w, k
<1>10. \A e \in Devices, v \in Users, i \in Nat, j \in Ids, kind \in {"add", "id"} :
          At(e, v, i, j, kind)' <=> At(e, v, i, j, kind)
  BY <1>2 DEF At
<1>11. \A e \in Devices, j \in Ids : Publishing(e, j)' <=> Publishing(e, j)
  BY <1>2, <1>10 DEF Publishing
<1>12. OnePhone'
  BY <1>11 DEF PubInv, OnePhone
<1>13. AddFirst'
  BY <1>10 DEF PubInv, AddFirst
<1>14. AddFollowed'
  BY <1>2, <1>10 DEF PubInv, AddFollowed
<1>15. IdCommitted'
  <2> SUFFICES ASSUME NEW e \in Devices, NEW v \in Users, NEW j \in Ids, NEW i \in Nat,
                      session[e] = v, i <= inFlight'[e], At(e, v, i, j, "id"),
                      server'[j] # Absent
               PROVE  server'[j].id # NoId
    BY <1>2, <1>10 DEF IdCommitted
  <2>1. CASE w.kind = "add" /\ j = k
    <3>1. e = d /\ n < i
      BY <1>9, <2>1
    <3> QED
      BY <1>1, <1>2, <1>5, <3>1
  <2>2. CASE w.kind = "id" /\ j = k
    BY <1>8, <2>2
  <2>3. CASE w.kind = "delete" /\ j = k
    BY <1>8, <2>3
  <2>4. CASE w.kind = "edit" /\ j = k
    <3>1. CASE e = d /\ i = n
      <4>1. queue[d][u][n].kind = "id"
        BY <1>5, <2>4, <3>1 DEF At
      <4> QED
        BY <2>4, <4>1 DEF w
    <3>2. CASE ~(e = d /\ i = n)
      <4>1. i <= inFlight[e]
        BY <1>1, <1>2, <1>5, <3>2
      <4>2. server[j].id # NoId
        BY <1>8, <2>4, <4>1 DEF PubInv, IdCommitted
      <4> QED
        BY <1>8, <2>4, <4>2
    <3> QED
      BY <3>1, <3>2
  <2>5. CASE j # k
    <3>1. server'[j] = server[j] /\ ~(e = d /\ i = n)
      <4>1. server'[j] = server[j]
        BY <1>6, <2>5 DEF Keys
      <4>2. e = d /\ i = n => queue[d][u][n].key = j
        BY <1>5 DEF At
      <4> QED
        BY <2>5, <4>1, <4>2 DEF w, k
    <3>2. i <= inFlight[e]
      BY <1>1, <1>2, <1>5, <3>1
    <3> QED
      BY <3>1, <3>2 DEF PubInv, IdCommitted
  <2> QED
    BY <1>3, <2>1, <2>2, <2>3, <2>4, <2>5 DEF Kinds
<1>16. SecondWrite'
  <2> SUFFICES ASSUME NEW j \in Ids, server'[j] # Absent, server'[j].id = NoId
               PROVE  \/ \E e \in Devices, v \in Users, i \in Nat : At(e, v, i, j, "id")
                      \/ \E e \in Devices : half[e] = j
                      \/ j \in lostId
    BY <1>2, <1>10 DEF SecondWrite
  <2>1. CASE j = k /\ w.kind = "add"
    BY <1>1, <1>4, <2>1 DEF PubInv, AddFollowed
  <2>2. CASE j = k /\ w.kind # "add"
    <3>1. server[j] # Absent /\ server[j].id = NoId
      BY <1>3, <1>8, <2>2 DEF Kinds
    <3> QED
      BY <3>1 DEF PubInv, SecondWrite
  <2>3. CASE j # k
    <3>1. server'[j] = server[j]
      BY <1>6, <2>3 DEF Keys
    <3> QED
      BY <3>1 DEF PubInv, SecondWrite
  <2> QED
    BY <2>1, <2>2, <2>3
<1> QED
  BY <1>12, <1>13, <1>14, <1>15, <1>16 DEF PubInv

\* The oldest write leaves the queue: an id write goes committed, so that the document
\* has its id, or refused, and then it is lost.  No first write is behind it.
LEMMA DropFirstPub ==
    ASSUME IInv, PubInv, NEW d \in Devices, NEW u \in Users, u = session[d], Dequeues(d, u),
           UNCHANGED <<server, session, half>>,
           lostId \subseteq lostId',
           \/ inFlight[d] > 0 /\ inFlight' = [inFlight EXCEPT ![d] = @ - 1]
           \/ /\ inFlight[d] = 0 /\ inFlight' = inFlight
              /\ \A k \in Ids : At(d, u, 1, k, "id") => k \in lostId'
    PROVE  PubInv'
<1>1. /\ \A i \in Nat, k \in Ids, kind \in {"add", "id"} :
            At(d, u, i, k, kind)' <=> i > 0 /\ At(d, u, i + 1, k, kind)
      /\ \A e \in Devices, v \in Users, i \in Nat, k \in Ids, kind \in {"add", "id"} :
            ~(e = d /\ v = u) => (At(e, v, i, k, kind)' <=> At(e, v, i, k, kind))
  BY Dropped
<1>2. \A e \in Devices, v \in Users, i \in Nat, k \in Ids, kind \in {"add", "id"} :
         At(e, v, i, k, kind) => i > 0
  BY DEF At, IInv, TypeOK
<1>3. \A e \in Devices, v \in Users, k \in Ids, kind \in {"add", "id"} :
         (\E i \in Nat : At(e, v, i, k, kind)') => (\E i \in Nat : At(e, v, i, k, kind))
  <2> SUFFICES ASSUME NEW e \in Devices, NEW v \in Users, NEW k \in Ids,
                      NEW kind \in {"add", "id"}, NEW i \in Nat, At(e, v, i, k, kind)'
               PROVE  \E j \in Nat : At(e, v, j, k, kind)
    OBVIOUS
  <2>1. CASE e = d /\ v = u
    <3>1. i + 1 \in Nat /\ At(e, v, i + 1, k, kind)
      BY <1>1, <2>1
    <3> QED
      BY <3>1
  <2>2. CASE ~(e = d /\ v = u)
    BY <1>1, <2>2
  <2> QED
    BY <2>1, <2>2
\* A waiting id write still waits, or was the one to leave.
<1>4. ASSUME NEW e \in Devices, NEW v \in Users, NEW i \in Nat, NEW k \in Ids,
             At(e, v, i, k, "id")
      PROVE  \/ \E j \in Nat : At(e, v, j, k, "id")'
             \/ e = d /\ v = u /\ i = 1
  <2>1. CASE e = d /\ v = u /\ i # 1
    <3>1. i - 1 \in Nat /\ i - 1 > 0 /\ (i - 1) + 1 = i
      BY <1>2, <1>4, <2>1
    <3>2. At(d, u, i - 1, k, "id")'
      BY <1>1, <1>4, <2>1, <3>1
    <3> QED
      BY <2>1, <3>1, <3>2
  <2>2. CASE ~(e = d /\ v = u)
    BY <1>1, <1>4, <2>2
  <2> QED
    BY <2>1, <2>2
\* What becomes of the ad when its id write leaves.
<1>5. ASSUME NEW k \in Ids, At(d, u, 1, k, "id")
      PROVE  k \in lostId' \/ (server[k] # Absent => server[k].id # NoId)
  <2>1. inFlight[d] > 0 => 1 <= inFlight[d]
    BY DEF IInv, TypeOK
  <2> QED
    BY <1>5, <2>1 DEF PubInv, IdCommitted
<1>6. OnePhone'
  <2>1. \A e \in Devices, k \in Ids : Publishing(e, k)' => Publishing(e, k)
    BY <1>3 DEF Publishing
  <2> QED
    BY <2>1 DEF PubInv, OnePhone
<1>7. AddFirst'
  <2> SUFFICES ASSUME NEW e \in Devices, NEW v \in Users, NEW k \in Ids,
                      NEW i \in Nat, NEW j \in Nat,
                      At(e, v, i, k, "add")', At(e, v, j, k, "id")'
               PROVE  i < j
    BY DEF AddFirst
  <2>1. CASE e = d /\ v = u
    <3>1. At(d, u, i + 1, k, "add") /\ At(d, u, j + 1, k, "id")
      BY <1>1, <2>1
    <3>2. i + 1 < j + 1
      BY <3>1 DEF PubInv, AddFirst
    <3> QED
      BY <3>2
  <2>2. CASE ~(e = d /\ v = u)
    BY <1>1, <2>2 DEF PubInv, AddFirst
  <2> QED
    BY <2>1, <2>2
<1>8. AddFollowed'
  <2> SUFFICES ASSUME NEW e \in Devices, NEW v \in Users, NEW k \in Ids, NEW i \in Nat,
                      At(e, v, i, k, "add")',
                      half[e] # k, k \notin lostId'
               PROVE  \E j \in Nat : At(e, v, j, k, "id")'
    BY DEF AddFollowed
  <2>1. PICK i1 \in Nat : At(e, v, i1, k, "add") /\ (e = d /\ v = u => i1 > 1)
    <3>1. CASE e = d /\ v = u
      <4>1. i + 1 \in Nat /\ i + 1 > 1 /\ At(e, v, i + 1, k, "add")
        BY <1>1, <3>1
      <4> QED
        BY <4>1
    <3>2. CASE ~(e = d /\ v = u)
      BY <1>1, <3>2
    <3> QED
      BY <3>1, <3>2
  <2>2. PICK j1 \in Nat : At(e, v, j1, k, "id")
    BY <2>1 DEF PubInv, AddFollowed
  <2>3. i1 < j1
    BY <2>1, <2>2 DEF PubInv, AddFirst
  <2>4. ~(e = d /\ v = u /\ j1 = 1)
    BY <2>1, <2>3
  <2> QED
    <3>1. \/ \E j \in Nat : At(e, v, j, k, "id")'
          \/ e = d /\ v = u /\ j1 = 1
      BY <1>4, <2>2
    <3> QED
      BY <2>4, <3>1
<1>9. IdCommitted'
  <2> SUFFICES ASSUME NEW e \in Devices, NEW v \in Users, NEW k \in Ids, NEW i \in Nat,
                      session[e] = v, i <= inFlight'[e], At(e, v, i, k, "id")',
                      server[k] # Absent
               PROVE  server[k].id # NoId
    BY DEF IdCommitted
  <2>1. inFlight \in [Devices -> Nat]
    BY DEF IInv, TypeOK
  <2>2. CASE e = d
    <3>1. i > 0 /\ At(d, u, i + 1, k, "id") /\ i + 1 \in Nat
      BY <1>1, <2>2
    <3>2. i + 1 <= inFlight[d]
      BY <2>1, <2>2, <3>1
    <3> QED
      BY <2>2, <3>1, <3>2 DEF PubInv, IdCommitted
  <2>3. CASE e # d
    <3>1. At(e, v, i, k, "id") /\ i <= inFlight[e]
      BY <1>1, <2>1, <2>3
    <3> QED
      BY <3>1 DEF PubInv, IdCommitted
  <2> QED
    BY <2>2, <2>3
<1>10. SecondWrite'
  <2> SUFFICES ASSUME NEW k \in Ids, server[k] # Absent, server[k].id = NoId
               PROVE  \/ \E e \in Devices, v \in Users, i \in Nat : At(e, v, i, k, "id")'
                      \/ \E e \in Devices : half[e] = k
                      \/ k \in lostId'
    BY DEF SecondWrite
  <2>1. CASE \E e \in Devices, v \in Users, i \in Nat : At(e, v, i, k, "id")
    <3>1. PICK e \in Devices, v \in Users, i \in Nat : At(e, v, i, k, "id")
      BY <2>1
    <3>2. CASE e = d /\ v = u /\ i = 1
      BY <1>5, <3>1, <3>2
    <3>3. CASE ~(e = d /\ v = u /\ i = 1)
      <4>1. \/ \E j \in Nat : At(e, v, j, k, "id")'
            \/ e = d /\ v = u /\ i = 1
        BY <1>4, <3>1
      <4> QED
        BY <3>3, <4>1
    <3> QED
      BY <3>2, <3>3
  <2>2. CASE ~\E e \in Devices, v \in Users, i \in Nat : At(e, v, i, k, "id")
    BY <2>2 DEF PubInv, SecondWrite
  <2> QED
    BY <2>1, <2>2
<1> QED
  BY <1>6, <1>7, <1>8, <1>9, <1>10 DEF PubInv

\* No step of any phone, and no stuttering, breaks the invariant.
LEMMA NextPub == IInv /\ PubInv /\ [Next]_vars => PubInv'
<1> SUFFICES ASSUME IInv, PubInv, [Next]_vars PROVE PubInv'
  OBVIOUS
<1>1. ASSUME UNCHANGED <<server, session, queue, inFlight, half, lostId>> PROVE PubInv'
  BY <1>1, CalmPub
<1>2. ASSUME NEW d \in Devices, Screens(d) PROVE PubInv'
  <2>1. CASE \E k \in Ids, t \in Texts : SaveOffer(d, k, t)
    BY <2>1, SaveOfferPub
  <2>2. CASE SaveOfferId(d)
    BY <2>2, SaveOfferIdPub
  <2>3. CASE LoadOffersForIUD(d)
    BY <1>1, <2>3 DEF LoadOffersForIUD
  <2>4. CASE \E row \in Rows : OpenOffer(d, row)
    BY <1>1, <2>4 DEF OpenOffer
  <2>5. CASE CloseOffer(d)
    BY <1>1, <2>5 DEF CloseOffer
  <2>6. ASSUME NEW kind \in {"edit", "delete"}, NEW data \in Texts \cup {None},
               open[d] # None,
               queue' = [queue EXCEPT ![d][session[d]] =
                            Append(@, Write(kind, open[d].id, session[d], data))],
               UNCHANGED <<server, session, inFlight, half, lostId>>
        PROVE  PubInv'
    <3>1. PICK u \in Users, id \in Keys : u = session[d] /\ id = open[d].id
      BY <2>6 DEF IInv, TypeOK, ScreenInv, RowOK, Rows
    <3> DEFINE w == Write(kind, id, u, data)
    <3>2. w \in Writes /\ w.kind \in {"edit", "delete"}
      BY DEF Write, Writes, Kinds
    <3>3. Enqueues(d, u, w)
      BY <2>6, <3>1 DEF Enqueues
    <3> HIDE DEF w
    <3> QED
      BY <2>6, <3>2, <3>3, ButtonPub
  <2>7. CASE \E t \in Texts : UpdateOffer(d, t)
    BY <2>6, <2>7 DEF UpdateOffer, WriteMutations
  <2>8. CASE DeleteOffer(d)
    BY <2>6, <2>8 DEF DeleteOffer, WriteMutations
  <2> QED
    BY <1>2, <2>1, <2>2, <2>3, <2>4, <2>5, <2>7, <2>8 DEF Screens
<1>3. ASSUME NEW d \in Devices, Network(d) PROVE PubInv'
  <2>1. CASE ServerCommit(d)
    BY <2>1, ServerCommitPub
  <2>2. CASE OnWriteStreamMutationResult(d)
    <3>1. PICK u \in Users : u = session[d]
      BY <2>2 DEF OnWriteStreamMutationResult, IInv, TypeOK
    <3>2. inFlight[d] > 0 /\ inFlight[d] <= Len(queue[d][u]) /\ inFlight[d] \in Nat
      BY <2>2, <3>1 DEF OnWriteStreamMutationResult, IInv, TypeOK, PipelineOK, Pending
    <3>3. Dequeues(d, u)
      <4>1. queue[d][u] # <<>>
        BY <3>2
      <4> QED
        BY <2>2, <3>1, <4>1 DEF OnWriteStreamMutationResult, DropFirst, Dequeues
    <3> QED
      BY <2>2, <3>1, <3>2, <3>3, DropFirstPub DEF OnWriteStreamMutationResult
  <2>3. CASE HandleWriteError(d)
    <3>1. PICK u \in Users : u = session[d]
      BY <2>3 DEF HandleWriteError, IInv, TypeOK
    <3>2. Dequeues(d, u)
      BY <2>3, <3>1 DEF HandleWriteError, DropFirst, Dequeues, Pending
    <3>3. \A k \in Ids : At(d, u, 1, k, "id") => k \in lostId'
      BY <2>3, <3>1 DEF HandleWriteError, Pending, At
    <3> QED
      BY <2>3, <3>1, <3>2, <3>3, DropFirstPub DEF HandleWriteError
  <2>4. CASE OnWriteStreamClose(d)
    BY <2>4, CalmPub DEF OnWriteStreamClose, IInv, TypeOK
  <2> QED
    BY <1>3, <2>1, <2>2, <2>3, <2>4 DEF Network
<1>4. ASSUME NEW d \in Devices, NEW s \in Users \cup {None}, HandleCredentialChange(d, s)
      PROVE  PubInv'
  BY <1>4, CalmPub DEF HandleCredentialChange, IInv, TypeOK
<1>5. ASSUME NEW d \in Devices, NEW u \in Users, CreateUser(d, u) PROVE PubInv'
  BY <1>5, CalmPub DEF CreateUser, IInv, TypeOK
<1>6. ASSUME NEW d \in Devices, Restart(d) PROVE PubInv'
  BY <1>6, CalmPub DEF Restart, IInv, TypeOK
<1> QED
  BY <1>1, <1>2, <1>3, <1>4, <1>5, <1>6 DEF Next, vars

\* The publication of every ad keeps to one phone and in order.
THEOREM PubInvariance == Spec => []PubInv
BY InitPub, NextPub, Invariance, PTL DEF Spec

\* saveOffer's two writes: an ad of the collection that still says "No Id" has its
\* second write on the way, or that write was refused or died with the process
\* (NoIdIsTemporary).
THEOREM SecondWriteComes == Spec => []NoIdIsTemporary
<1>1. PubInv => NoIdIsTemporary
  BY DEF PubInv, SecondWrite, NoIdIsTemporary, Waiting, At
<1> QED
  BY <1>1, PubInvariance, PTL

\* An ad given to an author gets no new "add": saveOffer takes a fresh id each time.
LEMMA NoNewAdd ==
    ASSUME IInv, [Next]_vars, NEW k \in Ids, author[k] # None, Waiting(k, "add")'
    PROVE  Waiting(k, "add")
<1>1. PICK e \in Devices, v \in Users :
         \E i \in DOMAIN queue'[e][v] : queue'[e][v][i].key = k /\ queue'[e][v][i].kind = "add"
  BY DEF Waiting
<1>2. PICK i : At(e, v, i, k, "add")'
  BY <1>1 DEF At
<1>3. i \in Nat
  <2>1. queue'[e][v] \in Seq(Writes)
    BY NextIInv DEF IInv, TypeOK
  <2> QED
    BY <1>2, <2>1 DEF At
<1>4. SUFFICES \E j : At(e, v, j, k, "add")
  BY <1>4 DEF Waiting, At
<1>5. ASSUME UNCHANGED queue PROVE \E j : At(e, v, j, k, "add")
  BY <1>2, <1>5 DEF At
<1>6. ASSUME NEW d \in Devices, NEW u \in Users, NEW w \in Writes, Enqueues(d, u, w),
             w.key # k \/ w.kind # "add"
      PROVE  \E j : At(e, v, j, k, "add")
  BY <1>2, <1>3, <1>6, Appended
<1>7. ASSUME NEW d \in Devices, NEW u \in Users, Dequeues(d, u)
      PROVE  \E j : At(e, v, j, k, "add")
  BY <1>2, <1>3, <1>7, Dropped
<1>8. ASSUME NEW d \in Devices, NEW t \in Texts, NEW j \in Ids, SaveOffer(d, j, t)
      PROVE  \E n : At(e, v, n, k, "add")
  <2>1. PICK u \in Users : u = session[d]
    BY <1>8 DEF SaveOffer, IInv, TypeOK
  <2> DEFINE w == Write("add", j, u, t)
  <2>2. w \in Writes /\ w.key = j /\ j # k
    BY <1>8, <2>1 DEF Write, Writes, Kinds, Keys, SaveOffer
  <2>3. Enqueues(d, u, w)
    BY <1>8, <2>1 DEF SaveOffer, WriteMutations, Enqueues
  <2> HIDE DEF w
  <2> QED
    BY <1>6, <2>2, <2>3
<1>9. ASSUME NEW d \in Devices, SaveOfferId(d)
      PROVE  \E n : At(e, v, n, k, "add")
  <2>1. PICK u \in Users, j \in Ids : u = session[d] /\ j = half[d]
    BY <1>9, NamesAssumption DEF SaveOfferId, IInv, TypeOK, PipelineOK
  <2> DEFINE w == Write("id", j, u, j)
  <2>2. w \in Writes /\ w.kind = "id"
    BY DEF Write, Writes, Kinds, Keys
  <2>3. Enqueues(d, u, w)
    BY <1>9, <2>1 DEF SaveOfferId, Enqueues
  <2> HIDE DEF w
  <2> QED
    BY <1>6, <2>2, <2>3
<1>10. ASSUME NEW d \in Devices, NEW kind \in {"edit", "delete"}, NEW data \in Texts \cup {None},
              open[d] # None,
              queue' = [queue EXCEPT ![d][session[d]] =
                           Append(@, Write(kind, open[d].id, session[d], data))]
       PROVE  \E n : At(e, v, n, k, "add")
  <2>1. PICK u \in Users, id \in Keys : u = session[d] /\ id = open[d].id
    BY <1>10 DEF IInv, TypeOK, ScreenInv, RowOK, Rows
  <2> DEFINE w == Write(kind, id, u, data)
  <2>2. w \in Writes /\ w.kind # "add"
    BY DEF Write, Writes, Kinds
  <2>3. Enqueues(d, u, w)
    BY <1>10, <2>1 DEF Enqueues
  <2> HIDE DEF w
  <2> QED
    BY <1>6, <2>2, <2>3
<1>11. ASSUME NEW d \in Devices, Screens(d) PROVE \E n : At(e, v, n, k, "add")
  <2>1. ASSUME NEW t \in Texts, UpdateOffer(d, t) PROVE \E n : At(e, v, n, k, "add")
    BY <1>10, <2>1 DEF UpdateOffer, WriteMutations
  <2>2. ASSUME DeleteOffer(d) PROVE \E n : At(e, v, n, k, "add")
    BY <1>10, <2>2 DEF DeleteOffer, WriteMutations
  <2>3. ASSUME \/ LoadOffersForIUD(d) \/ CloseOffer(d)
               \/ \E row \in Rows : OpenOffer(d, row)
        PROVE  UNCHANGED queue
    BY <2>3 DEF LoadOffersForIUD, CloseOffer, OpenOffer
  <2> QED
    BY <1>5, <1>8, <1>9, <1>11, <2>1, <2>2, <2>3 DEF Screens
<1>12. ASSUME NEW d \in Devices, OnWriteStreamMutationResult(d) \/ HandleWriteError(d)
       PROVE  \E n : At(e, v, n, k, "add")
  <2>1. PICK u \in Users : u = session[d]
    BY <1>12 DEF OnWriteStreamMutationResult, HandleWriteError, IInv, TypeOK
  <2>2. queue[d][u] # <<>>
    <3>1. CASE OnWriteStreamMutationResult(d)
      <4>1. inFlight[d] > 0 /\ inFlight[d] <= Len(queue[d][u]) /\ inFlight[d] \in Nat
        BY <2>1, <3>1 DEF OnWriteStreamMutationResult, IInv, TypeOK, PipelineOK, Pending
      <4> QED
        BY <4>1
    <3>2. CASE HandleWriteError(d)
      BY <2>1, <3>2 DEF HandleWriteError, Pending
    <3> QED
      BY <1>12, <3>1, <3>2
  <2>3. Dequeues(d, u)
    BY <1>12, <2>1, <2>2 DEF OnWriteStreamMutationResult, HandleWriteError, DropFirst, Dequeues
  <2> QED
    BY <1>7, <2>3
<1>13. ASSUME NEW d \in Devices, \/ ServerCommit(d) \/ OnWriteStreamClose(d) \/ Restart(d)
                                 \/ \E s \in Users \cup {None} : HandleCredentialChange(d, s)
                                 \/ \E u \in Users : CreateUser(d, u)
       PROVE  UNCHANGED queue
  BY <1>13 DEF ServerCommit, OnWriteStreamClose, Restart, HandleCredentialChange, CreateUser
<1> QED
  BY <1>5, <1>11, <1>12, <1>13 DEF Next, Network, vars

\* Once the result of addDocument has arrived, the document is never made again: if it
\* is deleted it stays deleted, whatever edits and id writes are still to come
\* (NoRevival).
THEOREM DeletedForGood == Spec => NoRevival
<1>1. IInv /\ [Next]_vars =>
        [\A k \in Ids : (author[k] # None /\ ~Waiting(k, "add")) =>
             /\ ~Waiting(k, "add")'
             /\ server[k] = Absent => server'[k] = Absent]_vars
  <2> SUFFICES ASSUME IInv, [Next]_vars, NEW k \in Ids, author[k] # None, ~Waiting(k, "add")
               PROVE  /\ ~Waiting(k, "add")'
                      /\ server[k] = Absent => server'[k] = Absent
    OBVIOUS
  <2>1. ~Waiting(k, "add")'
    BY NoNewAdd
  <2>2. ASSUME server[k] = Absent, server'[k] # Absent PROVE FALSE
    <3>1. PICK d \in Devices :
              LET w == Pending(d)[inFlight[d] + 1]
              IN /\ ServerCommit(d)
                 /\ session[d] \in Users
                 /\ WriteOK(w, session[d], author, strays)
                 /\ Accepts(server, w)
                 /\ server' = [server EXCEPT ![w.key] = Written(server[w.key], w)]
      BY <2>2, CommitByAuthor
    <3> DEFINE w == Pending(d)[inFlight[d] + 1]
    <3>2. w \in Writes /\ Accepts(server, w)
          /\ server' = [server EXCEPT ![w.key] = Written(server[w.key], w)]
      BY <3>1 DEF WriteOK
    <3>3. /\ inFlight[d] + 1 \in DOMAIN queue[d][session[d]]
          /\ w = queue[d][session[d]][inFlight[d] + 1]
      BY <3>1 DEF ServerCommit, Pending, IInv, TypeOK
    <3>4. ~(w.key = k /\ w.kind = "add")
      BY <3>1, <3>3 DEF Waiting
    <3> HIDE DEF w
    <3>5. w.key = k
      BY <2>2, <3>2 DEF IInv, TypeOK, Keys
    <3>6. w.kind \in Kinds /\ w.kind \notin {"id", "edit"}
      BY <2>2, <3>2, <3>5 DEF Writes, Accepts
    <3>7. w.kind = "delete"
      BY <3>4, <3>5, <3>6 DEF Kinds
    <3>8. server'[k] = Absent
      BY <3>2, <3>5, <3>7 DEF Written, IInv, TypeOK, Keys
    <3> QED
      BY <2>2, <3>8
  <2> QED
    BY <2>1, <2>2
<1> QED
  BY <1>1, Invariance, PTL DEF Spec, NoRevival

-----------------------------------------------------------------------------
(* What the user of a phone sees (operator View), with one phone, is        *)
(* independent of the progress of the network.                              *)
(*                                                                          *)
(* The module of the model gives View in closed form, by the newest write   *)
(* of each kind; SeenAppend says what one more pending write does to it.    *)

\* Documents and writes as the queues hold them.
Collections == [Keys -> Docs \cup {Absent}]
Sound == {w \in Writes : /\ w.kind = "add" => w.data \in Texts
                         /\ w.kind = "id" => w.data \in Keys
                         /\ w.kind = "edit" => w.data \in Texts}

\* Newest, and how a write at the end of the queue changes it.
LEMMA NewestIs ==
    ASSUME NEW q \in Seq(Writes), NEW k, NEW kinds
    PROVE  LET n == Newest(q, k, kinds)
           IN /\ n \in Nat /\ n <= Len(q)
              /\ n > 0 => n \in DOMAIN q /\ q[n].key = k /\ q[n].kind \in kinds
              /\ \A i \in DOMAIN q : q[i].key = k /\ q[i].kind \in kinds => i <= n
<1> DEFINE S == {i \in DOMAIN q : q[i].key = k /\ q[i].kind \in kinds}
           Z == {0} \cup S
<1>1. Z \in SUBSET (0..Len(q)) /\ 0 \in Z /\ Len(q) \in Nat
  OBVIOUS
<1>2. Max(Z) \in Z /\ \A i \in Z : i <= Max(Z)
  <2> HIDE DEF Z
  <2> QED
    BY <1>1, MaxExists
<1>3. Newest(q, k, kinds) = Max(Z)
  BY DEF Newest
<1>4. Max(Z) \in 0..Len(q)
  BY <1>1, <1>2
<1> QED
  BY <1>1, <1>2, <1>3, <1>4

\* Two places are the newest for the same reason only if they are the same.
LEMMA NewestUnique ==
    ASSUME NEW q \in Seq(Writes), NEW k, NEW kinds, NEW n \in Nat,
           n > 0 => n \in DOMAIN q /\ q[n].key = k /\ q[n].kind \in kinds,
           \A i \in DOMAIN q : q[i].key = k /\ q[i].kind \in kinds => i <= n
    PROVE  Newest(q, k, kinds) = n
<1> DEFINE m == Newest(q, k, kinds)
<1>1. /\ m \in Nat
      /\ m > 0 => m \in DOMAIN q /\ q[m].key = k /\ q[m].kind \in kinds
      /\ \A i \in DOMAIN q : q[i].key = k /\ q[i].kind \in kinds => i <= m
  BY NewestIs
<1> HIDE DEF m
<1>2. m <= n
  BY <1>1
<1>3. n <= m
  BY <1>1
<1>4. m = n
  BY <1>1, <1>2, <1>3
<1> QED
  BY <1>4 DEF m

LEMMA NewestAppend ==
    ASSUME NEW q \in Seq(Writes), NEW w \in Writes, NEW k, NEW kinds
    PROVE  Newest(Append(q, w), k, kinds) =
              IF w.key = k /\ w.kind \in kinds THEN Len(q) + 1 ELSE Newest(q, k, kinds)
<1> DEFINE r == Append(q, w)
           m == Newest(q, k, kinds)
<1>1. /\ r \in Seq(Writes) /\ Len(q) \in Nat
      /\ DOMAIN r = 1..(Len(q) + 1) /\ DOMAIN q = 1..Len(q)
      /\ \A i \in DOMAIN q : r[i] = q[i]
      /\ r[Len(q) + 1] = w
  OBVIOUS
<1>2. /\ m \in Nat /\ m <= Len(q)
      /\ m > 0 => m \in DOMAIN q /\ q[m].key = k /\ q[m].kind \in kinds
      /\ \A i \in DOMAIN q : q[i].key = k /\ q[i].kind \in kinds => i <= m
  BY NewestIs
<1> HIDE DEF r, m
<1>3. CASE w.key = k /\ w.kind \in kinds
  <2> DEFINE n == Len(q) + 1
  <2>1. n \in Nat /\ n \in DOMAIN r /\ r[n].key = k /\ r[n].kind \in kinds
        /\ \A i \in DOMAIN r : i <= n
    BY <1>1, <1>3
  <2> HIDE DEF n
  <2>2. Newest(r, k, kinds) = n
    BY <1>1, <2>1, NewestUnique
  <2> QED
    BY <1>3, <2>2 DEF n, r
<1>4. CASE ~(w.key = k /\ w.kind \in kinds)
  <2>1. m > 0 => m \in DOMAIN r /\ r[m].key = k /\ r[m].kind \in kinds
    BY <1>1, <1>2
  <2>2. ASSUME NEW i \in DOMAIN r, r[i].key = k, r[i].kind \in kinds PROVE i <= m
    <3>1. i \in DOMAIN q
      BY <1>1, <1>4, <2>2
    <3> QED
      BY <1>1, <1>2, <2>2, <3>1
  <2>3. Newest(r, k, kinds) = m
    BY <1>1, <1>2, <2>1, <2>2, NewestUnique
  <2> QED
    BY <1>4, <2>3 DEF m, r
<1> QED
  BY <1>3, <1>4

\* What is seen of a document is a document.
LEMMA SeenType ==
    ASSUME NEW q \in Seq(Sound), NEW k, NEW doc \in Docs \cup {Absent}
    PROVE  LET base == Newest(q, k, {"add", "delete"})
               id   == Newest(q, k, {"id"})
               edit == Newest(q, k, {"edit"})
               start == IF base = 0 THEN doc ELSE Written(doc, q[base])
           IN /\ Seen(q, k, doc) \in Docs \cup {Absent}
              /\ Seen(q, k, doc) = Absent <=> start = Absent
              /\ Seen(q, k, doc) # Absent =>
                    /\ start \in Docs
                    /\ Seen(q, k, doc) = [uid  |-> start.uid,
                                          id   |-> IF id > base THEN q[id].data ELSE start.id,
                                          text |-> IF edit > base THEN q[edit].data
                                                   ELSE start.text]
<1> DEFINE base == Newest(q, k, {"add", "delete"})
           id == Newest(q, k, {"id"})
           edit == Newest(q, k, {"edit"})
           start == IF base = 0 THEN doc ELSE Written(doc, q[base])
           seen == [uid  |-> start.uid,
                    id   |-> IF id > base THEN q[id].data ELSE start.id,
                    text |-> IF edit > base THEN q[edit].data ELSE start.text]
<1>1. q \in Seq(Writes) /\ \A i \in DOMAIN q : q[i] \in Sound
  BY DEF Sound
<1>2. /\ base \in Nat /\ (base > 0 => base \in DOMAIN q /\ q[base].kind \in {"add", "delete"})
      /\ id \in Nat /\ (id > 0 => id \in DOMAIN q /\ q[id].kind = "id")
      /\ edit \in Nat /\ (edit > 0 => edit \in DOMAIN q /\ q[edit].kind = "edit")
  BY <1>1, NewestIs
<1>3. Seen(q, k, doc) = IF start = Absent THEN Absent ELSE seen
  BY DEF Seen
<1> HIDE DEF base, id, edit
<1>4. start \in Docs \cup {Absent}
  <2>1. CASE base = 0
    BY <2>1
  <2>2. CASE base > 0
    <3>1. q[base] \in Sound /\ q[base].kind \in {"add", "delete"}
      BY <1>1, <1>2, <2>2
    <3> QED
      BY <2>2, <3>1 DEF Sound, Writes, Written, Docs, Keys
  <2> QED
    BY <1>2, <2>1, <2>2
<1>5. id > base => q[id].data \in Keys
  BY <1>1, <1>2 DEF Sound
<1>6. edit > base => q[edit].data \in Texts
  BY <1>1, <1>2 DEF Sound
<1> HIDE DEF start
<1>7. start # Absent => start \in Docs /\ seen \in Docs
  BY <1>4, <1>5, <1>6 DEF Docs
<1> QED
  BY <1>3, <1>7, AbsentAssumption DEF base, id, edit, start

\* One more pending write changes what is seen as its commit would.
LEMMA SeenAppend ==
    ASSUME NEW q \in Seq(Sound), NEW w \in Sound, NEW docs \in Collections, NEW k \in Keys
    PROVE  Seen(Append(q, w), k, docs[k]) =
              Commit([j \in Keys |-> Seen(q, j, docs[j])], w)[k]
<1> DEFINE view == [j \in Keys |-> Seen(q, j, docs[j])]
           r == Append(q, w)
           n == Len(q) + 1
           doc == docs[k]
           base == Newest(q, k, {"add", "delete"})
           id == Newest(q, k, {"id"})
           edit == Newest(q, k, {"edit"})
           start == IF base = 0 THEN doc ELSE Written(doc, q[base])
           base2 == Newest(r, k, {"add", "delete"})
           id2 == Newest(r, k, {"id"})
           edit2 == Newest(r, k, {"edit"})
           start2 == IF base2 = 0 THEN doc ELSE Written(doc, r[base2])
<1>1. /\ q \in Seq(Writes) /\ w \in Writes /\ w.kind \in Kinds
      /\ n \in Nat /\ Len(q) \in Nat
      /\ \A i \in DOMAIN q : r[i] = q[i]
      /\ r[n] = w
  <2>1. q \in Seq(Writes) /\ w \in Writes
    BY DEF Sound
  <2>2. w.kind \in Kinds
    BY <2>1 DEF Writes
  <2> QED
    BY <2>1, <2>2
<1>2. /\ base \in Nat /\ base <= Len(q) /\ (base > 0 => base \in DOMAIN q)
      /\ id \in Nat /\ id <= Len(q) /\ (id > 0 => id \in DOMAIN q)
      /\ edit \in Nat /\ edit <= Len(q) /\ (edit > 0 => edit \in DOMAIN q)
  BY <1>1, NewestIs
<1>3. /\ base2 = IF w.key = k /\ w.kind \in {"add", "delete"} THEN n ELSE base
      /\ id2 = IF w.key = k /\ w.kind \in {"id"} THEN n ELSE id
      /\ edit2 = IF w.key = k /\ w.kind \in {"edit"} THEN n ELSE edit
  BY <1>1, NewestAppend
<1>4. doc \in Docs \cup {Absent} /\ docs \in [Keys -> Docs \cup {Absent}]
  BY DEF Collections
<1>5. /\ view \in [Keys -> Docs \cup {Absent}]
      /\ view[k] = Seen(q, k, doc)
  BY <1>4, SeenType
<1>6. /\ view[k] = Absent <=> start = Absent
      /\ start # Absent =>
            /\ start \in Docs
            /\ view[k] = [uid  |-> start.uid,
                          id   |-> IF id > base THEN q[id].data ELSE start.id,
                          text |-> IF edit > base THEN q[edit].data ELSE start.text]
  <2>1. view[k] = Absent <=> start = Absent
    BY <1>4, <1>5, SeenType
  <2>2. view[k] # Absent =>
            /\ start \in Docs
            /\ view[k] = [uid  |-> start.uid,
                          id   |-> IF id > base THEN q[id].data ELSE start.id,
                          text |-> IF edit > base THEN q[edit].data ELSE start.text]
    BY <1>4, <1>5, SeenType
  <2> HIDE DEF view, start, base, id, edit
  <2> QED
    BY <2>1, <2>2
<1>7. Seen(r, k, doc) =
         IF start2 = Absent THEN Absent
         ELSE [uid  |-> start2.uid,
               id   |-> IF id2 > base2 THEN r[id2].data ELSE start2.id,
               text |-> IF edit2 > base2 THEN r[edit2].data ELSE start2.text]
  BY DEF Seen
<1>8. /\ Accepts(view, w) <=> (w.kind \in {"id", "edit"} => view[w.key] # Absent)
      /\ Commit(view, w) = IF Accepts(view, w)
                           THEN [view EXCEPT ![w.key] = Written(view[w.key], w)] ELSE view
  BY DEF Accepts, Commit
<1>9. /\ base2 = 0 => start2 = doc
      /\ base2 # 0 => start2 = Written(doc, r[base2])
      /\ base = 0 => start = doc
      /\ base # 0 => start = Written(doc, q[base])
  OBVIOUS
<1> HIDE DEF view, r, n, doc, base, id, edit, start, base2, id2, edit2, start2
<1>10. base2 = base => start2 = start
  BY <1>1, <1>2, <1>9
<1>11. CASE w.key # k
  <2>1. base2 = base /\ id2 = id /\ edit2 = edit /\ start2 = start
    BY <1>3, <1>10, <1>11
  <2>2. Seen(r, k, doc) = view[k]
    <3>1. id > base => r[id] = q[id]
      BY <1>1, <1>2
    <3>2. edit > base => r[edit] = q[edit]
      BY <1>1, <1>2
    <3> QED
      BY <1>6, <1>7, <2>1, <3>1, <3>2
  <2>3. Commit(view, w)[k] = view[k]
    BY <1>5, <1>8, <1>11
  <2> QED
    BY <2>2, <2>3 DEF view, r, doc
<1>12. CASE w.key = k /\ w.kind \in {"add", "delete"}
  <2>1. base2 = n /\ id2 = id /\ edit2 = edit /\ start2 = Written(doc, w) /\ id < n /\ edit < n
    BY <1>1, <1>2, <1>3, <1>9, <1>12 DEF n
  <2>2. Commit(view, w)[k] = Written(view[k], w)
    BY <1>5, <1>8, <1>12
  <2>3. CASE w.kind = "add"
    <3>1. start2 = [uid |-> w.uid, id |-> NoId, text |-> w.data]
          /\ Written(view[k], w) = [uid |-> w.uid, id |-> NoId, text |-> w.data]
      BY <2>1, <2>3 DEF Written
    <3>2. start2 \in Docs
      BY <2>3, <3>1 DEF Docs, Keys, Sound, Writes
    <3>3. Seen(r, k, doc) = [uid |-> start2.uid, id |-> start2.id, text |-> start2.text]
      BY <1>1, <1>2, <1>7, <2>1, <3>2, AbsentAssumption
    <3>4. Seen(r, k, doc) = start2
      BY <3>1, <3>3
    <3> QED
      BY <2>2, <3>1, <3>4 DEF view, r, doc
  <2>4. CASE w.kind = "delete"
    <3>1. start2 = Absent /\ Written(view[k], w) = Absent
      BY <2>1, <2>4 DEF Written
    <3> QED
      BY <1>7, <2>2, <3>1 DEF view, r, doc
  <2> QED
    BY <1>12, <2>3, <2>4
<1>13. CASE w.key = k /\ w.kind \in {"id", "edit"} /\ view[k] = Absent
  <2>1. base2 = base /\ start2 = Absent
    BY <1>3, <1>6, <1>10, <1>13
  <2>2. Commit(view, w) = view
    BY <1>8, <1>13
  <2> QED
    BY <1>7, <1>13, <2>1, <2>2 DEF view, r, doc
<1>14. CASE w.key = k /\ w.kind \in {"id", "edit"} /\ view[k] # Absent
  <2>1. /\ base2 = base /\ start2 = start /\ start \in Docs /\ start # Absent
        /\ base < n
    BY <1>1, <1>2, <1>3, <1>6, <1>10, <1>14 DEF n
  <2>2. Commit(view, w)[k] = Written(view[k], w)
    BY <1>5, <1>8, <1>14
  <2>3. CASE w.kind = "id"
    <3>1. id2 = n /\ edit2 = edit /\ (edit > base => r[edit] = q[edit])
      BY <1>1, <1>2, <1>3, <1>14, <2>3
    <3>2. Seen(r, k, doc) = [uid  |-> start.uid, id |-> w.data,
                             text |-> IF edit > base THEN q[edit].data ELSE start.text]
      BY <1>1, <1>7, <2>1, <3>1
    <3>3. Written(view[k], w) = [view[k] EXCEPT !.id = w.data]
      BY <2>3 DEF Written
    <3>4. Written(view[k], w) = [uid  |-> start.uid, id |-> w.data,
                                 text |-> IF edit > base THEN q[edit].data ELSE start.text]
      BY <1>6, <2>1, <3>3
    <3> QED
      BY <2>2, <3>2, <3>4 DEF view, r, doc
  <2>4. CASE w.kind = "edit"
    <3>1. edit2 = n /\ id2 = id /\ (id > base => r[id] = q[id])
      BY <1>1, <1>2, <1>3, <1>14, <2>4
    <3>2. Seen(r, k, doc) = [uid  |-> start.uid,
                             id   |-> IF id > base THEN q[id].data ELSE start.id,
                             text |-> w.data]
      BY <1>1, <1>7, <2>1, <3>1
    <3>3. Written(view[k], w) = [view[k] EXCEPT !.text = w.data]
      BY <2>4 DEF Written
    <3>4. Written(view[k], w) = [uid  |-> start.uid,
                                 id   |-> IF id > base THEN q[id].data ELSE start.id,
                                 text |-> w.data]
      BY <1>6, <2>1, <3>3
    <3> QED
      BY <2>2, <3>2, <3>4 DEF view, r, doc
  <2> QED
    BY <1>14, <2>3, <2>4
<1> QED
  BY <1>1, <1>11, <1>12, <1>13, <1>14 DEF Kinds

\* No pending write: the document itself.
LEMMA SeenEmpty ==
    ASSUME NEW k, NEW doc \in Docs \cup {Absent}
    PROVE  Seen(<<>>, k, doc) = doc
<1>1. \A kinds : Newest(<<>>, k, kinds) = 0
  <2> SUFFICES ASSUME NEW kinds PROVE Newest(<<>>, k, kinds) = 0
    OBVIOUS
  <2> DEFINE q == <<>>
  <2>1. q \in Seq(Writes) /\ \A i \in DOMAIN q : FALSE
    OBVIOUS
  <2> HIDE DEF q
  <2>2. Newest(q, k, kinds) = 0
    BY <2>1, NewestUnique
  <2> QED
    BY <2>2 DEF q
<1>2. Seen(<<>>, k, doc) = IF doc = Absent THEN Absent
                           ELSE [uid |-> doc.uid, id |-> doc.id, text |-> doc.text]
  BY <1>1 DEF Seen
<1> QED
  BY <1>2 DEF Docs

\* The writes of a queue are sound.
LEMMA SoundQueues ==
    ASSUME IInv, NEW d \in Devices, NEW u \in Users
    PROVE  queue[d][u] \in Seq(Sound)
<1>1. queue[d][u] \in Seq(Writes)
  BY DEF IInv, TypeOK
<1>2. \A i \in DOMAIN queue[d][u] : queue[d][u][i] \in Sound
  BY DEF IInv, QueueInv, WriteOK, Sound, Keys
<1> QED
  BY <1>1, <1>2

\* A commit leaves documents and absent documents.
LEMMA CommitType ==
    ASSUME NEW docs \in Collections, NEW w \in Sound
    PROVE  /\ Commit(docs, w) \in Collections
           /\ Accepts(docs, w) => Written(docs[w.key], w) \in Docs \cup {Absent}
<1>1. docs \in [Keys -> Docs \cup {Absent}] /\ w.key \in Keys /\ w.kind \in Kinds
  BY DEF Collections, Sound, Writes
<1>2. docs[w.key] \in Docs \cup {Absent}
  BY <1>1
<1>3. ASSUME Accepts(docs, w) PROVE Written(docs[w.key], w) \in Docs \cup {Absent}
  <2>1. CASE w.kind = "add"
    BY <2>1 DEF Written, Docs, Keys, Sound, Writes
  <2>2. CASE w.kind = "delete"
    BY <2>2 DEF Written
  <2>3. CASE w.kind = "id"
    <3>1. docs[w.key] \in Docs /\ w.data \in Keys
      BY <1>2, <1>3, <2>3 DEF Accepts, Sound
    <3>2. Written(docs[w.key], w) = [docs[w.key] EXCEPT !.id = w.data]
      BY <2>3 DEF Written
    <3> QED
      BY <3>1, <3>2 DEF Docs
  <2>4. CASE w.kind = "edit"
    <3>1. docs[w.key] \in Docs /\ w.data \in Texts
      BY <1>2, <1>3, <2>4 DEF Accepts, Sound
    <3>2. Written(docs[w.key], w) = [docs[w.key] EXCEPT !.text = w.data]
      BY <2>4 DEF Written
    <3> QED
      BY <3>1, <3>2 DEF Docs
  <2> QED
    BY <1>1, <2>1, <2>2, <2>3, <2>4 DEF Kinds
<1> QED
  BY <1>1, <1>3 DEF Commit, Collections

\* The oldest pending write may be applied to the documents instead.
LEMMA SeenTail ==
    ASSUME NEW q \in Seq(Sound), q # <<>>, NEW docs \in Collections, NEW k \in Keys
    PROVE  Seen(q, k, docs[k]) = Seen(Tail(q), k, Commit(docs, Head(q))[k])
<1> DEFINE docs1 == Commit(docs, q[1])
           Front1(i) == SubSeq(q, 1, i)
           Back1(i) == SubSeq(q, 2, i)
           Same(i) == \A j \in Keys : Seen(Front1(i), j, docs[j]) = Seen(Back1(i), j, docs1[j])
           T == {i \in 1..Len(q) : ~Same(i)}
<1>1. /\ Len(q) \in Nat /\ 1 \in DOMAIN q /\ Head(q) = q[1] /\ q[1] \in Sound
      /\ Tail(q) = SubSeq(q, 2, Len(q)) /\ SubSeq(q, 1, Len(q)) = q
      /\ DOMAIN q = 1..Len(q) /\ Len(q) \in 1..Len(q)
  OBVIOUS
<1>2. docs1 \in Collections
  BY <1>1, CommitType
<1>3. /\ docs \in [Keys -> Docs \cup {Absent}]
      /\ docs1 \in [Keys -> Docs \cup {Absent}]
  BY <1>2 DEF Collections
<1> HIDE DEF docs1
<1>4. Same(1)
  <2>1. Front1(1) = Append(<<>>, q[1]) /\ Back1(1) = <<>> /\ <<>> \in Seq(Sound)
    <3> DEFINE a == Append(<<>>, q[1])
    <3>1. a \in Seq(Sound) /\ Len(a) = 1 /\ a[1] = q[1]
      BY <1>1
    <3>2. Front1(1) \in Seq(Sound) /\ Len(Front1(1)) = 1 /\ Front1(1)[1] = q[1]
      BY <1>1
    <3>3. Back1(1) = <<>>
      BY <1>1
    <3> HIDE DEF a, Front1
    <3>4. Front1(1) = a
      BY <3>1, <3>2
    <3> QED
      BY <3>3, <3>4 DEF a
  <2>2. \A j \in Keys : Seen(<<>>, j, docs[j]) = docs[j] /\ Seen(<<>>, j, docs1[j]) = docs1[j]
    BY <1>3, SeenEmpty
  <2>3. docs = [j \in Keys |-> Seen(<<>>, j, docs[j])]
    BY <1>3, <2>2
  <2>4. \A j \in Keys : Seen(Append(<<>>, q[1]), j, docs[j]) =
                           Commit([i \in Keys |-> Seen(<<>>, i, docs[i])], q[1])[j]
    BY <1>1, <2>1, SeenAppend
  <2> QED
    BY <2>1, <2>2, <2>3, <2>4 DEF docs1
<1>5. ASSUME NEW i \in 1..Len(q), i + 1 \in 1..Len(q), Same(i) PROVE Same(i + 1)
  <2> DEFINE f == Front1(i)
             b == Back1(i)
             w == q[i + 1]
  <2>1. f \in Seq(Sound) /\ b \in Seq(Sound) /\ w \in Sound
    BY <1>1, <1>5
  <2>2. Front1(i + 1) = Append(f, w)
    <3>1. Front1(i + 1) \in Seq(Sound) /\ Len(Front1(i + 1)) = i + 1
          /\ \A j \in 1..(i + 1) : Front1(i + 1)[j] = q[j]
      BY <1>1, <1>5
    <3>2. Len(f) = i /\ \A j \in 1..i : f[j] = q[j]
      BY <1>1
    <3> HIDE DEF f, w, Front1
    <3>3. Append(f, w) \in Seq(Sound) /\ Len(Append(f, w)) = i + 1
          /\ \A j \in 1..i : Append(f, w)[j] = f[j]
          /\ Append(f, w)[i + 1] = w
      BY <2>1, <3>2
    <3>4. \A j \in 1..(i + 1) : Front1(i + 1)[j] = Append(f, w)[j]
      BY <3>1, <3>2, <3>3 DEF w
    <3> QED
      BY <3>1, <3>3, <3>4
  <2>3. Back1(i + 1) = Append(b, w)
    <3>1. Back1(i + 1) \in Seq(Sound) /\ Len(Back1(i + 1)) = i
          /\ \A j \in 1..i : Back1(i + 1)[j] = q[j + 1]
      BY <1>1, <1>5
    <3>2. Len(b) = i - 1 /\ \A j \in 1..(i - 1) : b[j] = q[j + 1]
      BY <1>1
    <3> HIDE DEF b, w, Back1
    <3>3. Append(b, w) \in Seq(Sound) /\ Len(Append(b, w)) = i
          /\ \A j \in 1..(i - 1) : Append(b, w)[j] = b[j]
          /\ Append(b, w)[i] = w
      BY <2>1, <3>2
    <3>4. \A j \in 1..i : Back1(i + 1)[j] = Append(b, w)[j]
      BY <3>1, <3>2, <3>3 DEF w
    <3>5. DOMAIN Back1(i + 1) = 1..i /\ DOMAIN Append(b, w) = 1..i
      BY <3>1, <3>3
    <3> DEFINE x == Back1(i + 1)
               y == Append(b, w)
    <3> HIDE DEF x, y
    <3>6. x = y
      BY <3>1, <3>3, <3>4, <3>5 DEF x, y
    <3> QED
      BY <3>6 DEF x, y
  <2>4. [j \in Keys |-> Seen(f, j, docs[j])] = [j \in Keys |-> Seen(b, j, docs1[j])]
    BY <1>5
  <2> HIDE DEF f, b, w, Front1, Back1
  <2>5. \A j \in Keys : Seen(Append(f, w), j, docs[j]) =
                           Commit([n \in Keys |-> Seen(f, n, docs[n])], w)[j]
    BY <2>1, SeenAppend
  <2>6. \A j \in Keys : Seen(Append(b, w), j, docs1[j]) =
                           Commit([n \in Keys |-> Seen(b, n, docs1[n])], w)[j]
    BY <1>2, <2>1, SeenAppend
  <2> QED
    BY <2>2, <2>3, <2>4, <2>5, <2>6
<1> HIDE DEF Same
<1>6. T = {}
  <2> SUFFICES ASSUME NEW t \in T PROVE FALSE
    OBVIOUS
  <2>1. T \in SUBSET Nat
    OBVIOUS
  <2>2. PICK m \in T : \A y \in T : m <= y
    <3> HIDE DEF T
    <3> QED
      BY <2>1, Numbers!LeastNatural
  <2>3. m \in 1..Len(q) /\ ~Same(m)
    OBVIOUS
  <2>4. m # 1
    BY <1>4, <2>3
  <2>5. m - 1 \in 1..Len(q) /\ (m - 1) + 1 = m /\ m - 1 < m
    BY <2>3, <2>4
  <2>6. Same(m - 1)
    <3>1. m - 1 \notin T
      BY <2>2, <2>5
    <3> QED
      BY <2>5, <3>1
  <2>7. Same((m - 1) + 1)
    BY <1>5, <2>3, <2>5, <2>6
  <2> QED
    BY <2>3, <2>5, <2>7
<1>7. Same(Len(q))
  BY <1>1, <1>6
<1> QED
  BY <1>1, <1>7 DEF Same, docs1

\* Committing a write that is pending anyway changes nothing of what is seen.
LEMMA SeenCommit ==
    ASSUME NEW q \in Seq(Sound), NEW i \in DOMAIN q, NEW docs \in Collections,
           Accepts(docs, q[i]), NEW k \in Keys
    PROVE  Seen(q, k, Commit(docs, q[i])[k]) = Seen(q, k, docs[k])
<1> DEFINE w == q[i]
           doc == docs[k]
           base == Newest(q, k, {"add", "delete"})
           id == Newest(q, k, {"id"})
           edit == Newest(q, k, {"edit"})
<1>1. w \in Sound /\ w.kind \in Kinds /\ q \in Seq(Writes) /\ i \in Nat /\ i > 0
  <2>1. w \in Sound /\ i \in Nat /\ i > 0
    OBVIOUS
  <2>2. q \in Seq(Writes)
    BY DEF Sound
  <2>3. w.kind \in Kinds
    BY <2>1 DEF Sound, Writes
  <2> QED
    BY <2>1, <2>2, <2>3
<1>2. docs \in [Keys -> Docs \cup {Absent}]
  BY DEF Collections
<1>3. Commit(docs, w) = [docs EXCEPT ![w.key] = Written(docs[w.key], w)]
  BY DEF Commit
<1>4. CASE w.key # k
  <2>1. Commit(docs, w)[k] = docs[k]
    BY <1>2, <1>3, <1>4
  <2> QED
    BY <2>1
<1>5. CASE w.key = k
  <2>1. Commit(docs, w)[k] = Written(doc, w) /\ Written(doc, w) \in Docs \cup {Absent}
    BY <1>1, <1>2, <1>3, <1>5, CommitType
  <2>2. /\ base \in Nat /\ (base > 0 => q[base].kind \in {"add", "delete"})
        /\ (w.kind \in {"add", "delete"} => i <= base)
    BY <1>1, <1>5, NewestIs
  <2>3. id \in Nat /\ (w.kind = "id" => i <= id)
    BY <1>1, <1>5, NewestIs
  <2>4. edit \in Nat /\ (w.kind = "edit" => i <= edit)
    BY <1>1, <1>5, NewestIs
  <2>5. ASSUME NEW x
        PROVE  LET start == IF base = 0 THEN x ELSE Written(x, q[base])
               IN Seen(q, k, x) = IF start = Absent THEN Absent
                                  ELSE [uid  |-> start.uid,
                                        id   |-> IF id > base THEN q[id].data ELSE start.id,
                                        text |-> IF edit > base THEN q[edit].data
                                                 ELSE start.text]
    BY DEF Seen
  <2> HIDE DEF base, id, edit, w
  <2>6. CASE base > 0
    <3>1. Written(Written(doc, w), q[base]) = Written(doc, q[base])
      BY <2>2, <2>6 DEF Written
    <3>2. Seen(q, k, Written(doc, w)) = Seen(q, k, doc)
      BY <2>2, <2>5, <2>6, <3>1
    <3> QED
      BY <2>1, <3>2 DEF w
  <2>7. CASE base = 0
    <3>1. w.kind \in {"id", "edit"}
      BY <1>1, <2>2, <2>7 DEF Kinds
    <3>2. doc \in Docs /\ doc # Absent
      BY <1>2, <1>5, <3>1, AbsentAssumption DEF Accepts, w
    <3>3. CASE w.kind = "id"
      <4>1. Written(doc, w) = [doc EXCEPT !.id = w.data]
        BY <3>3 DEF Written
      <4>2. Written(doc, w).uid = doc.uid /\ Written(doc, w).text = doc.text
        BY <3>2, <4>1 DEF Docs
      <4>3. Written(doc, w) # Absent
        <5>1. Written(doc, w) \in Docs
          BY <1>1, <3>2, <3>3, <4>1 DEF Docs, Sound
        <5> QED
          BY <5>1, AbsentAssumption
      <4>4. id > 0
        BY <1>1, <2>3, <3>3
      <4>5. Seen(q, k, Written(doc, w)) = Seen(q, k, doc)
        BY <2>5, <2>7, <3>2, <4>2, <4>3, <4>4
      <4> QED
        BY <2>1, <4>5 DEF w
    <3>4. CASE w.kind = "edit"
      <4>1. Written(doc, w) = [doc EXCEPT !.text = w.data]
        BY <3>4 DEF Written
      <4>2. Written(doc, w).uid = doc.uid /\ Written(doc, w).id = doc.id
        BY <3>2, <4>1 DEF Docs
      <4>3. Written(doc, w) # Absent
        <5>1. Written(doc, w) \in Docs
          BY <1>1, <3>2, <3>4, <4>1 DEF Docs, Sound
        <5> QED
          BY <5>1, AbsentAssumption
      <4>4. edit > 0
        BY <1>1, <2>4, <3>4
      <4>5. Seen(q, k, Written(doc, w)) = Seen(q, k, doc)
        BY <2>5, <2>7, <3>2, <4>2, <4>3, <4>4
      <4> QED
        BY <2>1, <4>5 DEF w
    <3> QED
      BY <3>1, <3>3, <3>4
  <2> QED
    BY <2>2, <2>6, <2>7
<1> QED
  BY <1>4, <1>5

\* The first n writes of q have been committed: what is seen is the same with any part
\* of them, from the oldest on, taken away.
Behind(q, m) == SubSeq(q, m + 1, Len(q))
InStep(q, n, docs) ==
    \A m \in 0..n, k \in Keys : Seen(Behind(q, m), k, docs[k]) = Seen(q, k, docs[k])

LEMMA BehindIs ==
    ASSUME NEW q \in Seq(Sound), NEW m \in 0..Len(q)
    PROVE  /\ Behind(q, m) \in Seq(Sound)
           /\ Len(Behind(q, m)) = Len(q) - m
           /\ \A j \in 1..(Len(q) - m) : Behind(q, m)[j] = q[j + m]
BY DEF Behind

LEMMA SameSeq ==
    ASSUME NEW x \in Seq(Sound), NEW y \in Seq(Sound), Len(x) = Len(y),
           \A j \in 1..Len(x) : x[j] = y[j]
    PROVE  x = y
OBVIOUS

LEMMA InStepNone ==
    ASSUME NEW q \in Seq(Sound), NEW docs
    PROVE  InStep(q, 0, docs)
<1>1. Behind(q, 0) = q
  BY DEF Behind
<1> QED
  BY <1>1 DEF InStep

\* A write joins the queue.
LEMMA InStepAppend ==
    ASSUME NEW q \in Seq(Sound), NEW w \in Sound, NEW docs \in Collections,
           NEW n \in 0..Len(q), InStep(q, n, docs)
    PROVE  InStep(Append(q, w), n, docs)
<1> SUFFICES ASSUME NEW m \in 0..n, NEW k \in Keys
             PROVE  Seen(Behind(Append(q, w), m), k, docs[k]) = Seen(Append(q, w), k, docs[k])
  BY DEF InStep
<1> DEFINE b == Behind(q, m)
<1>1. b \in Seq(Sound) /\ Behind(Append(q, w), m) = Append(b, w)
  <2>1. m \in Nat /\ m <= Len(q) /\ Len(q) \in Nat
    OBVIOUS
  <2>2. b \in Seq(Sound) /\ Len(b) = Len(q) - m /\ \A j \in 1..(Len(q) - m) : b[j] = q[j + m]
    BY <2>1 DEF Behind
  <2> DEFINE x == Behind(Append(q, w), m)
             y == Append(b, w)
             len == Len(q) - m + 1
  <2>3. /\ x \in Seq(Sound) /\ Len(x) = len
        /\ \A j \in 1..(len - 1) : x[j] = q[j + m]
        /\ x[len] = w
    <3> DEFINE r == Append(q, w)
    <3>1. r \in Seq(Sound) /\ Len(r) = Len(q) + 1 /\ r[Len(q) + 1] = w
          /\ \A j \in 1..Len(q) : r[j] = q[j]
      OBVIOUS
    <3> HIDE DEF r
    <3>2. /\ Behind(r, m) \in Seq(Sound) /\ Len(Behind(r, m)) = len
          /\ \A j \in 1..len : Behind(r, m)[j] = r[j + m]
      BY <2>1, <3>1 DEF Behind
    <3>3. \A j \in 1..(len - 1) : r[j + m] = q[j + m]
      BY <2>1, <3>1
    <3>4. r[len + m] = w /\ len \in 1..len
      BY <2>1, <3>1
    <3> QED
      BY <2>1, <3>2, <3>3, <3>4 DEF r
  <2> HIDE DEF b
  <2>4. /\ y \in Seq(Sound) /\ Len(y) = len
        /\ \A j \in 1..(len - 1) : y[j] = b[j]
        /\ y[len] = w
    BY <2>1, <2>2
  <2>5. len \in Nat /\ \A j \in 1..len : j \in 1..(len - 1) \/ j = len
    BY <2>1
  <2>6. \A j \in 1..(len - 1) : x[j] = y[j]
    <3>1. len - 1 = Len(q) - m
      BY <2>1
    <3> HIDE DEF x, y, len
    <3> QED
      BY <2>2, <2>3, <2>4, <3>1
  <2> HIDE DEF x, y, len
  <2>7. x = y
    <3>1. \A j \in 1..len : x[j] = y[j]
      BY <2>3, <2>4, <2>5, <2>6
    <3> QED
      BY <2>3, <2>4, <3>1, SameSeq
  <2> QED
    BY <2>2, <2>7 DEF x, y
<1>2. \A j \in Keys : Seen(b, j, docs[j]) = Seen(q, j, docs[j])
  BY DEF InStep
<1> HIDE DEF b
<1>3. Seen(Append(b, w), k, docs[k]) = Commit([j \in Keys |-> Seen(b, j, docs[j])], w)[k]
  BY <1>1, SeenAppend
<1>4. Seen(Append(q, w), k, docs[k]) = Commit([j \in Keys |-> Seen(q, j, docs[j])], w)[k]
  BY SeenAppend
<1>5. [j \in Keys |-> Seen(b, j, docs[j])] = [j \in Keys |-> Seen(q, j, docs[j])]
  BY <1>2
<1> QED
  BY <1>1, <1>3, <1>4, <1>5

\* The next write is committed.
LEMMA InStepCommit ==
    ASSUME NEW q \in Seq(Sound), NEW docs \in Collections, NEW n \in 0..(Len(q) - 1),
           Accepts(docs, q[n + 1]), InStep(q, n, docs)
    PROVE  InStep(q, n + 1, Commit(docs, q[n + 1]))
<1> DEFINE w == q[n + 1]
           docs1 == Commit(docs, w)
<1>1. n \in Nat /\ Len(q) \in Nat /\ n + 1 <= Len(q) /\ n + 1 \in DOMAIN q /\ w \in Sound
  OBVIOUS
<1>2. docs1 \in Collections
  BY <1>1, CommitType
<1>3. \A k \in Keys : Seen(q, k, docs1[k]) = Seen(q, k, docs[k])
  BY <1>1, SeenCommit
<1>4. ASSUME NEW m \in 0..n, NEW k \in Keys
      PROVE  Seen(Behind(q, m), k, docs1[k]) = Seen(q, k, docs1[k])
  <2> DEFINE b == Behind(q, m)
             i == n + 1 - m
  <2>1. b \in Seq(Sound) /\ i \in DOMAIN b /\ b[i] = w
    BY <1>1 DEF Behind
  <2>2. Seen(b, k, docs[k]) = Seen(q, k, docs[k])
    BY DEF InStep
  <2> HIDE DEF b, i
  <2>3. Seen(b, k, Commit(docs, b[i])[k]) = Seen(b, k, docs[k])
    <3>1. Accepts(docs, b[i])
      BY <2>1
    <3> QED
      BY <2>1, <3>1, SeenCommit
  <2> QED
    BY <1>3, <2>1, <2>2, <2>3 DEF b
<1>5. ASSUME NEW k \in Keys
      PROVE  Seen(Behind(q, n + 1), k, docs1[k]) = Seen(q, k, docs1[k])
  <2> DEFINE b == Behind(q, n)
  <2>1. b \in Seq(Sound) /\ b # <<>> /\ Head(b) = w /\ Tail(b) = Behind(q, n + 1)
    <3>1. b \in Seq(Sound) /\ Len(b) = Len(q) - n /\ \A j \in 1..(Len(q) - n) : b[j] = q[j + n]
      BY <1>1 DEF Behind
    <3> DEFINE x == Tail(b)
               y == Behind(q, n + 1)
    <3>2. y \in Seq(Sound) /\ Len(y) = Len(q) - n - 1
          /\ \A j \in 1..(Len(q) - n - 1) : y[j] = q[j + n + 1]
      BY <1>1 DEF Behind
    <3> HIDE DEF b
    <3>3. b # <<>> /\ Head(b) = w
      BY <1>1, <3>1
    <3>4. x \in Seq(Sound) /\ Len(x) = Len(q) - n - 1
          /\ \A j \in 1..(Len(q) - n - 1) : x[j] = b[j + 1]
      BY <1>1, <3>1, <3>3
    <3>5. \A j \in 1..(Len(q) - n - 1) : x[j] = y[j]
      BY <1>1, <3>1, <3>2, <3>4
    <3> HIDE DEF x, y
    <3>6. x = y
      BY <3>2, <3>4, <3>5, SameSeq
    <3> QED
      BY <3>1, <3>3, <3>6 DEF x, y
  <2>2. Seen(b, k, docs[k]) = Seen(q, k, docs[k])
    <3>1. n \in 0..n
      BY <1>1
    <3> QED
      BY <3>1 DEF InStep
  <2> HIDE DEF b
  <2>3. Seen(b, k, docs[k]) = Seen(Tail(b), k, docs1[k])
    BY <2>1, SeenTail
  <2> QED
    BY <1>3, <2>1, <2>2, <2>3
<1>6. \A m \in 0..(n + 1) : m \in 0..n \/ m = n + 1
  BY <1>1
<1> HIDE DEF docs1, w
<1>7. InStep(q, n + 1, docs1)
  BY <1>4, <1>5, <1>6 DEF InStep
<1> QED
  BY <1>7 DEF docs1, w

\* The oldest write, committed before, leaves the queue.
LEMMA InStepTail ==
    ASSUME NEW q \in Seq(Sound), NEW docs, NEW n \in 1..Len(q), InStep(q, n, docs)
    PROVE  /\ InStep(Tail(q), n - 1, docs)
           /\ \A k \in Keys : Seen(Tail(q), k, docs[k]) = Seen(q, k, docs[k])
<1>1. Tail(q) = Behind(q, 1) /\ 1 \in 0..n
  BY DEF Behind
<1>2. \A k \in Keys : Seen(Tail(q), k, docs[k]) = Seen(q, k, docs[k])
  BY <1>1 DEF InStep
<1>3. ASSUME NEW m \in 0..(n - 1), NEW k \in Keys
      PROVE  Seen(Behind(Tail(q), m), k, docs[k]) = Seen(Tail(q), k, docs[k])
  <2>1. m + 1 \in 0..n /\ Behind(Tail(q), m) = Behind(q, m + 1)
    <3> DEFINE x == Behind(Tail(q), m)
               y == Behind(q, m + 1)
               len == Len(q) - m - 1
    <3>1. m \in Nat /\ Len(q) \in Nat /\ m + 1 <= Len(q) /\ m + 1 \in 0..n /\ len \in Nat
      OBVIOUS
    <3>2. Tail(q) \in Seq(Sound) /\ Len(Tail(q)) = Len(q) - 1
          /\ \A j \in 1..(Len(q) - 1) : Tail(q)[j] = q[j + 1]
      BY <3>1
    <3>3. x \in Seq(Sound) /\ Len(x) = len /\ \A j \in 1..len : x[j] = Tail(q)[j + m]
      <4> DEFINE t == Tail(q)
      <4>1. t \in Seq(Sound) /\ m \in 0..Len(t) /\ Len(t) - m = len
        BY <3>1, <3>2
      <4> HIDE DEF t, len
      <4>2. Behind(t, m) \in Seq(Sound) /\ Len(Behind(t, m)) = len
            /\ \A j \in 1..len : Behind(t, m)[j] = t[j + m]
        BY <4>1, BehindIs
      <4> QED
        BY <4>2 DEF t
    <3>4. y \in Seq(Sound) /\ Len(y) = len /\ \A j \in 1..len : y[j] = q[j + m + 1]
      BY <3>1 DEF Behind
    <3>5. \A j \in 1..len : Tail(q)[j + m] = q[j + m + 1]
      BY <3>1, <3>2
    <3> HIDE DEF x, y, len
    <3>6. x = y
      BY <3>3, <3>4, <3>5, SameSeq
    <3> QED
      BY <3>1, <3>6 DEF x, y
  <2>2. Seen(Behind(q, m + 1), k, docs[k]) = Seen(q, k, docs[k])
    BY <2>1 DEF InStep
  <2> QED
    BY <1>2, <2>1, <2>2
<1> QED
  BY <1>2, <1>3 DEF InStep

AllInStep ==
    \A d \in Devices : session[d] # None => InStep(Pending(d), inFlight[d], server)

\* One phone, and a backend whose rules refuse no write.
Alone == (\A d, e \in Devices : d = e) /\ Denied = {}

\* The phone's own part of it.
LEMMA PhoneInStep ==
    ASSUME IInv, AllInStep, NEW d \in Devices, session[d] # None
    PROVE  /\ session[d] \in Users /\ server \in Collections
           /\ Pending(d) = queue[d][session[d]]
           /\ Pending(d) \in Seq(Sound)
           /\ inFlight[d] \in 0..Len(Pending(d))
           /\ InStep(Pending(d), inFlight[d], server)
<1>1. session[d] \in Users
  BY DEF IInv, TypeOK
<1>2. Pending(d) = queue[d][session[d]] /\ Pending(d) \in Seq(Sound)
  BY <1>1, SoundQueues DEF Pending
<1>3. inFlight[d] \in Nat /\ inFlight[d] <= Len(Pending(d))
  BY DEF IInv, TypeOK, PipelineOK
<1>4. server \in Collections
  BY DEF IInv, TypeOK, Collections
<1> QED
  BY <1>1, <1>2, <1>3, <1>4 DEF AllInStep

\* A write of the phone is committed.
LEMMA CommitInStep ==
    ASSUME IInv, AllInStep, NEW d \in Devices, ServerCommit(d)
    PROVE  /\ InStep(Pending(d)', inFlight'[d], server')
           /\ \A k \in Keys : Seen(Pending(d), k, server'[k]) = Seen(Pending(d), k, server[k])
<1> DEFINE q == Pending(d)
           n == inFlight[d]
<1>1. session[d] # None /\ n < Len(q) /\ Accepts(server, q[n + 1])
      /\ server' = Commit(server, q[n + 1]) /\ UNCHANGED <<session, queue>>
  BY DEF ServerCommit
<1>2. /\ server \in Collections /\ q \in Seq(Sound) /\ n \in 0..Len(q)
      /\ InStep(q, n, server)
  BY <1>1, PhoneInStep
<1>3. inFlight'[d] = n + 1 /\ Pending(d)' = q
  BY <1>1 DEF ServerCommit, IInv, TypeOK, Pending
<1> HIDE DEF q, n
<1>4. n \in 0..(Len(q) - 1) /\ n + 1 \in DOMAIN q
  BY <1>1, <1>2
<1>5. InStep(q, n + 1, Commit(server, q[n + 1]))
  BY <1>1, <1>2, <1>4, InStepCommit
<1>6. \A k \in Keys : Seen(q, k, Commit(server, q[n + 1])[k]) = Seen(q, k, server[k])
  BY <1>1, <1>2, <1>4, SeenCommit
<1> QED
  BY <1>1, <1>3, <1>5, <1>6 DEF q

\* A result arrives.
LEMMA ResultInStep ==
    ASSUME IInv, AllInStep, NEW d \in Devices, OnWriteStreamMutationResult(d)
    PROVE  /\ InStep(Pending(d)', inFlight'[d], server')
           /\ Pending(d)' = Tail(Pending(d))
           /\ \A k \in Keys : Seen(Tail(Pending(d)), k, server[k]) = Seen(Pending(d), k, server[k])
<1> DEFINE q == Pending(d)
           n == inFlight[d]
<1>1. session[d] # None /\ n > 0 /\ DropFirst(d) /\ UNCHANGED <<server, session>>
  BY DEF OnWriteStreamMutationResult
<1>2. /\ session[d] \in Users /\ q = queue[d][session[d]]
      /\ q \in Seq(Sound) /\ n \in 0..Len(q) /\ InStep(q, n, server)
  BY <1>1, PhoneInStep
<1>3. inFlight'[d] = n - 1
  BY DEF OnWriteStreamMutationResult, IInv, TypeOK
<1>4. Pending(d)' = Tail(q)
  BY <1>1, <1>2 DEF DropFirst, Pending, IInv, TypeOK
<1> HIDE DEF q, n
<1>5. n \in 1..Len(q)
  BY <1>1, <1>2
<1>6. /\ InStep(Tail(q), n - 1, server)
      /\ \A k \in Keys : Seen(Tail(q), k, server[k]) = Seen(q, k, server[k])
  BY <1>2, <1>5, InStepTail
<1> QED
  BY <1>1, <1>3, <1>4, <1>6 DEF q

\* A write that cannot succeed is given up.
LEMMA ErrorInStep ==
    ASSUME Denied = {}, IInv, AllInStep, NEW d \in Devices, HandleWriteError(d)
    PROVE  /\ InStep(Pending(d)', inFlight'[d], server')
           /\ Pending(d)' = Tail(Pending(d))
           /\ \A k \in Keys : Seen(Tail(Pending(d)), k, server[k]) = Seen(Pending(d), k, server[k])
<1> DEFINE q == Pending(d)
<1>1. session[d] # None /\ inFlight'[d] = 0 /\ q # <<>> /\ DropFirst(d)
      /\ ~Accepts(server, Head(q)) /\ UNCHANGED <<server, session>>
  BY DEF HandleWriteError
<1>2. /\ session[d] \in Users /\ q = queue[d][session[d]]
      /\ q \in Seq(Sound) /\ server \in Collections
  BY <1>1, PhoneInStep
<1>3. Pending(d)' = Tail(q)
  BY <1>1, <1>2 DEF DropFirst, Pending, IInv, TypeOK
<1> HIDE DEF q
<1>4. Commit(server, Head(q)) = server
  BY <1>1 DEF Commit
<1>5. \A k \in Keys : Seen(q, k, server[k]) = Seen(Tail(q), k, Commit(server, Head(q))[k])
  BY <1>1, <1>2, SeenTail
<1>6. InStep(Tail(q), 0, server)
  <2>1. Tail(q) \in Seq(Sound)
    BY <1>1, <1>2
  <2> QED
    BY <2>1, InStepNone
<1> QED
  BY <1>1, <1>3, <1>4, <1>5, <1>6 DEF q

\* A screen writes.
LEMMA ScreenInStep ==
    ASSUME IInv, AllInStep, NEW d \in Devices, NEW u \in Users, u = session[d],
           NEW w \in Sound, queue' = [queue EXCEPT ![d][u] = Append(@, w)],
           UNCHANGED <<server, session, inFlight>>
    PROVE  InStep(Pending(d)', inFlight'[d], server')
<1> DEFINE q == Pending(d)
<1>1. session[d] # None
  BY NamesAssumption
<1>2. /\ q = queue[d][u] /\ q \in Seq(Sound) /\ server \in Collections
      /\ inFlight[d] \in 0..Len(q) /\ InStep(q, inFlight[d], server)
  BY <1>1, PhoneInStep
<1>3. Pending(d)' = Append(q, w)
  BY <1>2 DEF Pending, IInv, TypeOK
<1> HIDE DEF q
<1>4. InStep(Append(q, w), inFlight[d], server)
  BY <1>2, InStepAppend
<1> QED
  BY <1>3, <1>4

\* The committed writes stay in step with the backend.
LEMMA NextInStep ==
    ASSUME Alone
    PROVE  IInv /\ AllInStep /\ [Next]_vars => AllInStep'
<1> SUFFICES ASSUME IInv, AllInStep, [Next]_vars PROVE AllInStep'
  OBVIOUS
<1>1. IInv'
  BY NextIInv
<1>2. ASSUME UNCHANGED <<server, session, queue, inFlight>> PROVE AllInStep'
  BY <1>2 DEF AllInStep, Pending
<1>3. ASSUME NEW d \in Devices, InStep(Pending(d)', inFlight'[d], server') PROVE AllInStep'
  BY <1>3 DEF AllInStep, Alone
<1>4. ASSUME NEW d \in Devices, inFlight'[d] = 0 PROVE AllInStep'
  <2> SUFFICES ASSUME session'[d] # None PROVE InStep(Pending(d)', inFlight'[d], server')
    BY DEF AllInStep, Alone
  <2>1. queue'[d][session'[d]] \in Seq(Writes) /\ session'[d] \in Users
    BY <1>1 DEF IInv, TypeOK
  <2>2. \A i \in DOMAIN queue'[d][session'[d]] : queue'[d][session'[d]][i] \in Sound
    BY <1>1, <2>1 DEF IInv, QueueInv, WriteOK, Sound, Keys
  <2>3. Pending(d)' \in Seq(Sound)
    BY <2>1, <2>2 DEF Pending
  <2> QED
    BY <1>4, <2>3, InStepNone
<1>5. ASSUME NEW d \in Devices, Screens(d) PROVE AllInStep'
  <2>1. ASSUME NEW k \in Ids, NEW t \in Texts, SaveOffer(d, k, t) PROVE AllInStep'
    <3>1. PICK u \in Users : u = session[d]
      BY <2>1 DEF SaveOffer, IInv, TypeOK
    <3> DEFINE w == Write("add", k, u, t)
    <3>2. w \in Sound
      BY <2>1 DEF Write, Sound, Writes, Kinds, Keys
    <3>3. queue' = [queue EXCEPT ![d][u] = Append(@, w)]
          /\ UNCHANGED <<server, session, inFlight>>
      BY <2>1, <3>1 DEF SaveOffer, WriteMutations
    <3> HIDE DEF w
    <3> QED
      BY <1>3, <3>1, <3>2, <3>3, ScreenInStep
  <2>2. ASSUME SaveOfferId(d) PROVE AllInStep'
    <3>1. PICK u \in Users, k \in Ids : u = session[d] /\ k = half[d]
      BY <2>2, NamesAssumption DEF SaveOfferId, IInv, TypeOK, PipelineOK
    <3> DEFINE w == Write("id", k, u, k)
    <3>2. w \in Sound
      BY DEF Write, Sound, Writes, Kinds, Keys
    <3>3. queue' = [queue EXCEPT ![d][u] = Append(@, w)]
          /\ UNCHANGED <<server, session, inFlight>>
      BY <2>2, <3>1 DEF SaveOfferId
    <3> HIDE DEF w
    <3> QED
      BY <1>3, <3>1, <3>2, <3>3, ScreenInStep
  <2>3. ASSUME NEW kind \in {"edit", "delete"}, NEW data \in Texts \cup {None},
               kind = "edit" => data \in Texts, open[d] # None,
               queue' = [queue EXCEPT ![d][session[d]] =
                            Append(@, Write(kind, open[d].id, session[d], data))],
               UNCHANGED <<server, session, inFlight>>
        PROVE  AllInStep'
    <3>1. PICK u \in Users, id \in Keys : u = session[d] /\ id = open[d].id
      BY <2>3 DEF IInv, TypeOK, ScreenInv, RowOK, Rows
    <3> DEFINE w == Write(kind, id, u, data)
    <3>2. w \in Sound
      BY <2>3 DEF Write, Sound, Writes, Kinds
    <3>3. queue' = [queue EXCEPT ![d][u] = Append(@, w)]
      BY <2>3, <3>1
    <3> HIDE DEF w
    <3> QED
      BY <1>3, <2>3, <3>1, <3>2, <3>3, ScreenInStep
  <2>4. ASSUME NEW t \in Texts, UpdateOffer(d, t) PROVE AllInStep'
    BY <2>3, <2>4 DEF UpdateOffer, WriteMutations
  <2>5. ASSUME DeleteOffer(d) PROVE AllInStep'
    BY <2>3, <2>5 DEF DeleteOffer, WriteMutations
  <2>6. ASSUME \/ LoadOffersForIUD(d) \/ CloseOffer(d)
               \/ \E row \in Rows : OpenOffer(d, row)
        PROVE  UNCHANGED <<server, session, queue, inFlight>>
    BY <2>6 DEF LoadOffersForIUD, CloseOffer, OpenOffer
  <2> QED
    BY <1>2, <1>5, <2>1, <2>2, <2>4, <2>5, <2>6 DEF Screens
<1>6. ASSUME NEW d \in Devices, Network(d) PROVE AllInStep'
  <2>1. OnWriteStreamClose(d) => inFlight'[d] = 0
    BY DEF OnWriteStreamClose, IInv, TypeOK
  <2> QED
    BY <1>3, <1>4, <1>6, <2>1, CommitInStep, ResultInStep, ErrorInStep DEF Network, Alone
<1>7. ASSUME NEW d \in Devices, \/ Restart(d)
                                \/ \E s \in Users \cup {None} : HandleCredentialChange(d, s)
                                \/ \E u \in Users : CreateUser(d, u)
      PROVE  inFlight'[d] = 0
  BY <1>7 DEF Restart, HandleCredentialChange, CreateUser, IInv, TypeOK
<1> QED
  BY <1>2, <1>4, <1>5, <1>6, <1>7 DEF Next, vars

\* With one phone, what its user sees never depends on the progress of the network:
\* sending, committing, losing a result, sending again and giving up a write that cannot
\* succeed leave the answer of every query as it was (NetworkInvisible).
THEOREM Invisible == ASSUME Alone PROVE Spec => NetworkInvisible
<1>1. Init => AllInStep
  BY DEF Init, AllInStep
<1>2. IInv /\ AllInStep /\ [Next]_vars => AllInStep'
  BY NextInStep
<1>3. IInv /\ AllInStep /\ [Next]_vars =>
        [\A d \in Devices : session[d] # None /\ Network(d) =>
            View(d, session[d])' = View(d, session[d])]_vars
  <2> SUFFICES ASSUME IInv, AllInStep, NEW d \in Devices, session[d] # None, Network(d)
               PROVE  View(d, session[d])' = View(d, session[d])
    OBVIOUS
  <2>1. Pending(d) = queue[d][session[d]] /\ session' = session
    BY DEF Pending, Network, ServerCommit, OnWriteStreamMutationResult, HandleWriteError,
           OnWriteStreamClose
  <2>2. Pending(d)' = queue'[d][session[d]]
    BY <2>1 DEF Pending
  <2>3. \A k \in Keys : Seen(Pending(d)', k, server'[k]) = Seen(Pending(d), k, server[k])
    <3>1. CASE ServerCommit(d)
      <4>1. Pending(d)' = Pending(d)
        BY <3>1 DEF ServerCommit, Pending
      <4> QED
        BY <3>1, <4>1, CommitInStep
    <3>2. CASE OnWriteStreamMutationResult(d)
      <4>1. server' = server
        BY <3>2 DEF OnWriteStreamMutationResult
      <4> QED
        BY <3>2, <4>1, ResultInStep
    <3>3. CASE HandleWriteError(d)
      <4>1. server' = server
        BY <3>3 DEF HandleWriteError
      <4> QED
        BY <3>3, <4>1, ErrorInStep DEF Alone
    <3>4. CASE OnWriteStreamClose(d)
      BY <3>4 DEF OnWriteStreamClose, Pending
    <3> QED
      BY <3>1, <3>2, <3>3, <3>4 DEF Network
  <2> QED
    BY <2>1, <2>2, <2>3 DEF View
<1> QED
  BY <1>1, <1>2, <1>3, Invariance, PTL DEF Spec, NetworkInvisible
=============================================================================

------------------------------ MODULE Anuncio -------------------------------
(***************************************************************************)
(* The ads ("anuncio" collection): OfertasWorker on several phones, the     *)
(* screens that call it (AddPokemon, MinhasOfertas, MeuAnuncio), the write  *)
(* path of the Firestore client that carries its writes, and the backend.   *)
(*                                                                          *)
(* A write is first stored in the mutation queue the phone keeps for the    *)
(* signed-in user (it survives the process), then sent; the backend commits *)
(* it; its result comes back and the write leaves the queue.  Up to ten     *)
(* writes may be under way, so the connection may be lost between commit    *)
(* and result, and the writes are then sent again.                          *)
(*                                                                          *)
(* saveOffer publishes in two writes: the document, whose "id" field says   *)
(* "No Id", and an update that stores the document's own id in that field.  *)
(* The screens know an ad only by that field.                               *)
(***************************************************************************)
EXTENDS Naturals, SequencesExt

CONSTANTS Devices,    \* phones running the app
          Users,      \* uids of Firebase Authentication
          Ids,        \* document ids the client may generate
          Texts,      \* values of the fields the owner may edit
          NoId,       \* the string "No Id"
          None,       \* nobody, nothing
          Absent,     \* a document that does not exist
          MaxQueue,   \* bound on the writes pending in all queues when one is added
          Denied      \* kinds of write the backend's rules may refuse

Kinds == {"add", "id", "edit", "delete"}

ASSUME NamesAssumption == /\ NoId \notin Ids
                          /\ None \notin Users
                          /\ None \notin Ids \cup {NoId}
ASSUME BoundsAssumption == MaxQueue \in Nat /\ Denied \subseteq Kinds

VARIABLES
    server,     \* document key -> document of the collection, or Absent
    author,     \* document key -> user for whom a phone generated it, or None
    session,    \* phone -> Auth.auth().currentUser, or None
    queue,      \* phone -> user -> pending writes, oldest first
    inFlight,   \* phone -> how many of them the backend has committed already
    half,       \* phone -> ad whose first write is stored, the second not yet
    list,       \* phone -> rows of MinhasOfertas as last loaded
    open,       \* phone -> ad shown by MeuAnuncio, or None
    account,    \* users whose account has been created
    lostId,     \* history: ads whose second write was refused or never stored
    strays      \* history: <<user, ad>> where the user edited or deleted an ad on
                \* a screen that its author had left open on that phone

history == <<lostId, strays>>
vars == <<server, author, session, queue, inFlight, half, list, open, account,
          history>>
local == <<half, list, open>>

Keys == Ids \cup {NoId}
Docs == [uid : Users, id : Keys, text : Texts]
Rows == [key : Ids, id : Keys]     \* key: where the row was read, not known to the app
Writes == [kind : Kinds, key : Keys, uid : Users, data : Texts \cup Ids \cup {None}]

ASSUME AbsentAssumption == /\ Absent \notin Docs \cup [uid : Users, text : Texts]
                           /\ None \notin Rows

\* UpdateData has the precondition that the document exists; the others none.
Accepts(docs, w) == w.kind \in {"id", "edit"} => docs[w.key] # Absent

Written(doc, w) ==
    CASE w.kind = "add"    -> [uid |-> w.uid, id |-> NoId, text |-> w.data]
      [] w.kind = "id"     -> [doc EXCEPT !.id = w.data]
      [] w.kind = "edit"   -> [doc EXCEPT !.text = w.data]
      [] w.kind = "delete" -> Absent

Commit(docs, w) == IF Accepts(docs, w)
                   THEN [docs EXCEPT ![w.key] = Written(docs[w.key], w)]
                   ELSE docs

\* The newest of the pending writes q to document k of these kinds, 0 for none.
Newest(q, k, kinds) ==
    Max({0} \cup {i \in DOMAIN q : q[i].key = k /\ q[i].kind \in kinds})

\* Document k under the pending writes q, which the client applies in their order:
\* the newest add or delete decides, updates count if they come after it.
Seen(q, k, doc) ==
    LET base == Newest(q, k, {"add", "delete"})
        id   == Newest(q, k, {"id"})
        edit == Newest(q, k, {"edit"})
        start == IF base = 0 THEN doc ELSE Written(doc, q[base])
    IN IF start = Absent THEN Absent
       ELSE [uid  |-> start.uid,
             id   |-> IF id > base THEN q[id].data ELSE start.id,
             text |-> IF edit > base THEN q[edit].data ELSE start.text]

\* What a query answers on phone d: the backend's documents under the pending
\* writes of the signed-in user.
View(d, u) == [k \in Keys |-> Seen(queue[d][u], k, server[k])]

Pending(d) == queue[d][session[d]]     \* for a signed-in phone

PipelineOK ==
    \A d \in Devices : IF session[d] = None
                       THEN inFlight[d] = 0 /\ half[d] = None
                       ELSE inFlight[d] <= Len(Pending(d))

TypeOK ==
    /\ server \in [Keys -> Docs \cup {Absent}]
    /\ author \in [Ids -> Users \cup {None}]
    /\ session \in [Devices -> Users \cup {None}]
    /\ queue \in [Devices -> [Users -> Seq(Writes)]]
    /\ inFlight \in [Devices -> Nat]
    /\ half \in [Devices -> Ids \cup {None}]
    /\ list \in [Devices -> SUBSET Rows]
    /\ open \in [Devices -> Rows \cup {None}]
    /\ account \subseteq Users
    /\ \A d \in Devices : session[d] \in account \cup {None}
    /\ lostId \subseteq Ids
    /\ strays \subseteq Users \X Ids
    /\ PipelineOK

Init == /\ server = [k \in Keys |-> Absent]
        /\ author = [k \in Ids |-> None]
        /\ session = [d \in Devices |-> None]
        /\ queue = [d \in Devices |-> [u \in Users |-> <<>>]]
        /\ inFlight = [d \in Devices |-> 0]
        /\ half = [d \in Devices |-> None]
        /\ list = [d \in Devices |-> {}]
        /\ open = [d \in Devices |-> None]
        /\ account = {}
        /\ lostId = {}
        /\ strays = {}

-----------------------------------------------------------------------------
(* The screens and OfertasWorker.                                           *)

Write(kind, key, u, data) ==
    [kind |-> kind, key |-> key, uid |-> u, data |-> data]

Stored == FoldFunction(LAMBDA queues, n : FoldFunction(LAMBDA q, m : Len(q) + m, n, queues),
                       0, queue)

WriteMutations(d, w) ==
    /\ Stored < MaxQueue
    /\ queue' = [queue EXCEPT ![d][session[d]] = Append(@, w)]

\* Variant: documents are not given fresh ids.
SaveOfferAnyId(d, k, t) ==
    /\ session[d] # None
    /\ half[d] = None
    /\ author' = [author EXCEPT ![k] = session[d]]
    /\ WriteMutations(d, Write("add", k, session[d], t))
    /\ half' = [half EXCEPT ![d] = k]
    /\ UNCHANGED <<server, session, inFlight, list, open, account, history>>

\* saveOffer up to addDocument: only with a current user.
SaveOffer(d, k, t) ==
    /\ session[d] # None
    /\ half[d] = None
    /\ author[k] = None
    /\ author' = [author EXCEPT ![k] = session[d]]
    /\ WriteMutations(d, Write("add", k, session[d], t))
    /\ half' = [half EXCEPT ![d] = k]
    /\ UNCHANGED <<server, session, inFlight, list, open, account, history>>

\* Variant: the second write stores an id generated anew instead of the document's.
SaveOfferIdFresh(d) ==
    /\ half[d] # None
    /\ \E k \in Ids \ {half[d]} :
          queue' = [queue EXCEPT ![d][session[d]] =
                       Append(@, Write("id", half[d], session[d], k))]
    /\ half' = [half EXCEPT ![d] = None]
    /\ UNCHANGED <<server, author, session, inFlight, list, open, account, history>>

\* saveOffer, the updateData that follows: the id replaces "No Id".
SaveOfferId(d) ==
    /\ half[d] # None
    /\ queue' = [queue EXCEPT ![d][session[d]] =
                    Append(@, Write("id", half[d], session[d], half[d]))]
    /\ half' = [half EXCEPT ![d] = None]
    /\ UNCHANGED <<server, author, session, inFlight, list, open, account, history>>

\* loadOffersForIUD, from the answer on: the rows are the user's documents.
LoadOffersForIUD(d) ==
    /\ session[d] # None
    /\ LET docs == View(d, session[d])
           mine == {k \in Ids : docs[k] # Absent /\ docs[k].uid = session[d]}
       IN list' = [list EXCEPT ![d] = {[key |-> k, id |-> docs[k].id] : k \in mine}]
    /\ UNCHANGED <<server, author, session, queue, inFlight, half, open, account,
                   history>>

\* Tapping a row opens MeuAnuncio on a copy of it.
OpenOffer(d, row) ==
    /\ open[d] = None
    /\ row \in list[d]
    /\ open' = [open EXCEPT ![d] = row]
    /\ UNCHANGED <<server, author, session, queue, inFlight, half, list, account,
                   history>>

CloseOffer(d) ==
    /\ open[d] # None
    /\ open' = [open EXCEPT ![d] = None]
    /\ UNCHANGED <<server, author, session, queue, inFlight, half, list, account,
                   history>>

\* The buttons of MeuAnuncio do not ask whose ad is shown: after CreateUser behind
\* the screen it may be another user's.
Strayed(d) ==
    LET k == open[d].id
    IN IF k \in Ids /\ author[k] # session[d] THEN strays \cup {<<session[d], k>>}
       ELSE strays

\* Variant: the edit is a setData, which creates the document if need be.
UpdateOfferSetData(d, t) ==
    /\ open[d] # None
    /\ half[d] = None
    /\ WriteMutations(d, Write("add", open[d].id, session[d], t))
    /\ UNCHANGED <<server, author, session, inFlight, half, list, open, account, history>>

\* pressedEditarButton: the screen's texts go to the document named by "id".
UpdateOffer(d, t) ==
    /\ open[d] # None
    /\ half[d] = None
    /\ WriteMutations(d, Write("edit", open[d].id, session[d], t))
    /\ strays' = Strayed(d)
    /\ UNCHANGED <<server, author, session, inFlight, half, list, open, account, lostId>>

\* pressedExcluirButton: the screen stays open and may be used again.
DeleteOffer(d) ==
    /\ open[d] # None
    /\ half[d] = None
    /\ WriteMutations(d, Write("delete", open[d].id, session[d], None))
    /\ strays' = Strayed(d)
    /\ UNCHANGED <<server, author, session, inFlight, half, list, open, account, lostId>>

-----------------------------------------------------------------------------
(* The Firestore client and the backend.                                    *)

\* The backend commits the next write of the pipeline of phone d.
ServerCommit(d) ==
    /\ session[d] # None
    /\ inFlight[d] < Len(Pending(d))
    /\ LET w == Pending(d)[inFlight[d] + 1]
       IN /\ Accepts(server, w)
          /\ server' = Commit(server, w)
    /\ inFlight' = [inFlight EXCEPT ![d] = @ + 1]
    /\ UNCHANGED <<author, session, queue, half, list, open, account, history>>

DropFirst(d) == queue' = [queue EXCEPT ![d][session[d]] = Tail(@)]

\* Variant: the count of committed writes is not brought down.
ResultNotCounted(d) ==
    /\ session[d] # None
    /\ inFlight[d] > 0
    /\ DropFirst(d)
    /\ UNCHANGED <<server, author, session, inFlight, half, list, open, account, history>>

\* Variant: the result is taken for the newest pending write.
ResultDropsNewest(d) ==
    /\ session[d] # None
    /\ inFlight[d] > 0
    /\ queue' = [queue EXCEPT ![d][session[d]] = Front(@)]
    /\ inFlight' = [inFlight EXCEPT ![d] = @ - 1]
    /\ UNCHANGED <<server, author, session, half, list, open, account, history>>

\* A result arrives: it belongs to the oldest pending write.
OnWriteStreamMutationResult(d) ==
    /\ session[d] # None
    /\ inFlight[d] > 0
    /\ DropFirst(d)
    /\ inFlight' = [inFlight EXCEPT ![d] = @ - 1]
    /\ UNCHANGED <<server, author, session, half, list, open, account, history>>

\* Variant: a permanent error is retried like a transient one.
HandleWriteErrorRetry(d) ==
    /\ session[d] # None
    /\ inFlight[d] = 0
    /\ Pending(d) # <<>>
    /\ ~Accepts(server, Head(Pending(d)))
    /\ UNCHANGED vars

\* A permanent error arrives: the results before it have arrived, the oldest
\* write is given up, the ones behind it stay.
HandleWriteError(d) ==
    /\ session[d] # None
    /\ inFlight[d] = 0
    /\ Pending(d) # <<>>
    /\ LET w == Head(Pending(d))
       IN /\ ~Accepts(server, w) \/ w.kind \in Denied
          /\ lostId' = IF w.kind = "id" THEN lostId \cup {w.key} ELSE lostId
    /\ DropFirst(d)
    /\ UNCHANGED <<server, author, session, inFlight, half, list, open, account, strays>>

\* The stream breaks before the results arrive: the writes will be sent again.
OnWriteStreamClose(d) ==
    /\ inFlight[d] > 0
    /\ inFlight' = [inFlight EXCEPT ![d] = 0]
    /\ UNCHANGED <<server, author, session, queue, half, list, open, account,
                   history>>

\* The new session s of phone d: the client turns to the queue of s, whose writes
\* are sent from the first on; those of the old user wait until that user is back.
TurnTo(d, s) ==
    /\ session' = [session EXCEPT ![d] = s]
    /\ inFlight' = [inFlight EXCEPT ![d] = 0]

LeaveScreens(d) ==
    /\ list' = [list EXCEPT ![d] = {}]
    /\ open' = [open EXCEPT ![d] = None]

\* Variant: the pending writes move to the next user who signs in.
CredentialChangeKeepsQueue(d, s) ==
    /\ half[d] = None
    /\ s \in account \cup {None} /\ s # session[d]
    /\ TurnTo(d, s)
    /\ queue' = IF None \in {s, session[d]} THEN queue
                ELSE [queue EXCEPT ![d][s] = queue[d][session[d]]]
    /\ LeaveScreens(d)
    /\ UNCHANGED <<server, author, half, account, history>>

\* Variant: signing out throws the pending writes away.
CredentialChangeDropsQueue(d, s) ==
    /\ half[d] = None
    /\ s \in account \cup {None} /\ s # session[d]
    /\ TurnTo(d, s)
    /\ queue' = [queue EXCEPT ![d] = [u \in Users |-> <<>>]]
    /\ LeaveScreens(d)
    /\ UNCHANGED <<server, author, half, account, history>>

\* Signing in (also over the session a sign-up has left) or out, which replaces the
\* screens.  The notice comes on the main queue, where saveOffer's two writes are one
\* turn.
HandleCredentialChange(d, s) ==
    /\ half[d] = None
    /\ s \in account \cup {None} /\ s # session[d]
    /\ TurnTo(d, s)
    /\ LeaveScreens(d)
    /\ UNCHANGED <<server, author, queue, half, account, history>>

\* signup, the answer of createUser: the new account is the session at once, whoever
\* has signed in since the question, and the screens of that user stay.
CreateUser(d, u) ==
    /\ half[d] = None
    /\ u \notin account
    /\ account' = account \cup {u}
    /\ TurnTo(d, u)
    /\ UNCHANGED <<server, author, queue, half, list, open, history>>

\* The process is killed and started again: session and queues are on disk.
Restart(d) ==
    /\ inFlight' = [inFlight EXCEPT ![d] = 0]
    /\ lostId' = lostId \cup ({half[d]} \ {None})
    /\ half' = [half EXCEPT ![d] = None]
    /\ LeaveScreens(d)
    /\ UNCHANGED <<server, author, session, queue, account, strays>>

Screens(d) == \/ \E k \in Ids, t \in Texts : SaveOffer(d, k, t)
              \/ SaveOfferId(d)
              \/ LoadOffersForIUD(d)
              \/ \E row \in Rows : OpenOffer(d, row)
              \/ CloseOffer(d)
              \/ \E t \in Texts : UpdateOffer(d, t)
              \/ DeleteOffer(d)

Network(d) == \/ ServerCommit(d)
              \/ OnWriteStreamMutationResult(d)
              \/ HandleWriteError(d)
              \/ OnWriteStreamClose(d)

Next == \E d \in Devices :
            \/ Screens(d)
            \/ Network(d)
            \/ \E s \in Users \cup {None} : HandleCredentialChange(d, s)
            \/ \E u \in Users : CreateUser(d, u)
            \/ Restart(d)

Spec == Init /\ [][Next]_vars

\* The client keeps sending and connections last long enough now and then for a
\* result to come back; nothing obliges a user to do anything.
Fairness == \A d \in Devices : /\ WF_vars(SaveOfferId(d))
                               /\ WF_vars(ServerCommit(d))
                               /\ SF_vars(OnWriteStreamMutationResult(d))
                               /\ WF_vars(HandleWriteError(d))

FairSpec == Spec /\ Fairness

-----------------------------------------------------------------------------
(* Properties.                                                              *)

Waiting(k, kind) == \E d \in Devices, u \in Users :
                        \E i \in DOMAIN queue[d][u] : /\ queue[d][u][i].key = k
                                                      /\ queue[d][u][i].kind = kind

\* Wherever an ad is, in the collection, on a list or on a screen, its "id" field
\* says "No Id" or names that very ad: the edit and delete buttons of MeuAnuncio,
\* which go by that field alone, never reach another ad.
IdNamesItsAd ==
    /\ \A k \in Ids : server[k] # Absent => server[k].id \in {k, NoId}
    /\ \A d \in Devices : \A row \in list[d] \cup ({open[d]} \ {None}) :
          row.id \in {row.key, NoId}

\* Whatever document appears, changes or disappears in a step, it was a write of the
\* user signed in on the phone that sent it, and that user is its author: writes that
\* wait in the queue of a user who signed out are not sent in the name of the next one.
\* The exception is what CreateUser behind an open screen lets the new user do there.
OnlyTheAuthorChanges ==
    [][\A k \in Ids : server'[k] # server[k] =>
          \E d \in Devices : /\ inFlight'[d] > inFlight[d]
                             /\ session[d] = author[k] \/ <<session[d], k>> \in strays]_vars

\* saveOffer's two writes: an ad of the collection that still says "No Id" has its
\* second write on the way, or that write was refused or died with the process.
NoIdIsTemporary ==
    \A k \in Ids : (server[k] # Absent /\ server[k].id = NoId) =>
        \/ Waiting(k, "id")
        \/ \E d \in Devices : half[d] = k
        \/ k \in lostId

\* Once the result of addDocument has arrived, the document is never made again:
\* if it is deleted it stays deleted, whatever edits and id writes are still to come.
NoRevival ==
    [][\A k \in Ids : (author[k] # None /\ ~Waiting(k, "add")) =>
          /\ ~Waiting(k, "add")'
          /\ server[k] = Absent => server'[k] = Absent]_vars

\* With one phone, what its user sees never depends on the progress of the network:
\* sending, committing, losing a result, sending again and giving up a write that
\* cannot succeed leave the answer of every query as it was.
NetworkInvisible ==
    [][\A d \in Devices : session[d] # None /\ Network(d) =>
          View(d, session[d])' = View(d, session[d])]_vars

\* saveOffer runs to its end: its two writes leave the phone, and the ad is then in
\* the collection under its own id, or deleted, or its second write was lost; unless
\* the author leaves the phone with the writes still waiting there.
Unfinished(d, k) ==
    /\ author[k] # None
    /\ \/ half[d] = k
       \/ \E i \in DOMAIN queue[d][author[k]] :
             LET w == queue[d][author[k]][i] IN w.key = k /\ w.kind \in {"add", "id"}

SaveOfferCompletes ==
    \A d \in Devices, k \in Ids :
        Unfinished(d, k) ~>
            \/ session[d] # author[k]
            \/ /\ ~Unfinished(d, k)
               /\ server[k] = Absent \/ server[k].id = k \/ k \in lostId

\* The board of module Mural: an ad is shown only by its author and is changed and
\* removed by its author, signed in, or by a user who found it open (strays); it never
\* changes hands, whatever is lost, repeated or reordered.
Board == INSTANCE Mural WITH
    mural <- [k \in Ids |-> IF server[k] = Absent THEN Absent
                            ELSE [uid |-> server[k].uid, text |-> server[k].text]]
ImplementsMural == Board!Spec

\* "Pokemon foi excluido com sucesso." is shown when the result of a delete arrives:
\* the ad on the screen should then be gone from the collection.
DeletedWhenSaidSo ==
    [][\A d \in Devices :
          (/\ session[d] # None
           /\ OnWriteStreamMutationResult(d)
           /\ open[d] # None
           /\ Head(Pending(d)).kind = "delete"
           /\ Head(Pending(d)).key = open[d].id) => server[open[d].key] = Absent]_vars
=============================================================================

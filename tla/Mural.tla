------------------------------- MODULE Mural --------------------------------
(***************************************************************************)
(* What the ads part of Poketrader promises, without documents, writes or   *)
(* network: a board of ads on which only the author of an ad, while signed  *)
(* in on some device, posts it, rewrites it or takes it down -- and a user  *)
(* who found the author's screen open, who can rewrite it or take it down   *)
(* but not post it.  An ad never changes hands.  Module Anuncio shows how   *)
(* OfertasWorker and the Firestore client implement it.                     *)
(***************************************************************************)
CONSTANTS Devices,    \* phones running the app
          Users,      \* uids of Firebase Authentication
          Ids,        \* document ids the client may generate
          Texts,      \* what the owner writes in an ad
          None,       \* nobody
          Absent      \* no ad

VARIABLES mural,      \* Ids -> ad shown on the board, or Absent
          author,     \* Ids -> who wrote the ad, or None
          session,    \* Devices -> who is signed in, or None
          strays      \* pairs of a user and an ad of another that user found open

vars == <<mural, author, session, strays>>

SignedIn(u) == \E d \in Devices : session[d] = u

Init == /\ mural = [k \in Ids |-> Absent]
        /\ author = [k \in Ids |-> None]
        /\ session \in [Devices -> Users \cup {None}]
        /\ strays = {}

\* A signed-in user writes a new ad; nobody sees it yet.
Write(u, k) == /\ SignedIn(u)
               /\ author[k] = None
               /\ author' = [author EXCEPT ![k] = u]
               /\ UNCHANGED <<mural, session, strays>>

\* The author's screen with ad k is still open when u becomes the user.
FindOpen(u, k) == /\ SignedIn(u)
                  /\ author[k] \notin {None, u}
                  /\ strays' = strays \cup {<<u, k>>}
                  /\ UNCHANGED <<mural, author, session>>

\* The ad appears on the board, or what it says is replaced.
Show(u, k, t) == /\ SignedIn(u)
                 /\ author[k] = u
                 /\ mural' = [mural EXCEPT ![k] = [uid |-> u, text |-> t]]
                 /\ UNCHANGED <<author, session, strays>>

\* A stray rewrites an ad that is on the board: it stays its author's.
Rewrite(u, k, t) == /\ SignedIn(u)
                    /\ <<u, k>> \in strays
                    /\ mural[k] # Absent
                    /\ mural' = [mural EXCEPT ![k].text = t]
                    /\ UNCHANGED <<author, session, strays>>

\* The ad leaves the board.
TakeDown(u, k) == /\ SignedIn(u)
                  /\ author[k] = u \/ <<u, k>> \in strays
                  /\ mural' = [mural EXCEPT ![k] = Absent]
                  /\ UNCHANGED <<author, session, strays>>

Switch(d, s) == /\ session' = [session EXCEPT ![d] = s]
                /\ UNCHANGED <<mural, author, strays>>

Next == \/ \E u \in Users, k \in Ids : \/ Write(u, k)
                                       \/ FindOpen(u, k)
                                       \/ \E t \in Texts : \/ Show(u, k, t)
                                                           \/ Rewrite(u, k, t)
                                       \/ TakeDown(u, k)
        \/ \E d \in Devices, s \in Users \cup {None} : Switch(d, s)

Spec == Init /\ [][Next]_vars
=============================================================================

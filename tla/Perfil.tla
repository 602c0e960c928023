------------------------------- MODULE Perfil -------------------------------
(***************************************************************************)
(* Signup, login, logout and the profile screen on one phone:                *)
(* CadastroViewController, LoginViewController, SplashViewController,        *)
(* PerfilViewController and AuthenticationWorker.                            *)
(*                                                                          *)
(* What a user enters goes to three places: the document telefones/<uid>,    *)
(* seen by the phone at once (module Anuncio has the queue below it), the    *)
(* display name of the account, committed through a queue of the Firebase    *)
(* user object, and the picture, uploaded by itself.  The alert of success   *)
(* waits for none of them, they outlive the session, and an account that is  *)
(* being created becomes the session whenever its answer comes.              *)
(*                                                                          *)
(* A name or a picture is the person who entered it and a number; of a phone *)
(* number only the person is kept, of the console whether it is there.  The  *)
(* photoURL of the account is never set, the upload that would give it       *)
(* answers after the test of line 69 or 122.                                 *)
(***************************************************************************)
EXTENDS Naturals, Sequences, FiniteSets

CONSTANTS Users,
          Texts,        \* numbers of names and pictures
          MaxWrites,    \* bound on the commits and uploads of one user
          MaxObjects,   \* bound on the sign-ins, launches included
          None,         \* nil
          Empty,        \* a text the user has erased
          ProfilePic    \* picture of the storyboard

ASSUME ProfileAssumption == /\ {MaxWrites, MaxObjects} \subseteq Nat
                            /\ None \notin Users

VARIABLES
    account,      \* backend: users whose account exists
    telefones,    \* backend: documents of telefones
    names,        \* backend: display names
    pictures,     \* backend: profile_image_urls
    session,      \* Auth.auth().currentUser
    object,       \* number of its user object
    displayName,  \* the name that object knows
    signup,       \* createUser under way: what was entered
    commits,      \* display names under way, with their user objects
    uploads,      \* pictures under way
    screen,       \* "login" (or Cadastro above it), "tabs" or "perfil"
    owner,        \* the user the screens were opened for
    form,         \* fields of PerfilViewController
    editing,      \* its button says "Salvar"
    overlay,      \* its loading view
    phoneAsked, imageAsked,   \* its requests: the user they ask for
    alert,
    late,         \* history: an account was created with the screens of another open
    calm,         \* history: no write failed, and a user signed in, opened
                  \* the profile and saved a picture with no earlier one under way
    refused,      \* history: the last request for a picture failed
    last          \* history: the name and the picture a user entered last

backend == <<telefones, names, pictures>>
auth == <<account, session, object, displayName, signup>>
writes == <<commits, uploads>>
view == <<screen, owner, form, editing, overlay, phoneAsked, imageAsked, alert>>
history == <<late, calm, refused, last>>
vars == <<backend, auth, writes, view, history>>

Values == [by : Users, n : Texts]
Phones == Users \cup {None}
Forms == [name : Values \cup {None, Empty}, phone : Phones,
          picture : Values \cup {ProfilePic}, picked : BOOLEAN]
NoForm == [name |-> None, phone |-> None, picture |-> ProfilePic, picked |-> FALSE]

ASSUME NoneAssumption == None \notin Values \cup {Empty, ProfilePic}

Settled(u) == commits[u] = <<>> /\ uploads[u] = {}

TypeOK ==
    /\ account \subseteq Users
    /\ telefones \in [Users -> [phone : Phones, console : BOOLEAN] \cup {None}]
    /\ names \in [Users -> Values \cup {None}]
    /\ pictures \in [Users -> Values \cup {ProfilePic, None}]
    /\ session \in account \cup {None} /\ object \in 0..MaxObjects
    /\ displayName \in Values \cup {None}
    /\ signup \in [Users -> Texts \cup {None}]
    /\ commits \in [Users -> Seq([name : Values, object : 0..MaxObjects])]
    /\ uploads \in [Users -> SUBSET (Values \cup {ProfilePic})]
    /\ screen \in {"login", "tabs", "perfil"}
    /\ owner \in Users \cup {None} /\ (screen # "login" => owner # None /\ session # None)
    /\ form \in Forms
    /\ {editing, overlay, late, calm, refused} \subseteq BOOLEAN
    /\ {phoneAsked, imageAsked} \subseteq Users \cup {None}
    /\ alert \in {"none", "success", "error"}
    /\ last \in [Users -> [name : Values \cup {None},
                          picture : Values \cup {ProfilePic, None}]]

Init == /\ account = {}
        /\ telefones = [u \in Users |-> None]
        /\ names = [u \in Users |-> None] /\ pictures = [u \in Users |-> None]
        /\ session = None /\ object = 0 /\ displayName = None
        /\ signup = [u \in Users |-> None]
        /\ commits = [u \in Users |-> <<>>] /\ uploads = [u \in Users |-> {}]
        /\ screen = "login" /\ owner = None
        /\ form = NoForm /\ editing = FALSE /\ overlay = FALSE
        /\ phoneAsked = None /\ imageAsked = None /\ alert = "none"
        /\ late = FALSE /\ calm = TRUE /\ refused = FALSE
        /\ last = [u \in Users |-> [name |-> None, picture |-> None]]

-----------------------------------------------------------------------------
(* Signup and session.                                                      *)

\* The session becomes the user u, by a new user object that knows the name n.
SignedIn(u, n) ==
    /\ object < MaxObjects
    /\ object' = object + 1
    /\ session' = u
    /\ displayName' = n

\* tappedCadastrarButton
SignUp(u, t) ==
    /\ screen = "login"
    /\ u \notin account /\ signup[u] = None
    /\ signup' = [signup EXCEPT ![u] = t]
    /\ UNCHANGED <<backend, account, session, object, displayName, writes, view, history>>

\* Variant: no picture is uploaded.
SignUpDoneNoPicture(u, phone) ==
    LET entered == [by |-> u, n |-> signup[u]]
    IN /\ signup[u] # None
       /\ SignedIn(u, None)
       /\ account' = account \cup {u}
       /\ signup' = [signup EXCEPT ![u] = None]
       /\ telefones' = [telefones EXCEPT ![u] = [phone |-> phone, console |-> TRUE]]
       /\ commits' = [commits EXCEPT ![u] = Append(@, [name |-> entered, object |-> object + 1])]
       /\ last' = [last EXCEPT ![u] = [name |-> entered, picture |-> None]]
       /\ late' = (late \/ screen # "login")
       /\ UNCHANGED <<names, pictures, uploads, view, calm, refused>>

\* createUser has answered: the new account is the session, whatever is on the
\* screen, and its three writes are issued.  The phone number is optional.
SignUpDone(u, phone) ==
    LET entered == [by |-> u, n |-> signup[u]]
    IN /\ signup[u] # None
       /\ SignedIn(u, None)
       /\ account' = account \cup {u}
       /\ signup' = [signup EXCEPT ![u] = None]
       /\ telefones' = [telefones EXCEPT ![u] = [phone |-> phone, console |-> TRUE]]
       /\ commits' = [commits EXCEPT ![u] = Append(@, [name |-> entered, object |-> object + 1])]
       /\ uploads' = [uploads EXCEPT ![u] = @ \cup {entered}]
       /\ last' = [last EXCEPT ![u] = [name |-> entered, picture |-> entered]]
       /\ late' = (late \/ screen # "login")
       /\ UNCHANGED <<names, pictures, view, calm, refused>>

\* createUser fails; the account may exist all the same, without a profile.
SignUpError(u, created) ==
    /\ signup[u] # None
    /\ signup' = [signup EXCEPT ![u] = None]
    /\ account' = IF created THEN account \cup {u} ELSE account
    /\ calm' = (calm /\ ~created)
    /\ UNCHANGED <<backend, session, object, displayName, writes, view, late, refused, last>>

\* Variant: a user who is signed in already is not signed in again.
LoginKeepsSession(u) ==
    /\ screen = "login"
    /\ u \in account
    /\ IF session = None THEN SignedIn(u, names[u])
                         ELSE UNCHANGED <<session, object, displayName>>
    /\ screen' = "tabs" /\ owner' = u
    /\ calm' = (calm /\ Settled(u))
    /\ UNCHANGED <<backend, account, signup, writes, form, editing, overlay, phoneAsked,
                   imageAsked, alert, late, refused, last>>

\* entrarButton, answered without an error: the tab bar opens.
Login(u) ==
    /\ screen = "login"
    /\ u \in account
    /\ SignedIn(u, names[u])
    /\ screen' = "tabs" /\ owner' = u
    /\ calm' = (calm /\ Settled(u))
    /\ UNCHANGED <<backend, account, signup, writes, form, editing, overlay, phoneAsked,
                   imageAsked, alert, late, refused, last>>

Closed == /\ form' = NoForm /\ editing' = FALSE /\ overlay' = FALSE
          /\ phoneAsked' = None /\ imageAsked' = None
          /\ alert' = "none"

\* buttonLogout, in the navigation bar, which the loading view does not cover.
ButtonLogout ==
    /\ screen = "perfil"
    /\ session' = None /\ displayName' = None
    /\ screen' = "login" /\ owner' = None
    /\ Closed
    /\ UNCHANGED <<backend, account, object, signup, writes, history>>

\* Variant: the tab bar opens without a session, too.
RelaunchOpensTabs ==
    /\ IF session = None THEN UNCHANGED <<session, object, displayName>>
                         ELSE SignedIn(session, displayName)
    /\ signup' = [u \in Users |-> None]
    /\ commits' = [u \in Users |-> <<>>] /\ uploads' = [u \in Users |-> {}]
    /\ calm' = (calm /\ \A u \in Users : Settled(u))
    /\ screen' = "tabs"
    /\ owner' = session
    /\ Closed
    /\ UNCHANGED <<backend, account, late, refused, last>>

\* The process ends and starts again: what was under way is lost, the session is
\* on disk, and SplashViewController opens the tab bar for it.
Relaunch ==
    /\ IF session = None THEN UNCHANGED <<session, object, displayName>>
                         ELSE SignedIn(session, displayName)
    /\ signup' = [u \in Users |-> None]
    /\ commits' = [u \in Users |-> <<>>] /\ uploads' = [u \in Users |-> {}]
    /\ calm' = (calm /\ \A u \in Users : Settled(u))
    /\ screen' = IF session = None THEN "login" ELSE "tabs"
    /\ owner' = session
    /\ Closed
    /\ UNCHANGED <<backend, account, late, refused, last>>

-----------------------------------------------------------------------------
(* The writes under way.                                                    *)

\* Variant: in any order.
AnyCommit(u) == DOMAIN commits[u]

\* The commits of one user object are made in their order.
Heads(u) == {i \in DOMAIN commits[u] :
                \A j \in 1..(i - 1) : commits[u][j].object # commits[u][i].object}

Without(s, i) == SubSeq(s, 1, i - 1) \o SubSeq(s, i + 1, Len(s))

\* commitChanges ends: "done", "failed", or "lost", made but not answered.
CommitAnswer(u, i, outcome) ==
    LET c == commits[u][i]
    IN /\ names' = IF outcome = "failed" THEN names ELSE [names EXCEPT ![u] = c.name]
       /\ displayName' = IF outcome = "done" /\ c.object = object /\ session = u
                         THEN c.name ELSE displayName
       /\ commits' = [commits EXCEPT ![u] = Without(@, i)]
       /\ calm' = (calm /\ outcome = "done")
       /\ UNCHANGED <<telefones, pictures, account, session, object, signup, uploads, view,
                      late, refused, last>>

\* putData ends; uploads are not ordered.
UploadAnswer(u, p, ok) ==
    /\ p \in uploads[u]
    /\ uploads' = [uploads EXCEPT ![u] = @ \ {p}]
    /\ pictures' = IF ok THEN [pictures EXCEPT ![u] = p] ELSE pictures
    /\ calm' = (calm /\ ok)
    /\ UNCHANGED <<telefones, names, auth, commits, view, late, refused, last>>

-----------------------------------------------------------------------------
(* PerfilViewController.                                                    *)

\* viewDidLoad: the name of the session, and requests for the rest.
ViewDidLoad ==
    /\ screen = "tabs"
    /\ screen' = "perfil"
    /\ form' = [NoForm EXCEPT !.name = displayName]
    /\ overlay' = TRUE
    /\ phoneAsked' = session /\ imageAsked' = session
    /\ calm' = (calm /\ Settled(session))
    /\ refused' = FALSE
    /\ UNCHANGED <<backend, auth, writes, owner, editing, alert, late, last>>

\* getTelephone: a document without both fields is ignored.
PhoneAnswer(ok) ==
    LET doc == telefones[phoneAsked]
    IN /\ phoneAsked # None
       /\ phoneAsked' = None
       /\ form' = IF ok /\ doc # None /\ doc.console THEN [form EXCEPT !.phone = doc.phone]
                                                    ELSE form
       /\ UNCHANGED <<backend, auth, writes, screen, owner, editing, overlay, imageAsked,
                      alert, history>>

\* Variant: the loading view is hidden in any case.
ImageAnswerHides(ok) ==
    LET found == ok /\ pictures[imageAsked] # None
    IN /\ imageAsked # None
       /\ imageAsked' = None
       /\ form' = IF found THEN [form EXCEPT !.picture = pictures[imageAsked]] ELSE form
       /\ overlay' = FALSE
       /\ refused' = ~ok
       /\ UNCHANGED <<backend, auth, writes, screen, owner, editing, phoneAsked, alert,
                      late, calm, last>>

\* fetchImage: without a picture the loading view stays.
ImageAnswer(ok) ==
    LET found == ok /\ pictures[imageAsked] # None
    IN /\ imageAsked # None
       /\ imageAsked' = None
       /\ form' = IF found THEN [form EXCEPT !.picture = pictures[imageAsked]] ELSE form
       /\ overlay' = ~found
       /\ refused' = ~ok
       /\ UNCHANGED <<backend, auth, writes, screen, owner, editing, phoneAsked, alert,
                      late, calm, last>>

Edited(f) ==
    /\ screen = "perfil" /\ ~overlay /\ editing
    /\ form' = f
    /\ UNCHANGED <<backend, auth, writes, screen, owner, editing, overlay, phoneAsked,
                   imageAsked, alert, history>>

\* shouldChangeCharactersIn: a name that is empty stays empty.
TypeName(v) == form.name \notin {None, Empty} /\ Edited([form EXCEPT !.name = v])

TypePhone(p) == Edited([form EXCEPT !.phone = p])

\* tapDetected
PickImage(t) == Edited([form EXCEPT !.picture = [by |-> owner, n |-> t], !.picked = TRUE])

PressEditar ==
    /\ screen = "perfil" /\ ~overlay /\ ~editing
    /\ editing' = TRUE
    /\ alert' = "none"
    /\ UNCHANGED <<backend, auth, writes, screen, owner, form, overlay, phoneAsked,
                   imageAsked, history>>

checkFields == form.name \notin {None, Empty} /\ form.phone # None

SalvarRefused ==
    /\ screen = "perfil" /\ ~overlay /\ editing
    /\ ~checkFields
    /\ alert' = "error"
    /\ UNCHANGED <<backend, auth, writes, screen, owner, form, editing, overlay, phoneAsked,
                   imageAsked, history>>

\* upload: the document, without the console, replaces the one there was.
Salvar ==
    /\ screen = "perfil" /\ ~overlay /\ editing
    /\ checkFields
    /\ Len(commits[session]) < MaxWrites
    /\ telefones' = [telefones EXCEPT ![session] = [phone |-> form.phone, console |-> FALSE]]
    /\ commits' = [commits EXCEPT ![session] = Append(@, [name |-> form.name, object |-> object])]
    /\ uploads' = [uploads EXCEPT ![session] = @ \cup {form.picture}]
    /\ alert' = "success"
    /\ editing' = FALSE
    /\ calm' = (calm /\ uploads[session] = {})
    /\ last' = [last EXCEPT ![session] =
                   [name |-> form.name,
                    picture |-> IF form.picked THEN form.picture ELSE @.picture]]
    /\ UNCHANGED <<names, pictures, auth, screen, owner, form, overlay, phoneAsked, imageAsked, late, refused>>

Session == \/ \E u \in Users : \/ \E t \in Texts : SignUp(u, t)
                               \/ \E phone \in {u, None} : SignUpDone(u, phone)
                               \/ \E created \in BOOLEAN : SignUpError(u, created)
                               \/ Login(u)
           \/ ButtonLogout
           \/ Relaunch

Writing == \E u \in Users :
              \/ \E i \in Heads(u), outcome \in {"done", "failed", "lost"} :
                    CommitAnswer(u, i, outcome)
              \/ \E p \in uploads[u], ok \in BOOLEAN : UploadAnswer(u, p, ok)

Screen == \/ ViewDidLoad
          \/ \E ok \in BOOLEAN : PhoneAnswer(ok) \/ ImageAnswer(ok)
          \/ PressEditar
          \/ TypeName(Empty) \/ \E t \in Texts : TypeName([by |-> owner, n |-> t])
          \/ TypePhone(None) \/ TypePhone(owner)
          \/ \E t \in Texts : PickImage(t)
          \/ SalvarRefused \/ Salvar

Next == Session \/ Writing \/ Screen

Spec == Init /\ [][Next]_vars

\* The picture of the profile is answered, or refused.
FairSpec == Spec /\ WF_vars(\E ok \in BOOLEAN : ImageAnswer(ok))

-----------------------------------------------------------------------------
(* Properties.                                                              *)

\* The value v was entered by the user u, or by nobody.
Of(u, v) == v \in {None, Empty, ProfilePic} \/ v.by = u

\* What two users enter on one phone, one after the other, never gets into the profile
\* of the other one, although writes go on after a logout and upload takes the user
\* from the session (AuthenticationWorker lines 94, 105): unless an account was created
\* with the screens of another user open.
KeptApart ==
    ~late => \A u \in Users :
        /\ telefones[u] # None => telefones[u].phone \in {u, None}
        /\ Of(u, names[u]) /\ Of(u, pictures[u])
        /\ \A i \in DOMAIN commits[u] : Of(u, commits[u][i].name)
        /\ \A p \in uploads[u] : Of(u, p)

\* When nothing is under way, the picture of a user is the last one chosen, however often
\* the profile was saved without choosing one: a save sends the picture on the
\* screen again, and the loading view keeps the user off until it is the user's own
\* (fetchImage lines 131-137).
PictureKept ==
    calm /\ ~late => \A u \in Users :
        uploads[u] = {} /\ last[u].picture # None => pictures[u] = last[u].picture

\* When nothing is under way, the name of a user is the last one saved, also when
\* several saves overlapped, and the profile shows a name, which can be edited.
NameKept ==
    calm /\ ~late =>
        /\ \A u \in Users : commits[u] = <<>> => names[u] = last[u].name
        /\ screen = "perfil" => form.name # None

\* The loading view of the profile goes away, because every account was given a
\* picture, unless it was opened with writes under way or something failed.
Uncovered == (screen = "perfil" /\ calm) ~> (~calm \/ ~overlay \/ refused)
=============================================================================

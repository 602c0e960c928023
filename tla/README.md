# Poketrader in TLA+

A verification project for the Poketrader iOS app (`src/Poketrader/Poketrader`,
about 3,600 lines of Swift) and for the part of the vendored Firestore client
that carries its writes and answers its queries (`src/Poketrader/Pods/FirebaseFirestore`). The app lets
players publish pokémons they want to trade and see how to contact one another.
It has no tests, no server of its own, and keeps all shared state in Firebase.

Everything is written in TLA+, model-checked with TLC on small instances and,
where noted, proved with TLAPS for every value of the constants.

## 1. Inventory

| Component | State | Operations | What is hard |
|---|---|---|---|
| **Ads**: `OfertasWorker`, `MeuAnuncio*`, `AnuncioController` | documents of the collection `anuncio`; the copy of a row a screen holds | `saveOffer` (two writes), `updateOffer`, `deleteOffer`, `loadOffers`, `loadOffersForIUD` | publication is not atomic, a screen names an ad by its `id` field, several phones of one owner, stale rows |
| **Firestore client**, write path: `sync_engine.cc`, `remote_store.cc`, `local_store.cc`, `mutation_batch.cc` | mutation queue per user (on disk), write pipeline (in memory) | write, send, result, permanent error, broken stream, change of user, restart | writes sent twice, writes waiting while another user is signed in, one write refused with others behind it |
| **Firestore client**, read path: `query_core.cc`, `event_manager.cc`, `query_listener.cc`, `view.cc`, `sync_engine.cc`, `remote_store.cc`, `remote_event.cc`, `stream.cc`, `online_state_tracker.cc` | listeners, the view of the query, lookups of documents in limbo, targets and what is pending for them, watch stream, online state and its timer, cache and resume token (on disk) | ask, listen, watch message, snapshot, stream opened / broken / idle, timeout, stop listening, relaunch | messages of an earlier request, calls that share a view, counts that do not match, silent connections, a listener told twice |
| **SelecionarPokemon**: controller, screen, `PokemonWork.getTwentyPokemons` | the list so far and the URL of the next page, shared by three threads; `isLoading`; the rows of the table view | first page, scrolling, page answered, reload, row drawn, row chosen | data shared without a lock, guard and URL read at different times, failed answers that count as success |
| **AddPokemon**: controller, screen, `PokemonWork.getPokemon` | pokémon kept by the controller, name kept by the screen, picture, phone number, form | pick, answer, picture loaded, phone loaded, type, publish | three sources that answer in any order, or never |
| **Lists of ads**: `Feed*`, `OfertasUsuario*`, `BaseViewController` | rows of the last answer, rows of the table view, loading view | appear, answer, error, reload, draw, open | overlapping queries, rows and table updated in different turns of the main thread |
| **OfertaCell** | the picture of a reused cell | `setup`, picture downloaded | a late picture on the wrong row |
| **Session**: `AuthenticationWorker.login`, Splash, Login, EsqueciASenha | current user of Firebase Authentication (on disk), `User.userInstance` | splash, login, logout, forgotten password | answers under another session |
| **Profile and signup**: `AuthenticationWorker.signup/upload`, Cadastro, Perfil | document `telefones/<uid>`, display name, picture, fields, the title of the button as its state | signup, show, edit, save | success reported before the writes end, a save that replaces the whole document |
| **Forms**: text field delegates, `formattedNumber`, `isValidEmail` | texts and error labels | a change of a text, validation | labels that block the form, a field that cannot be filled again |
| **Animation**: `ImageGif`, `LoadView` | none | `gcdForPair`, `gcdForArray`, frame table: called by no screen | – |
| Life cycle, constants, unreachable screens (`EdicaoPokemon`, `TelaInicial`, `Unused storyboards`), code that is not compiled (`Service/`, `Views/Perfil`, `Views/Anuncios`) | – | – | – |

How they interact. The storyboard goes from Splash to Login or to the tab bar
(Feed, MinhasOfertas, Perfil). MinhasOfertas opens AddPokemon, which presents
SelecionarPokemon and gets a name back through a delegate; AddPokemon hands an
ad to `OfertasWorker.saveOffer`. Feed and MinhasOfertas query the collection
each time they appear and hand a **copy** of a row to the screen of one ad;
MeuAnuncio edits and deletes by the `id` field of that copy. Nothing listens to
the collection: what a screen knows is as old as its last query. All answers
come through callbacks: those of Firestore and Alamofire on the main thread,
those of `URLSession.shared` one after the other on its delegate queue.

What makes each part correct:

* *Ads*: only the author of an ad changes it, or whoever finds the author's screen open;
  buttons act on the ad shown or on
  none; a deleted ad does not come back; a publication is completed; the network
  is invisible to the user of one phone.
* *Firestore client*: an answer from the server is the collection at one moment since
  the question; every question is answered, in order, until the app ends; nothing is
  listened to for nobody; no assertion ends the app but the one named in section 4.
* *SelecionarPokemon*: the list is made of whole pages; at an ordinary pace it is
  1, 2, 3, … without gap or repetition and the name sent is the name read.
* *AddPokemon*: an ad has the name of the pokémon its picture shows.
* *Lists*: what is opened is what was drawn; an appearance refreshes the list and
  lifts the loading view.
* *Profile*: a saved profile is what was typed; no user's data reach another's.
* *Forms*: a rejected form can be corrected and sent.

The hazards of each part, at their lines, are in `PROJECT.json`.

## 2. Plan

1. **Done** – `Mural`, `Anuncio`: the ads across phones, users and the Firestore
   client, with the refinement and its proof (`AnuncioProofs`, `FoldLemmas`).
2. **Done** – `SelecionarPokemon`: paging across three threads.
3. **Done** – `AddPokemon`: the publishing form and its callbacks.
4. **Done** – `ListaOfertas` and the proof of its main property.
5. **Done** – `Perfil` and `PerfilProofs`: signup, login, logout, relaunch and the
   profile of two users on one phone, with writes that outlive the session.
6. **Done** – `Cadastro` and `CadastroProofs`: the signup form, its labels and the
   mask of the phone number.
7. **Done** – `Leitura` and `Consulta`: how a query is answered, from `getDocuments`
   through the listeners, the view and the watch stream to the backend and back,
   with the refinement; `ListaOfertas` with answers from an outdated cache, and its
   proof.
8. **Done** – a second user behind an open screen in `Anuncio`; in `Consulta` a refused
   write, a target started over, a stream ended with OK, and `MCConsulta` with two ads.
   *Next* – a change of user in Consulta, which exchanges the mutation queue under a
   query.
9. A composition of AddPokemon, the two writes of `saveOffer` and the lists: an ad
   published without a pokémon through to the screen that shows it.
10. **Done** – proofs of every invariant and action property the runs check of
    Anuncio, SelecionarPokemon, AddPokemon, ListaOfertas, Perfil and Cadastro.
11. **Done** – `FoldLemmas`, `ConsultaProofs`, `ConsultaStreamProofs`: the safety of the
    read path.
    What is left of it for TLC is named at the end of section 5.

## 3. Modules

### Mural – what the ads promise

A board on which only the author of an ad, while signed in on some phone, posts
it, rewrites it or takes it down. One exception is explicit: a user who finds the
author's screen open (`FindOpen`, recorded in `strays`) may rewrite the ad or take it down,
but not post it, and the ad stays its author's. It knows neither documents nor network.

### Anuncio – how the ads are kept

Several phones, several users, one collection. State: `server` (the documents at
the backend), `session`, `queue` (the mutation queue of each user on each phone),
`inFlight` (how many writes at the head of the queue the backend has committed
without the phone knowing), `list` and `open` (the rows of MinhasOfertas, the
row MeuAnuncio holds), `half` (the instant between the two writes of
`saveOffer`), `account` (the users whose account exists), and the histories `author`,
`lostId` and `strays`.

| Code | Action |
|---|---|
| `OfertasWorker.saveOffer`, `addDocument` / `updateData` | `SaveOffer` / `SaveOfferId` |
| `loadOffersForIUD` | `LoadOffersForIUD` |
| `prepare(for:)`, back | `OpenOffer`, `CloseOffer` |
| `updateOffer`, `deleteOffer` | `UpdateOffer`, `DeleteOffer` |
| commit at the backend | `ServerCommit` |
| `RemoteStore::OnWriteStreamMutationResult`, `HandleWriteError`, `OnWriteStreamClose` | same names |
| `SyncEngine::HandleCredentialChange`, by a sign-in or sign-out that replaces the screens | `HandleCredentialChange` |
| the same, by the answer of `createUser` (`AuthenticationWorker.signup`) behind the screens | `CreateUser` |
| process killed and started again | `Restart` |

Abstractions. A document keeps its owner, its `id` field and one text for the
eight editable fields, which are always written together. A query is answered
from the backend's documents under the pending writes of the signed-in user
(`View`), at once: a query that waits is no different, since an answer may be
used as late as one likes. `createUser` may answer when its user has given up and another
has signed in: the new account is then the session, the screens stay, and the buttons of
MeuAnuncio, which do not ask whose ad they show, write the other user's ad into the new
user's queue. Any change of user, with or without a signed-out state in between, is thus in
the model; `strays` records who found which ad open, and nothing but that is excused. The user
of Firebase Authentication and that of the Firestore client change in one step, between two
turns of the main thread. A write stream that is ended with OK while it is needed ends the
app (`remote_store.cc:236` has its like for writes), which is a `Restart`. Whether the backend refuses a
write is decided when the error is handled; nothing is committed for it either
way. A phone's cache is the backend's state: an older cache would only give
older rows, which `list` may be already.

### SelecionarPokemon

`LoadMoreData` (main thread) checks the guard and posts the block;
`LoadingBlock` (global queue) reads `nextURL` and issues the request; `Reload`
(main thread) clears `isLoading`. The answers are handled one after the other
on the delegate queue: `AnswerFirstPage` replaces the list; `AnswerPage`,
`AppendRow`… and `StoreNext` append a page row by row while the others read. A
pokémon is its number, a page URL the number of pokémons before the page.
Reading and writing the array is taken as atomic; in Swift the race is undefined
behaviour, and the model shows what can go wrong even without tearing.

### AddPokemon

`SendDataToCadastroVC` issues a request; `PokemonAnswer`, `PokemonError`,
`ImageLoaded`, `ImageError` and `PhoneAnswer` come in any order; `Type` and
`PressAdd` are the form. A pokémon stands for its name and its picture's URL.
The pokémon the empty name answers for (a decodable answer without a picture)
is one of those outside `Artwork`. Names that SelecionarPokemon has too (`InitForm`,
`SpecForm`, `FormTypeOK`, `MaxRequests`) differ, so that one module proves both screens.

### Leitura – what a query promises

Questions are asked and answered at most once: with what the collection held at one
moment since the question (`AnswerServer`), with what the phone remembers
(`AnswerCache`), or with an error. The phone's own write may lie on top of an answer
until the collection holds it and the phone knew so when it asked, and must be there
if it was entered before the question and has not been refused. A question asked while another waits may be
answered together with it, and so knows no more than the oldest that waits.

### Consulta – how a query is answered

The Firestore client of one phone, for `getDocuments` on the collection. Three parties:
the main thread (`tasks`, `asked`, `answer`), the worker queue of the client (`client`:
everything that queue owns, and the messages it posts) and the backend (`board`, the
versions of the collection, and `backend`, the targets it serves on the stream of the
moment). `own` is a write of this phone. A method of the client is an operator from a
client to the next, with the name of the method; a step of the worker queue is an action:

| Code | Action |
|---|---|
| `Query::GetDocuments`, its listener's event, `AsyncEventListener::Mute` | `GetDocuments`, `OnEvent` |
| `DocumentReference::SetData / DeleteDocument` and the task they post | `WriteAd`, `RunTask` |
| `EventManager::AddQueryListener`, `RemoveQueryListener` on the worker queue | `RunTask` |
| `Stream::ResumeStartWithCredentials`, `OnStreamFinish`, backoff, idle timer | same names, `BackoffElapsed`, `IdleTimeout` |
| `OnlineStateTracker`, its timer | `OnlineStateTimeout` |
| `RemoteStore::RestartNetwork` by the connectivity monitor | `NetworkChange` |
| `WatchStream::NotifyStreamResponse`, `RemoteStore::OnWatchStreamChange` | `OnStreamRead` |
| the same with the status OK of a backend that ends the call | `OnStreamFinishOK` |
| `SyncEngine::HandleSuccessfulWrite`, `HandleRejectedWrite` | `WriteAcknowledged`, `WriteRejected` |
| the backend: writes, answers to requests, changes | `OtherWrites`, `CommitOwn`, `Serve`, `Push` |

Abstractions. A version of the collection stands for its snapshot version and for the
resume token given with it; a document is its version and its text. Documents that
arrive one after the other with nothing in between that looks at them are one message.
What an earlier run left on disk (cache, keys, token) is a choice of `Init`. The backend
may answer deletions since a token by the documents or by a count alone, before or
after it says the target is current; it may refuse a lookup of a document that is gone,
or every target (`refuses`, as security rules do); it may answer a request that resumes from a
token by starting the query over (the target change `RESET`, `remote_event.cc:182`), which counts
as one of the events. A lookup, which has one document, is not started over. The phone's write may be refused for
good. The order in which requests are sent
on a new stream, that of a hash map, is fixed. `HARD_ASSERT` sets `aborted`, after which nothing happens any more (`Next`). Two
histories, `client.lostReset` and `spent.reused`, record the two situations described at
the end of section 4.

### ListaOfertas

Feed and MinhasOfertas follow one protocol and are one module. `ViewDidAppear`
issues a query; `Answer` fixes what it answers, `LoadOfertas` is the completion
handler, which replaces the rows, `ReloadData` the block it posts; `DrawRow` and
`SelectRow` read the rows by number. Queries are answered in their order (`InOrder` of
Consulta): `Answer` with the collection, or `AnswerFromCache` with what the phone
remembers of it, its last answer and its own writes, which the app does not tell apart.

### Perfil

One phone, several users. What a user enters goes to three places: the document
`telefones/<uid>` (written through Firestore, so seen by the phone at once), the
display name of the account (`commits`, a queue for each Firebase user object)
and the picture (`uploads`, in no order). None of the three is waited for.

| Code | Action |
|---|---|
| `tappedCadastrarButton` / completion of `createUser` | `SignUp` / `SignUpDone`, `SignUpError` |
| `LoginViewController.entrarButton` | `Login` |
| `PerfilViewController.buttonLogout` | `ButtonLogout` |
| process killed and started again, `SplashViewController.viewDidLoad` | `Relaunch` |
| `viewDidLoad`, `getTelephone`, `fetchImage` | `ViewDidLoad`, `PhoneAnswer`, `ImageAnswer` |
| the title of the button and the text fields | `PressEditar`, `TypeName`, `TypePhone`, `PickImage` |
| `pressedSalvarButton`, `AuthenticationWorker.upload` | `SalvarRefused`, `Salvar` |
| ends of `commitChanges` and `putData` | `CommitAnswer`, `UploadAnswer` |

Abstractions. A value is the person who entered it and a number, which is what
`KeptApart` and the two `…Kept` properties tell apart; a phone number is only the
person, the console whether it is there. `account` is what the backend knows and
`object` counts user objects: a sign-in or a launch makes a new one, which knows
the name of that moment. A commit may be made and its answer lost. A sign-in,
its answer and the segue it posts are one step, while the loading view covers the
login screen; a sign-in that fails changes nothing and is left out. `updateCurrentUser`
and its callback in `upload` are one step. The account's `photoURL` is never set,
because its upload answers after the test that would use it. A signup that is
answered late, with the screens of another user open, is in the model; the history
`late` records it, since afterwards profiles do mix and the properties say nothing.

### Cadastro

The delegate of the text fields sees a text before it changes and sets the labels;
`checkFields` reads labels as well as texts. `ChangeNome`, `ChangeEmail`,
`ChangeSenha` and `ChangeTelefone` are the branches of the delegate, `Cadastrar`
the button. Texts are classes (`""`, blank, filled; for an e-mail what
`isValidEmail` says of it); the phone number is a sequence of characters and
`formattedNumber` is what the loop over the mask computes.

## 4. What is checked

| Run | Instance | Shows |
|---|---|---|
| `anuncio_telefones` | 2 phones, 2 users, 1 ad, 3 writes pending in all queues, the id write may be refused | an ad that says "No Id" has its second write on the way or lost it (`NoIdIsTemporary`); a deleted ad stays deleted (`NoRevival`); `OnlyTheAuthorChanges`; `ImplementsMural` |
| `anuncio_um` | 1 phone, 1 user, 2 ads, 2 texts, 3 pending writes, fair | `TypeOK`; `IdNamesItsAd`; `NetworkInvisible`; `SaveOfferCompletes` |
| `anuncio_aviso` | 2 phones, 1 user, 1 ad | **violated**: an ad is reported deleted and is still there (`DeletedWhenSaidSo`) |
| `selecionar` | 5 pokémons, pages of 2, 3 answers under way, failures, fair | at any pace `TypeOK`, `WholePages`, `NextFollows`, `FirstRowsReliable`; while `calm` `InOrder`, `NeverLosesRows`, `AllListed` |
| `add` | 2 pokémons with picture, 1 without, all requests may overlap and fail | `FormTypeOK`; `UrlMatchesName`; while `patient` `AdIsSeen` |
| `consulta` | 1 ad, 3 versions, 2 calls, 3 events (writes, broken or ended streams, changes of network, targets started over), first start or relaunch, fair | `TypeOK`; `NoHardAssertFails`; `ImplementsLeitura`; `InOrder`; `Watched`; `LookupsInUse`; `Answered` |
| `consulta_dois` | 2 ads that others write, 3 versions, 1 call, 3 events, 1 lookup at a time | an answer never has one ad as it was before a write and the other as it was after a later one (`ImplementsLeitura`); `NoHardAssertFails` while a lookup waits for another |
| `consulta_atual` | 1 ad, 2 versions, 2 calls, 3 events | **violated**: a deleted ad is answered as up to date (`GuaranteedUpToDate`) |
| `lista` | 2 ads coming and going, 3 queries under way, failures, answers from an outdated cache, fair | `TypeOK`; `StaleOnlyInTheGap`; `NeverShrinks` until an ad is deleted; `Refreshed` after an appearance |
| `perfil_dois` | 2 users, 1 text, 1 write of a kind under way, 4 sign-ins | `KeptApart` |
| `perfil` | 1 user, 2 texts, 2 writes of a kind, 4 sign-ins, failures and relaunches, fair | `TypeOK`; `PictureKept`, `NameKept` while `calm`; `Uncovered` |
| `cadastro` | 1 digit, all classes of texts | `TypeOK`; `Correctable`; `OnlyValidSent`; `BackspaceDeletes` |

The histories `calm`, `patient`, `deleted` and `steady` only record what happened, and let
one run state what holds always beside what holds for an undisturbed user.

Why the bounds are enough. In Anuncio the bound is on the writes in all queues together: three
let a whole publication and an edit of it be pending, or a write of another user or
phone beside a publication, be committed while the one behind it is not, and be sent
again after another phone's write. One ad suffices where phones interfere, because writes to
different documents commute; two ads are used where an id could be mixed up.
Two phones suffice since a phone meets the others only through the collection.
In SelecionarPokemon five pokémons on pages of two give a first, a middle and a
short last page; three answers under way allow a page to be asked for twice
while the list is replaced. In ListaOfertas three queries are those of
`viewDidLoad`, the first appearance and a return. In Consulta the three events allow a
relaunch with an outdated cache, two overlapping calls and a deletion, or a call, an own
write and a lost stream: a count that does not match, lookups, a target given up and
asked for again, a stream used again by the second call, negative counts of pending
answers and both histories occur. What that run cannot show, two documents that disagree, is
what `consulta_dois` is for; the phone does not write in it, which the other run has it do. The
runs have 1.66 (`anuncio_telefones`), 2.01 (`consulta`) and 0.72 (`consulta_dois`)
million distinct states. The messages under way need no bound, since the backend answers each
request once and pushes each version once. With one ad the targets that meet are the
query's and a lookup's; lookups queue in `consulta_dois`. Attempts to connect that fail are not bounded. In Perfil four sign-ins let two
users alternate and one return, or one user sign up, relaunch and sign in again; two
commits or uploads of one user can overlap, on one user object or on two. Users meet
only in the session and on the screen, so two suffice. In Cadastro one digit
is enough, because the mask does not look at digits, and numbers reach the full
length of the mask.

`CHECK_DEADLOCK FALSE` is used for SelecionarPokemon, which ends when the
screen is dismissed, for Consulta, whose calls and faults are bounded and whose app may end, and for Perfil, where no sign-in or write is left once
`MaxObjects` or `MaxWrites` is reached. Symmetry is used for the phones, users, ads and texts of
Anuncio in runs without liveness properties.

Fairness. `Anuncio!FairSpec`: once `saveOffer` has been entered its second
statement runs, the client keeps sending, permanent errors are handled, and the
stream lives long enough again and again for a result to arrive (strong fairness
of the result, since a broken stream may delay it any number of times; the
client reconnects with backoff for ever). Nothing obliges a user to do anything.
`SelecionarPokemon!FairSpec`: requests are answered, queues run their blocks, the
user goes on scrolling while nothing is under way (`AllListed` is about such a
user). `ListaOfertas!FairSpec`: queries are answered, which `Answered` of Consulta shows but
for a reused stream or an app that has ended, and the main queue is served. `Consulta!FairSpec`: both queues are
served and the ten-second timer fires; a backend that has answered on the stream of the moment goes on
answering, while one that has not owes nothing, nor need a stream ever be connected: that timer must do.
The conjuncts are the weak fairness of these actions, each told by what it alone does (it
makes its queue shorter, ends the timer, sends something), for TLC's sake. `Perfil!FairSpec`: the request for a picture is answered or
fails, as every `URLSession` task does; writes need not end.

What the runs say about the code:

* The two-write publication is sound for edits and deletes by one's own id, but
  a row loaded in between says "No Id". `deleteOffer` then deletes a document of
  that name, which succeeds, and the alert says *"Pokemon foi excluido com
  sucesso."* (`OfertasWorker.swift:33`) with the ad still on the board.
* `addPokemon` validates the title of the game alone, while the message for a
  refused form is *"Preencha todos os campos!"* (`AddPokemonViewController.swift:120`): `PressAdd`
  publishes a form without a pokémon.
* A user who finds another's MeuAnuncio open, after an account was created late behind it,
  edits and deletes that user's ad. `OnlyTheAuthorChanges` and `Mural` allow this and no more:
  nothing published, nothing taken over, no write of one user sent in the name of another.
* A user who scrolls faster than the answers come may see the list replaced by its
  first page while the table still believes in more rows (`results[posicao]` is
  then out of range). At the pace of the answers, too, the last page is listed but not shown
  until something else reloads the table, hence `shown >= LastPage` in
  `AllListed`.
* In the lists a tap between an answer and its reload may open another ad than
  the one tapped, or find none; `StaleOnlyInTheGap` says it is the only moment.
* An answer that is not from the cache can still be outdated. When a count does not
  match, the client sets the target aside for the next snapshot; if the query ends and is
  asked again before it, the target is pending when the snapshot comes, its removals are
  dropped (`remote_event.cc:258`) with the reset (`:318`), and a deleted
  ad is answered as server data, although `FIRSnapshotMetadata.h:37` speaks of
  "guaranteed up-to-date server data". The run `consulta_atual` shows it with one call given
  up while it was on its way (`GuaranteedUpToDate`). `ImplementsLeitura` holds for every answer given
  before that (`sure`); those after it are taken for answers from the cache.
* When the backend ends the watch stream with the status OK, `Stream::OnStreamFinish` passes it to
  `Close` as it is, the stream is not restarted, and `OnWatchStreamClose` asserts that it is
  not needed (`remote_store.cc:236`): while a query is listened to the app ends there.
  `NoHardAssertFails` says that no other assertion ever fails, whatever the backend, the network and the
  user do.
* A query that finds the stream started but silent arms no timer (`remote_store.cc:166`):
  if the previous one reset the online state, its listener waits as long as the silence
  lasts, and the list stays under its loading view. `Watched` and `Answered` hold in every
  other case.
* While one query follows another closely, an ad written on this phone and deleted on
  another may be answered once more as server data, but never to a question asked when
  nothing waited and the phone knew its write had been made (`AnswerServer`).
* A lookup that still waits in `enqueued_limbo_resolutions_` is not taken out when its
  document leaves limbo (`sync_engine.cc:557`), which takes more than 100 such documents.
* `upload` replaces the document of `telefones` by one without a console, and the
  alert says *"Usuario atualizado com sucesso"* (`PerfilViewController.swift:233`); the field
  `console` of `Perfil` shows it.
* A profile is safe from the other users of the phone as long as no account is
  created behind another's screens; a picture is the last one chosen as long as no
  two uploads overlap; names are, even when saves overlap.
* Labels left over from a refusal never block a right form of Cadastro.

## 5. What is proved

`AnuncioProofs`, for any phones, users, ids, texts, queue bound and any kinds of
write the backend refuses, from the assumptions `NamesAssumption` ("No Id" is no
document id, None is no user), `BoundsAssumption` and `AbsentAssumption`:

* `Invariance`: `Spec => []IInv`, the inductive invariant. The properties are not
  inductive alone: that an id write carries the right id depends on the queue it
  waits in, and that depends on who generated the ad. `IInv` adds to the types:
  every pending write of a user's queue to a real document is by the author of that document,
  or an edit or a delete by a user who found it open, and carries the uid of the user of the
  queue; a pending id write carries the key of
  its own document; a document in the collection belongs to its author; an ad
  half published was generated by the user signed in there.
* `TypeCorrect`, `IdCorrect`: `TypeOK` and `IdNamesItsAd` follow from `IInv`. The
  lemmas `NewestOK` and `SeenOK` carry the invariant through the view a query is
  answered from.
* `AuthorOnly`: `OnlyTheAuthorChanges`; only `ServerCommit` changes documents and
  the write it commits is, by `IInv`, the author's or a stray's. No user is assumed to sign
  out before another signs in.
* `Refinement`: `Spec => ImplementsMural`. Initial states map to initial states;
  `SaveOffer` maps to `Write`, `ServerCommit` to `Show`, `Rewrite`, `TakeDown` or nothing,
  a button pressed by a stray to `FindOpen`, `HandleCredentialChange` and `CreateUser` to
  `Switch`, everything else to a stutter.

* `SecondWriteComes` (`NoIdIsTemporary`) and `DeletedForGood` (`NoRevival`), from
  `PubInv`. A phone that loses its stream sends the "add" at the head of its queue again,
  which brings a deleted document back and an ad without its id; neither shows, because
  only one phone has the writes of an ad (`OnePhone`), the "add" waits before the id
  write (`AddFirst`), it is followed by that write or by the promise of it, unless
  that write was refused or died with the process (`AddFollowed`), and an id write
  that the backend has made stays made (`IdCommitted`, `SecondWrite`). Once the result of
  the "add" has arrived there is no "add" left, and every other write leaves an absent
  document absent.

The same module, of what a query shows in Anuncio, under the same assumptions:

* `Invisible` (`NetworkInvisible`), for one phone and no refused write (`Alone`): a second
  phone's writes and a refusal are exactly what the network may show. `InStep` says
  why it holds: of the writes the backend has made but the phone still holds, any
  number, from the oldest on, can be dropped without a change to what is seen.

`FoldLemmas` has what the other proofs need of numbers and loops. A non-empty set of
naturals has a least element, and a set with 0 that is closed under successor has them
all, which is induction stated for a set. A loop over a finite set is a fold (`FoldSet`), and what
every step of it keeps the loop keeps (`LoopKeeps`), whatever the order; before that the
function on the subsets by which the library defines folds is shown to exist (`RunExists`). The
body of the loop is the constant `Step`, and the module is instantiated for each loop.

`SelecionarPokemonProofs`, for any number of pokémons, any size of page and any bound
on the answers under way, from `SizesAssumption` and `NilAssumption` (nil is no list, no
answer and no cell):

* `TypeCorrect`. That `underWay` counts the answers is a sum over all URLs;
  `SumExists`, `SumStep` and `SumChange` show that the sum exists and changes by one.
* `PagesAreWhole`, `NoPageSkipped` and `FirstPageReliable` (`WholePages`, `NextFollows`,
  `FirstRowsReliable`), at any pace, from `PagesInv`. A page is appended to whatever
  list there is when its answer comes, and a short last page followed by anything would break
  `WholePages`; so the invariant says what can be there when it comes: the list begins with the first
  page and that page is whole (`Begins`), rows are appended only if there is more than
  one page (`Later`), they begin where a page ends or go on where they stopped (`Seam`,
  `Pages`), and the URL of the next page follows a row that is listed or still to be
  appended (`Ahead`).
* `ListInOrder` and `RowsAreThere` (`InOrder`, `NeverLosesRows`), while `calm`, from
  `CalmInv`: one request at a time, of the row after the last, and the rows the table
  believes in are those of the list.

The same module, of `AddPokemon`, for any names, pictures and fields and any bound on the
requests, from `ScreenAssumption` and `NoAdAssumption`: `FormInvariance`,
`FormTypeCorrect` (`FormTypeOK`); `UrlAndName` (`UrlMatchesName`) from `Paired`: the
pokémon the controller keeps, when it has a picture URL, is the one named on the
form, which every late answer has to respect; `PublishedAsSeen` (`AdIsSeen`) from
`AtPace`: for a user who waits, all that is under way is about one pokémon.

`ListaOfertasProofs`, for any finite set of ads and any bound, from `ListAssumption`:

* `StaleOnly` (`StaleOnlyInTheGap`), from `GapInv`: when no reload waits, the
  table believes in exactly the rows of the controller and the cell shows one of
  them.
* `TypeCorrect`, and `RowsStay` (`NeverShrinks`) from `Growing`: until an ad is deleted, an
  answer under way has at least the ads of the list, whatever came between question
  and answer. Rows are ads in ascending order; `RankBijective` shows that this is a list of each ad once.

`PerfilProofs`, for any users, texts and bounds, from `ProfileAssumption` and
`NoneAssumption` (nil is no text):

* `TypeCorrect`; `ProfilesApart` (`KeptApart`). `KeptApart` speaks of the
  backend and of the writes under way, but what `Salvar` writes comes from the screen,
  so the invariant `Apart` adds `ScreensOwned`: unless an account came late, the
  screens belong to the session, the name and the picture on them and the answers they wait for are
  its own, and so is the name the user object knows.
* `NameOfLastSave` and `PictureOfLastChoice` (`NameKept`, `PictureKept`), from `KeptInv`,
  while `calm` and no account came late. The properties speak of the moment when nothing is under way, the invariant of every moment
  before: all commits of a user are on one user object and end in order (`OneObject`), the last of
  them carries the name saved last, or else the backend has it (`LastName`), the object
  and the profile show it (`Named`); the only picture under way is the one chosen last
  (`LastPicture`), and a profile that can be saved shows it (`Shown`).

`CadastroProofs`, for any digits that do not occur in the mask (`DigitsAssumption`):

* `FormCorrectable` (`Correctable`) and `SendsValid`
  (`OnlyValidSent`), from `LabelsInv`, which says of each label what it tells of its
  text: that of the e-mail is exact, that of the password is only known to be empty
  once there is a password.
* `TypeCorrect` and `BackspaceWorks` (`BackspaceDeletes`), from a theory of the mask:
  `CleanedExists` (the digits of a text are well defined), `SlotsAre` (the places of
  the mask, in order), `FilledIs` and `FormatIs` (what is filled in, up to the first place without a
  digit), `DigitsOfFormat` and `FormatAgain` (formatting what was formatted changes
  nothing). Hence a number ends in a digit, and backspace takes that one.

`ConsultaProofs`, for any documents, versions, calls, faults and any bound on lookups, from
`BoundsAssumption`. A handler of the client is an operator composed of operators, and the
proof is composed the same way: for each method, from the innermost out, a lemma
says which fields it leaves alone and which parts of the invariant it keeps; the loops
over documents and targets go through `FoldLemmas`.

* `ClientInvariant`: `Spec => []IInv`. `Good` says what a handler leaves behind:
  a connection is tried while something is listened to, the timer runs only while
  nothing is known, what was on a closed stream is gone (`Conn`); targets, lookups and the
  documents they are for are paired (`Look`); the view and the target of the query are
  there iff there are listeners (`Served`). `OrderInv` follows the calls: up to some k they have
  been taken on, the listeners are among them in ascending order, and so are the events on their way, so
  that the calls answered are an initial segment. `BackendInv`: the backend serves
  targets only on an open stream.
* `AnswersInOrder` (`InOrder`) from `OrderInv` and `WaitingIsWatched` (`Watched`)
  from `Conn`.
* `LookupsAreInUse` (`LookupsInUse`), with no fewer lookups than documents
  (`RoomEnough`; the code allows 100): then nothing is ever queued and every lookup is of a
  document in limbo (`RoomInv`). With fewer, a queued lookup may be started for a document
  that left limbo in the meantime (`PumpEnqueuedLimboResolutions`, sync_engine.cc:557), so that
  the property is not true of every bound.

`ConsultaStreamProofs` goes on, under the same assumption, with what client and backend say to each
other:

* `ConversationInvariant`: `Spec => [](IInv /\ (SenseInv \/ Stopped))`, where `Stopped` is the app
  ended by a stream that was ended with OK (`StopsOnly`: no other step fails an assertion). An assertion about the aggregator
  depends on messages sent long before and on what the phone has wanted since, and so `SenseInv` is about the whole conversation.
  `Texts`: all messages under way are well formed. `Owe`: the aggregator counts as pending exactly the answers
  to the query's requests that are still to come, and the last thing said about the query is what
  the phone wants; this holds only across both queues of the stream at once, and the backend takes from
  one what it puts into the other. `Synced`, `LookupNews`: only documents that the query or the lookup has had are
  changed or removed. `Stored`: nothing on disk is ahead of the collection.
* `AssertionsHold` (`NoHardAssertFails`) and `TypeCorrect` (`TypeOK`) follow. The former is why the invariant
  is needed: each assertion is shown where its method runs, from what the invariant says there.

### Only model-checked

Liveness (`SaveOfferCompletes`, `AllListed`, `Refreshed`, `Uncovered`, `Answered`) rests on fairness
and ENABLED, which the provers do not handle. Of Consulta the refinement
(`ImplementsLeitura`) is only checked, for one and two documents and a few versions: it needs the exact
contents of the cache between any two messages. The runs that show a
disagreement (`DeletedWhenSaidSo`, `GuaranteedUpToDate`) are counterexamples and need no proof.

## 6. What is not modelled

The pictures of reused cells and the contact data of a row, which is that of whoever is
signed in when the answer comes (`OfertasWorker.swift:149`): nothing in the code orders
or relates them, so that there is no promise to check; the loading view of the screens
of one ad; the animated pictures, which no screen uses; the forgotten password and the
fields of the login form; limits on the length of texts; the image picker beyond the
picture it returns; a second press of Cadastrar while the first is under way, which only
gets an error; layout, colours, keyboards and wording; of Firestore, a change of user
under a query, a lookup that the backend starts over, the notice of a new user within a turn of the main thread, queries with filters or limits (MinhasOfertas filters by owner), several
collections on one stream, indexes, garbage collection and the layout of the store; image
and JSON decoding beyond success or failure; other vendored libraries; screens no segue
reaches and code that is not compiled.

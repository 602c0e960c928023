---------------------------- MODULE ListaOfertas ----------------------------
(***************************************************************************)
(* The two lists of ads, Feed (FeedViewController, loadOffers) and           *)
(* MinhasOfertas (OfertasUsuarioViewController, loadOffersForIUD): the same  *)
(* protocol between the collection, the controller that keeps the rows of    *)
(* the last answer, and the table view, which believes in the rows it saw    *)
(* when it was last reloaded.                                                *)
(*                                                                          *)
(* An answer replaces the rows in one turn of the main thread and reloads    *)
(* the table in a later one, so that touches may come in between.            *)
(*                                                                          *)
(* Ads are numbered in the order of their document ids, which is the order   *)
(* a query answers in; a new ad may come before the others.                  *)
(***************************************************************************)
EXTENDS Naturals, Sequences, FiniteSets

CONSTANTS Ads,        \* ads that may be in the collection, a set of numbers
          MaxLoads,   \* bound on the queries, answers and reloads under way
          NoCell, NoAd

ASSUME ListAssumption == /\ Ads \subseteq Nat /\ IsFiniteSet(Ads)
                         /\ MaxLoads \in Nat \ {0}
                         /\ NoAd \notin Ads

VARIABLES
    docs,      \* the ads the query answers with
    cache,     \* the ads the phone remembers: its last answer and its own writes
    deleted,   \* history: an ad of the collection or of the cache was deleted
    steady,    \* history: since the last query was issued docs did not change, no
               \* query failed and none was answered with an outdated cache
    asked,     \* queries not answered by the client yet
    answers,   \* answers on their way to the completion handler
    ofertas,   \* rows kept by the controller
    reloads,   \* blocks waiting on the main queue
    shown,     \* rows the table view believes in
    cell,      \* the row the user looks at: its number and its ad, or NoCell
    overlay,   \* the loading view covers the screen
    screen,    \* "hidden" (not yet or no longer on top), "visible" or "crashed"
    opened     \* ad on the screen opened last, or NoAd

vars == <<docs, cache, deleted, steady, asked, answers, ofertas, reloads, shown, cell,
          overlay, screen, opened>>
collection == <<docs, cache, deleted, steady>>
table == <<shown, cell, overlay>>
touch == <<screen, opened>>

\* The ads S in their order.
Rows(S) == [i \in 1..Cardinality(S) |->
               CHOOSE k \in S : Cardinality({j \in S : j <= k}) = i]

UnderWay == asked + Len(answers) + reloads

TypeOK ==
    /\ docs \subseteq Ads /\ cache \subseteq Ads /\ {deleted, steady} \subseteq BOOLEAN
    /\ asked \in Nat /\ answers \in Seq(SUBSET Ads) /\ reloads \in Nat
    /\ UnderWay <= MaxLoads
    /\ ofertas \in Seq(Ads)
    /\ shown \in Nat
    /\ cell \in [row : Nat \ {0}, ad : Ads] \cup {NoCell}
    /\ overlay \in BOOLEAN
    /\ overlay => shown = 0 /\ cell = NoCell /\ opened = NoAd
    /\ screen \in {"hidden", "visible", "crashed"}
    /\ opened \in Ads \cup {NoAd}

\* viewDidLoad covers the screen and issues a first query. What the phone remembers
\* of earlier runs may be gone already.
Init == /\ docs \in SUBSET Ads /\ cache \in SUBSET Ads
        /\ deleted = ~(cache \subseteq docs) /\ steady = TRUE
        /\ asked = 1 /\ answers = <<>> /\ ofertas = <<>> /\ reloads = 0
        /\ shown = 0 /\ cell = NoCell /\ overlay = TRUE
        /\ screen = "hidden" /\ opened = NoAd

-----------------------------------------------------------------------------
(* The collection and the queries.                                          *)

\* Somebody publishes or deletes ads; the writes of this phone are in its cache at
\* once.
Change(S, mine) ==
    /\ S # docs
    /\ docs' = S
    /\ cache' = IF mine THEN (cache \ (docs \ S)) \cup (S \ docs) ELSE cache
    /\ deleted' = (deleted \/ ~(docs \subseteq S))
    /\ steady' = FALSE
    /\ UNCHANGED <<asked, answers, ofertas, reloads, table, touch>>

\* viewDidAppear, also when the user comes back: another query.
ViewDidAppear ==
    /\ screen = "hidden"
    /\ UnderWay < MaxLoads
    /\ screen' = "visible"
    /\ asked' = asked + 1
    /\ steady' = TRUE
    /\ UNCHANGED <<docs, cache, deleted, answers, ofertas, reloads, table, opened>>

\* Another tab, or another screen, comes on top.
Leave ==
    /\ screen = "visible"
    /\ screen' = "hidden"
    /\ UNCHANGED <<collection, asked, answers, ofertas, reloads, table, opened>>

\* The client answers the queries in their order (Consulta, InOrder): with the
\* collection, which it then remembers, or, without a connection, from the cache.
Answer ==
    /\ asked > 0
    /\ asked' = asked - 1
    /\ answers' = Append(answers, docs)
    /\ cache' = docs
    /\ UNCHANGED <<docs, deleted, steady, ofertas, reloads, table, touch>>

AnswerFromCache ==
    /\ asked > 0
    /\ asked' = asked - 1
    /\ answers' = Append(answers, cache)
    /\ steady' = (steady /\ cache = docs)
    /\ UNCHANGED <<docs, cache, deleted, ofertas, reloads, table, touch>>

\* Variant: an error counts as an empty answer.
AnswerErrorEmpty ==
    /\ asked > 0
    /\ asked' = asked - 1
    /\ answers' = Append(answers, {})
    /\ steady' = FALSE
    /\ UNCHANGED <<docs, cache, deleted, ofertas, reloads, table, touch>>

\* An error is printed; the completion handler is not called.
AnswerError ==
    /\ asked > 0
    /\ asked' = asked - 1
    /\ steady' = FALSE
    /\ UNCHANGED <<docs, cache, deleted, answers, ofertas, reloads, table, touch>>

\* Variant: the table is reloaded by viewDidLoad only.
LoadOfertasSilent ==
    /\ answers # <<>>
    /\ ofertas' = Rows(Head(answers))
    /\ answers' = Tail(answers)
    /\ reloads' = IF overlay THEN reloads + 1 ELSE reloads
    /\ UNCHANGED <<collection, asked, table, touch>>

\* loadOfertas: the controller takes the rows and posts the reload.
LoadOfertas ==
    /\ answers # <<>>
    /\ ofertas' = Rows(Head(answers))
    /\ answers' = Tail(answers)
    /\ reloads' = reloads + 1
    /\ UNCHANGED <<collection, asked, table, touch>>

\* Variant: the loading view stays.
ReloadDataCovered ==
    /\ reloads > 0
    /\ reloads' = reloads - 1
    /\ shown' = Len(ofertas)
    /\ cell' = NoCell
    /\ UNCHANGED <<collection, asked, answers, ofertas, overlay, touch>>

\* Variant: only the first answer reloads the table.
ReloadDataOnce ==
    /\ reloads > 0
    /\ reloads' = reloads - 1
    /\ shown' = IF overlay THEN Len(ofertas) ELSE shown
    /\ cell' = NoCell
    /\ overlay' = FALSE
    /\ UNCHANGED <<collection, asked, answers, ofertas, touch>>

\* reloadData and hiddenLoading.
ReloadData ==
    /\ reloads > 0
    /\ reloads' = reloads - 1
    /\ shown' = Len(ofertas)
    /\ cell' = NoCell
    /\ overlay' = FALSE
    /\ UNCHANGED <<collection, asked, answers, ofertas, touch>>

-----------------------------------------------------------------------------
(* The user.                                                                *)

OutOfRange(r) == r > Len(ofertas)

\* cellForRowAt
DrawRow(r) ==
    /\ screen = "visible" /\ r <= shown
    /\ IF OutOfRange(r)
       THEN screen' = "crashed" /\ UNCHANGED cell
       ELSE cell' = [row |-> r, ad |-> ofertas[r]] /\ UNCHANGED screen
    /\ UNCHANGED <<collection, asked, answers, ofertas, reloads, shown, overlay, opened>>

\* didSelectRowAt and prepare: the ad is looked up by the number of the row.
SelectRow ==
    /\ screen = "visible" /\ cell # NoCell
    /\ IF OutOfRange(cell.row)
       THEN screen' = "crashed" /\ UNCHANGED opened
       ELSE screen' = "hidden" /\ opened' = ofertas[cell.row]
    /\ UNCHANGED <<collection, asked, answers, ofertas, reloads, table>>

Loading == Answer \/ AnswerFromCache \/ AnswerError \/ LoadOfertas \/ ReloadData

User == \/ ViewDidAppear
        \/ Leave
        \/ \E r \in 1..shown : DrawRow(r)
        \/ SelectRow

Next == \/ \E S \in SUBSET Ads, mine \in BOOLEAN : Change(S, mine)
        \/ Loading
        \/ User

Spec == Init /\ [][Next]_vars

\* Queries are answered and the main queue is served.
FairSpec == Spec /\ WF_vars(Answer) /\ WF_vars(LoadOfertas) /\ WF_vars(ReloadData)

-----------------------------------------------------------------------------
(* Properties.                                                              *)

\* The row tapped and the ad opened can differ, and a row be missing, only while an
\* answer has replaced the rows and its reload still waits on the main queue: rows,
\* table and cell are otherwise of one answer, however many queries overlap.
StaleOnlyInTheGap ==
    [][reloads = 0 => /\ screen' # "crashed" \/ screen = "crashed"
                      /\ opened' # opened => opened' = cell.ad]_vars

\* As long as nobody has deleted an ad, the lists never ask for a row they do not have,
\* and no answer takes a row from the list, although answers may fail, come from the
\* cache or be outdated when they come.
NeverShrinks ==
    [][~deleted =>
       /\ screen' # "crashed"
       /\ \A i \in DOMAIN ofertas : \E j \in DOMAIN ofertas' : ofertas'[j] = ofertas[i]]_vars

\* After the screen has appeared, and unless the collection changes again, a query
\* fails or an outdated cache answers, the loading view goes away and the table ends up with the ads of the
\* collection: an outdated answer is never the last one.
Refreshed ==
    (asked > 0 /\ steady) ~>
        (~steady \/ (~overlay /\ ofertas = Rows(docs) /\ shown = Len(ofertas)))
=============================================================================

-------------------------- MODULE SelecionarPokemon -------------------------
(***************************************************************************)
(* The screen that lists every pokemon, page by page: SelecionarPokemonVC    *)
(* on the main thread, its loading block on a global queue, and the answers  *)
(* of PokemonWork.getTwentyPokemons, which SelecionarPokemonController       *)
(* handles one after the other on the delegate queue of URLSession.          *)
(*                                                                          *)
(* The list of the controller is shared by the three without a lock, and     *)
(* isLoading goes back to false when the request has been issued, not when   *)
(* it has been answered: the user may scroll again with answers under way.   *)
(*                                                                          *)
(* Pokemons are numbered 1..Total, a page URL is the number of pokemons      *)
(* before the page, and 0 stands for a missing URL, which asks for the       *)
(* first page.                                                               *)
(***************************************************************************)
EXTENDS Naturals, SequencesExt

CONSTANTS Total,      \* pokemons in the database ("count" of every page)
          Page,       \* pokemons on a page
          MaxOpen,    \* bound on the answers under way
          NoList, Idle, NoCell   \* nil

ASSUME SizesAssumption == /\ Total \in Nat \ {0}
                          /\ Page \in Nat \ {0}
                          /\ MaxOpen \in Nat \ {0}

VARIABLES
    list,       \* pokemonList: rows and URL of the next page, or NoList
    first,      \* the request of viewDidLoad: "asked", "answered", "ready"
    open,       \* URL -> requests of loadMoreData not answered yet
    handler,    \* delegate queue: what is left of the answer being handled
    block,      \* loading block: "idle", "queued", "reload" (on the main queue)
    isLoading,
    shown,      \* rows the table view believes in since reloadData
    cell,       \* the row the user looks at: its number and the name on it, 0
                \* for the old label of a reused cell
    sent,       \* name handed to AddPokemon, 0 for the empty string
    screen,     \* "open", "chosen" (dismissed) or "crashed"
    calm        \* history: no request failed, and none was asked for while another
                \* was under way

vars == <<list, first, open, handler, block, isLoading, shown, cell, sent, screen, calm>>
table == <<shown, cell, sent, screen>>

Urls == {o \in 0..(Total - 1) : o % Page = 0}
Lists == [results : Seq(1..Total), next : Urls]
Answers == [left : Seq(1..Total), next : Urls]
Cells == [row : Nat \ {0}, name : 0..Total]

ASSUME NilAssumption == NoList \notin Lists /\ Idle \notin Answers /\ NoCell \notin Cells

\* A page of the Poke API.
PageAt(o) == [results |-> [i \in 1..Min({Page, Total - o}) |-> o + i],
              next |-> IF o + Page < Total THEN o + Page ELSE 0]

numberOfRows == IF list = NoList THEN 0 ELSE Len(list.results)
numberOfPokemonsInDatabase == IF list = NoList THEN 0 ELSE Total
nextURL == IF list = NoList THEN 0 ELSE list.next

Added(f) == FoldFunction(+, 0, f)
UnderWay == Added(open) + (IF handler = Idle THEN 0 ELSE 1)

TypeOK ==
    /\ list \in Lists \cup {NoList}
    /\ first \in {"asked", "answered", "ready"}
    /\ open \in [Urls -> 0..MaxOpen]
    /\ handler \in Answers \cup {Idle}
    /\ block \in {"idle", "queued", "reload"}
    /\ isLoading = (block # "idle")
    /\ shown \in Nat
    /\ cell \in Cells \cup {NoCell}
    /\ sent \in 0..Total
    /\ screen \in {"open", "chosen", "crashed"}
    /\ UnderWay <= MaxOpen
    /\ calm \in BOOLEAN

Init == /\ list = NoList
        /\ first = "asked"
        /\ open = [o \in Urls |-> 0]
        /\ handler = Idle
        /\ block = "idle"
        /\ isLoading = FALSE
        /\ shown = 0
        /\ cell = NoCell
        /\ sent = 0
        /\ screen = "open"
        /\ calm = TRUE

-----------------------------------------------------------------------------
(* The first page.                                                          *)

\* An answer that cannot be decoded comes as (nil, nil) and counts as a list.
FirstAnswer(ok) ==
    /\ first = "asked"
    /\ list' = IF ok THEN PageAt(0) ELSE NoList
    /\ first' = "answered"
    /\ calm' = (calm /\ ok)
    /\ UNCHANGED <<open, handler, block, isLoading, table>>

FirstReload ==
    /\ first = "answered"
    /\ first' = "ready"
    /\ shown' = numberOfRows
    /\ UNCHANGED <<list, open, handler, block, isLoading, cell, sent, screen, calm>>

-----------------------------------------------------------------------------
(* The next pages.                                                          *)

\* Variant: isLoading is set by the block, not before it.
LoadMoreDataLate ==
    /\ first = "ready" /\ screen = "open"
    /\ ~isLoading
    /\ numberOfRows < numberOfPokemonsInDatabase
    /\ block' = "queued"
    /\ calm' = (calm /\ UnderWay = 0)
    /\ UNCHANGED <<list, first, open, handler, isLoading, table>>

\* Variant: the guard on the number of rows is missing.
LoadMoreDataAlways ==
    /\ first = "ready" /\ screen = "open"
    /\ ~isLoading
    /\ isLoading' = TRUE
    /\ block' = "queued"
    /\ calm' = (calm /\ UnderWay = 0)
    /\ UNCHANGED <<list, first, open, handler, table>>

\* scrollViewDidScroll and loadMoreData.
LoadMoreData ==
    /\ first = "ready" /\ screen = "open"
    /\ ~isLoading
    /\ numberOfRows < numberOfPokemonsInDatabase
    /\ isLoading' = TRUE
    /\ block' = "queued"
    /\ calm' = (calm /\ UnderWay = 0)
    /\ UNCHANGED <<list, first, open, handler, table>>

\* The block reads nextURL now, on its own thread, and issues the request.
LoadingBlock ==
    /\ block = "queued"
    /\ UnderWay < MaxOpen
    /\ open' = [open EXCEPT ![nextURL] = @ + 1]
    /\ block' = "reload"
    /\ UNCHANGED <<list, first, handler, isLoading, table, calm>>

\* Variant: isLoading is not cleared.
ReloadStillLoading ==
    /\ block = "reload"
    /\ block' = "idle"
    /\ shown' = numberOfRows
    /\ cell' = NoCell
    /\ UNCHANGED <<list, first, open, handler, isLoading, sent, screen, calm>>

\* reloadData: the rows are drawn anew; isLoading is cleared.
Reload ==
    /\ block = "reload"
    /\ block' = "idle"
    /\ isLoading' = FALSE
    /\ shown' = numberOfRows
    /\ cell' = NoCell
    /\ UNCHANGED <<list, first, open, handler, sent, screen, calm>>

\* Variant: the delegate queue is concurrent.
AnswerFirstPageConcurrent(ok) ==
    /\ open[0] > 0
    /\ open' = [open EXCEPT ![0] = @ - 1]
    /\ list' = IF ok THEN PageAt(0) ELSE NoList
    /\ calm' = (calm /\ ok)
    /\ UNCHANGED <<first, handler, block, isLoading, table>>

\* getTwentyPokemons without a URL: the answer replaces the whole list.
AnswerFirstPage(ok) ==
    /\ handler = Idle
    /\ open[0] > 0
    /\ open' = [open EXCEPT ![0] = @ - 1]
    /\ list' = IF ok THEN PageAt(0) ELSE NoList
    /\ calm' = (calm /\ ok)
    /\ UNCHANGED <<first, handler, block, isLoading, table>>

\* Variant: the URL of the next page is stored before the rows.
AnswerPageNextFirst(o, ok) ==
    /\ handler = Idle
    /\ o > 0 /\ open[o] > 0
    /\ open' = [open EXCEPT ![o] = @ - 1]
    /\ handler' = IF ok THEN [left |-> PageAt(o).results, next |-> PageAt(o).next]
                        ELSE [left |-> <<>>, next |-> 0]
    /\ list' = IF list = NoList THEN NoList ELSE [list EXCEPT !.next = handler'.next]
    /\ calm' = (calm /\ ok)
    /\ UNCHANGED <<first, block, isLoading, table>>

\* getTwentyPokemons with a URL: the rows are appended one by one, then the URL
\* is stored; an answer that cannot be decoded has neither.
AnswerPage(o, ok) ==
    /\ handler = Idle
    /\ o > 0 /\ open[o] > 0
    /\ open' = [open EXCEPT ![o] = @ - 1]
    /\ handler' = IF ok THEN [left |-> PageAt(o).results, next |-> PageAt(o).next]
                        ELSE [left |-> <<>>, next |-> 0]
    /\ calm' = (calm /\ ok)
    /\ UNCHANGED <<list, first, block, isLoading, table>>

\* Variant: the rows are put in front.
InsertRow ==
    /\ handler # Idle /\ handler.left # <<>>
    /\ list' = IF list = NoList THEN NoList
               ELSE [list EXCEPT !.results = <<Head(handler.left)>> \o @]
    /\ handler' = [handler EXCEPT !.left = Tail(@)]
    /\ UNCHANGED <<first, open, block, isLoading, table, calm>>

AppendRow ==
    /\ handler # Idle /\ handler.left # <<>>
    /\ list' = IF list = NoList THEN NoList
               ELSE [list EXCEPT !.results = Append(@, Head(handler.left))]
    /\ handler' = [handler EXCEPT !.left = Tail(@)]
    /\ UNCHANGED <<first, open, block, isLoading, table, calm>>

\* Variant: the URL of the next page is kept.
StoreNothing ==
    /\ handler # Idle /\ handler.left = <<>>
    /\ handler' = Idle
    /\ UNCHANGED <<list, first, open, block, isLoading, table, calm>>

StoreNext ==
    /\ handler # Idle /\ handler.left = <<>>
    /\ list' = IF list = NoList THEN NoList ELSE [list EXCEPT !.next = handler.next]
    /\ handler' = Idle
    /\ UNCHANGED <<first, open, block, isLoading, table, calm>>

-----------------------------------------------------------------------------
(* The table view.                                                          *)

OutOfRange(r) == list # NoList /\ r > Len(list.results)

\* cellForRowAt: reads the list as it is now; without a list a reused cell keeps
\* its label.
DrawRow(r) ==
    /\ first = "ready" /\ screen = "open"
    /\ r <= shown
    /\ IF OutOfRange(r)
       THEN screen' = "crashed" /\ UNCHANGED cell
       ELSE /\ cell' = [row |-> r,
                        name |-> IF list = NoList THEN 0 ELSE list.results[r]]
            /\ UNCHANGED screen
    /\ UNCHANGED <<list, first, open, handler, block, isLoading, shown, sent, calm>>

\* didSelectRowAt: the name comes from the list, not from the cell.
SelectRow ==
    /\ screen = "open" /\ cell # NoCell
    /\ IF OutOfRange(cell.row)
       THEN screen' = "crashed" /\ UNCHANGED sent
       ELSE /\ sent' = IF list = NoList THEN 0 ELSE list.results[cell.row]
            /\ screen' = "chosen"
    /\ UNCHANGED <<list, first, open, handler, block, isLoading, shown, cell, calm>>

Next == \/ \E ok \in BOOLEAN : FirstAnswer(ok)
        \/ FirstReload
        \/ LoadMoreData
        \/ LoadingBlock
        \/ Reload
        \/ \E ok \in BOOLEAN : AnswerFirstPage(ok)
        \/ \E o \in Urls, ok \in BOOLEAN : AnswerPage(o, ok)
        \/ AppendRow
        \/ StoreNext
        \/ \E r \in 1..shown : DrawRow(r)
        \/ SelectRow

Spec == Init /\ [][Next]_vars

\* Requests are answered, the queues run their blocks, and the user goes on
\* scrolling while nothing is under way.
FairSpec == /\ Spec
            /\ WF_vars(\E ok \in BOOLEAN : FirstAnswer(ok)) /\ WF_vars(FirstReload)
            /\ WF_vars(UnderWay = 0 /\ LoadMoreData)
            /\ WF_vars(LoadingBlock) /\ WF_vars(Reload)
            /\ WF_vars(\E o \in Urls, ok \in BOOLEAN : AnswerPage(o, ok))
            /\ WF_vars(AppendRow) /\ WF_vars(StoreNext)

-----------------------------------------------------------------------------
(* Properties, at any pace and with failures.                               *)

EndOfPage(n) == n % Page = 0 \/ n = Total

\* However the answers overlap, repeat or fail, the rows are whole pages, the
\* first page first, with at most the page being appended unfinished: no page
\* is cut by another one (getTwentyPokemons, lines 34-52).
WholePages ==
    list # NoList =>
        LET rows == list.results
            n == Len(rows)
        IN /\ rows[1] = 1
           /\ \A i \in 1..(n - 1) : IF EndOfPage(rows[i]) THEN rows[i + 1] - 1 \in Urls
                                   ELSE rows[i + 1] = rows[i] + 1
           /\ \/ EndOfPage(rows[n])
              \/ handler # Idle /\ handler.left # <<>> /\ Head(handler.left) = rows[n] + 1

\* The next page asked for is one whose predecessor is in the list, although the
\* block reads the URL while answers are being handled: a page may come twice
\* but none is skipped before it was ever listed (nextURL, lines 27-29 and 41).
NextFollows == list # NoList /\ list.next > 0 => list.next \in Range(list.results)

\* Whatever happens between drawing a row of the first page and tapping it, the
\* name handed to AddPokemon is the one the user read, or empty (didSelectRowAt
\* reads the list again, SelecionarPokemonVC lines 97-103).
FirstRowsReliable ==
    [][sent' # sent /\ cell.name # 0 /\ cell.row <= Page => sent' = cell.name]_vars

-----------------------------------------------------------------------------
(* Properties of a user who scrolls on when the answers are in.              *)

\* The list is 1, 2, 3, ... without a gap or a repetition, up to the pages
\* answered so far: guard, nextURL and append work together.
InOrder ==
    calm /\ list # NoList =>
        LET rows == list.results \o (IF handler = Idle THEN <<>> ELSE handler.left)
        IN rows = [i \in 1..Len(rows) |-> i]

\* The table view never asks for a row the list has lost (results[posicao],
\* SelecionarPokemonController line 23), and what is sent is what was read.
NeverLosesRows ==
    [][calm => screen' # "crashed" /\ (sent' # sent => sent' = cell.name)]_vars

LastPage == CHOOSE o \in Urls : \A u \in Urls : u <= o

\* Scrolling on lists every pokemon and shows all but the last page: reloadData
\* runs when a page is requested, so the last one waits for a scroll that the
\* guard of loadMoreData ignores.
AllListed ==
    <>(~calm \/ screen # "open" \/ (numberOfRows = Total /\ shown >= LastPage))
=============================================================================

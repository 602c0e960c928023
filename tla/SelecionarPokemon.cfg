\* Five pokemons on pages of two: a first, a middle and a short last page.
SPECIFICATION FairSpec
CONSTANTS
    Total = 5
    Page = 2
    MaxOpen = 3
    NoList = NoList
    Idle = Idle
    NoCell = NoCell
INVARIANTS TypeOK WholePages NextFollows InOrder
PROPERTIES FirstRowsReliable NeverLosesRows AllListed
\* The screen may be dismissed, or crash, with nothing under way.
CHECK_DEADLOCK FALSE

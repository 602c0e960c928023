\* Two ads coming and going, in both orders; the queries of viewDidLoad, of the
\* first appearance and of a return overlap.
SPECIFICATION FairSpec
CONSTANTS
    Ads = {1, 2}
    NoCell = NoCell
    NoAd = NoAd
    MaxLoads = 3
INVARIANTS TypeOK
PROPERTIES StaleOnlyInTheGap NeverShrinks Refreshed

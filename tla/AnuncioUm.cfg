\* One phone, one owner, two ads, edits with two texts.
CONSTANTS
    Devices = {d1}
    Users = {u1}
    Ids = {k1, k2}
    Texts = {t1, t2}
    NoId = NoId
    None = None
    Absent = Absent
    MaxQueue = 3
    Denied = {}
SPECIFICATION FairSpec
INVARIANTS TypeOK IdNamesItsAd
PROPERTIES NetworkInvisible SaveOfferCompletes

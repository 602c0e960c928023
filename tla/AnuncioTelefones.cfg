\* Two phones and two owners, one ad; the second write of saveOffer may be refused.
CONSTANTS
    Devices = {d1, d2}
    Users = {u1, u2}
    Ids = {k1}
    Texts = {t1}
    NoId = NoId
    None = None
    Absent = Absent
    MaxQueue = 3
    Denied = {"id"}
SPECIFICATION Spec
SYMMETRY Symmetry
INVARIANTS NoIdIsTemporary
PROPERTIES NoRevival OnlyTheAuthorChanges ImplementsMural

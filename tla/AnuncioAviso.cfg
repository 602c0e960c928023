\* The alert after a delete against the collection.
CONSTANTS
    Devices = {d1, d2}
    Users = {u1}
    Ids = {k1}
    Texts = {t1}
    NoId = NoId
    None = None
    Absent = Absent
    MaxQueue = 3
    Denied = {}
SPECIFICATION Spec
PROPERTIES DeletedWhenSaidSo

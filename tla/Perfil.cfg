SPECIFICATION FairSpec
CONSTANTS
    Users = {u1}
    Texts = {1, 2}
    MaxWrites = 2
    MaxObjects = 4
    None = None
    Empty = Empty
    ProfilePic = ProfilePic
INVARIANTS TypeOK PictureKept NameKept
PROPERTY Uncovered
CHECK_DEADLOCK FALSE

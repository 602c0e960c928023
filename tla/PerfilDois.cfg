SPECIFICATION Spec
CONSTANTS
    Users = {u1, u2}
    Texts = {1}
    MaxWrites = 1
    MaxObjects = 4
    None = None
    Empty = Empty
    ProfilePic = ProfilePic
INVARIANT KeptApart
CHECK_DEADLOCK FALSE

\* Two users, three channel ids, one valid name and the empty one, two instants.
CONSTANTS
    Users = {u1, u2}
    Ids = {c1, c2, c3}
    Names = {"", "general"}
    NoName = NoName
    BadId = BadId
    MaxTime = 1
SPECIFICATION Spec
INVARIANT TypeOK
INVARIANT GetReturnsCreated

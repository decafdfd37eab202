\* Usernames as the code validates them: one of two characters and three bytes.
\* The system stops once every request is done and the log is read.
CONSTANTS
    Users <- MCUsers
    Names <- MCNames
    MultiByte <- MCMultiByte
    Alnum <- MCAlnum
    MinLength = 3
    MaxLength = 4
    Absent = Absent
    NoChange = NoChange
    MaxReqs = 3
    MaxInFlight = 2
    MaxRestarts = 1
    Faults = {}
SPECIFICATION Spec
CHECK_DEADLOCK FALSE
INVARIANT UsernameCodePoints

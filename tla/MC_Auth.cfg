\* Two users, two passwords; a lifetime of 1 and a leeway of 1 on a clock of 4 instants.
CONSTANTS
    Users = {u1, u2}
    Passwords = {p1, p2}
    Ttl = 1
    Leeway = 1
    MaxTime = 3
SPECIFICATION Spec
INVARIANT TypeOK
INVARIANT AcceptedWithinLifetime

SPECIFICATION Spec
CONSTANTS
    Users = {u1, u2}
    Tokens = {t1, t2, t3}
    Clients = {c1, c2}
    MaxEpoch = 2
SYMMETRY Symmetry
INVARIANTS
    OneLivePerSession
    OldSessionsEnd
CHECK_DEADLOCK FALSE

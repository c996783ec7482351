\* One process; a user with two browsers, and requests that overlap.
SPECIFICATION Spec
CONSTANTS
    User = {u1}
    Browser = {b1, b2}
    Process = {p1}
    Req = {r1, r2}
    AccessTtl = 1
    RefreshTtl = 2
    MaxNow = 2
INVARIANTS
    TypeOK
PROPERTIES
    SupersededIsRefused
    OnlyLoginEndsLogout
    GoneGetsNothing
CHECK_DEADLOCK FALSE

\* Two processes, each with its own memory behind Redis.
SPECIFICATION Spec
CONSTANTS
    User = {u1}
    Browser = {b1, b2}
    Process = {p1, p2}
    Req = {r1, r2}
    AccessTtl = 1
    RefreshTtl = 2
    MaxNow = 2
PROPERTIES
    SupersededIsRefused
CHECK_DEADLOCK FALSE

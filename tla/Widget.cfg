\* Codes requested and tried by requests that overlap, members and agents removed.
SPECIFICATION WidgetSpec
CONSTANTS
    o1 = o1  u1 = u1  u2 = u2  e1 = e1  e2 = e2
    Granted = {}
    Removing = TRUE
    Org = {o1}
    UserId = {u1, u2}
    Agent = {a1}
    Email = {e1, e2}
    Visitor = {e2}
    Token = {t1}
    Req = {r1, r2}
    Session = {s1}
    Reach = {"inactive", "public", "private"}
    OtpRateLimit = 1
    Attempts = 2
    MaxCodes = 3
    MaxLost = 1
SYMMETRY Symmetry
INVARIANTS
    WidgetTypeOK
    RateBounded
    TriesBounded
PROPERTIES
    StaysOut
CHECK_DEADLOCK FALSE

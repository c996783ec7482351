\* A session comes before the code.
SPECIFICATION WidgetSpec
CONSTANTS
    o1 = o1  u1 = u1  u2 = u2  e1 = e1  e2 = e2
    Granted = {}
    Removing = TRUE
    Org = {o1}
    UserId = {u1, u2}
    Agent = {a1}
    Email = {e1, e2}
    Visitor = {e2}
    Token = {t1, t2}
    Req = {r1, r2}
    Session = {s1}
    Reach = {"private"}
    OtpRateLimit = 1
    Attempts = 1
    MaxCodes = 1
    MaxLost = 0
PROPERTIES
    ReauthenticationHelps
CHECK_DEADLOCK FALSE

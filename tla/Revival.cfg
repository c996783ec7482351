\* A member is removed while a change of its role is being saved.
SPECIFICATION TeamSpec
CONSTANTS
    o1 = o1  u1 = u1  u2 = u2  e1 = e1  e2 = e2  t1 = t1
    SecondRole = "member"
    Granted = {}
    Org = {o1}
    UserId = {u1, u2}
    Agent = {}
    Email = {e1, e2}
    Token = {t1}
    Req = {r1, r2}
PROPERTIES
    RemovedStaysRemoved
CHECK_DEADLOCK FALSE

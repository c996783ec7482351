\* The only agent of a confined member is deleted.
SPECIFICATION TeamSpec
CONSTANTS
    o1 = o1  u1 = u1  u2 = u2  e1 = e1  e2 = e2  t1 = t1
    SecondRole = "member"
    Granted = {a1}
    Org = {o1}
    UserId = {u1, u2}
    Agent = {a1, a2}
    Email = {e1, e2}
    Token = {t1}
    Req = {r1}
PROPERTIES
    DeleteNeverWidens
CHECK_DEADLOCK FALSE

\* An owner and an admin, who send and resend offers, and one who joins.
SPECIFICATION TeamSpec
CONSTANTS
    o1 = o1  u1 = u1  u2 = u2  e1 = e1  e2 = e2  t1 = t1
    SecondRole = "admin"
    Granted = {}
    Org = {o1}
    UserId = {u1, u2, u3}
    Agent = {}
    Email = {e1, e2, e3}
    Token = {t1, t2, t3}
    Req = {r1, r2}
SYMMETRY Symmetry
CONSTRAINT KeysKept
INVARIANTS
    AdminOffersByOwner
PROPERTIES
    AdminsByOwner
    AcceptedIsFinal
CHECK_DEADLOCK FALSE

\* Two organizations founded and filled from nothing.
SPECIFICATION Spec
CONSTANTS
    Org = {o1, o2}
    UserId = {u1, u2}
    Agent = {a1}
    Email = {e1, e2}
    Token = {t1}
    Req = {r1, r2}
SYMMETRY Symmetry
INVARIANTS
    TypeOK
    OneOwner
    OwnerClaimsTrue
PROPERTIES
    OwnerKept
    Opened
    ImplementsRoster
CHECK_DEADLOCK FALSE

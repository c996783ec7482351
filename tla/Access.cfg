\* A member, two agents and two transactions, from any access rows.
SPECIFICATION Spec
CONSTANTS
    Member = {m1}
    Agent = {a1, a2}
    Req = {r1, r2}
INVARIANTS
    TypeOK
    NoneDangling
PROPERTIES
    Replaced
    ImplementsMembership
    CallsEnd
CHECK_DEADLOCK FALSE

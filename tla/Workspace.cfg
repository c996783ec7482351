\* An agent of one of two organizations, two handlers, from empty tables.
SPECIFICATION Spec
CONSTANTS
    o1 = o1
    Org = {o1, o2}
    Agent = {a1}
    Home <- AllHome
    Tool = {k1, k2}
    Secret = {s1, s2}
    Conv = {c1, c2}
    Session = {w1}
    Req = {r1, r2}
    MaxCount = 2
    com = com
    app = app
    Label <- Labels
    Local <- LocalHosts
SYMMETRY Symmetry
INVARIANTS
    WorkspaceTypeOK
    References
    SealedOnce
    StatsAgree
PROPERTIES
    HistoryKept
    StaysGone
CHECK_DEADLOCK FALSE

\* Three messages; one and the same number may be given out twice where the
\* trigger does not lock, and pages are short enough to need several.
SPECIFICATION Spec
CONSTANTS
    c1 = c1  c2 = c2  k1 = k1  k2 = k2
    Conv = {c1, c2}
    Msg = {m1, m2, m3}
    Writer = {w1, w2}
    Reader = {r1}
    Key = {k1, k2}
    LockKey <- MCLockKey
    Limit = 1
INVARIANTS
    TypeOK
    Gapless
    NothingMissed
PROPERTIES
    LastPageIsLast
    LockPrevents
    ImplementsLog

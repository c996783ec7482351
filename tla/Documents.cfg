\* One document of one agent, from its creation, with two requests in flight.
SPECIFICATION Spec
CONSTANTS
    Agent = {a1}
    Doc = {d1}
    NoText = t0
    Text = {t0, t1}
    Count = {1}
    Req = {r1, r2}
    MaxJobs = 1
INVARIANTS
    TypeOK
    NothingForgotten
    LastWordStands
    CleanedUp
    StaysGone
PROPERTIES
    IndexingEnds
CHECK_DEADLOCK FALSE

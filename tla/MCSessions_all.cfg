CONSTANTS
    sse1 = sse1
    sub1 = sub1
    ws1 = ws1
    gs1 = gs1
    m1 = m1
    m2 = m2
    MsgIds = {m1}
    MaxWrites = 1
    Sessions = {sse1, sub1, ws1, gs1}
    KindOf <- MCKindAll
SPECIFICATION Spec
INVARIANTS TypeOK DefersMatchRegistrations
PROPERTIES WritesOnlyWhenListed SessionsReleased
\* Once every handler has returned nothing more can happen.
CHECK_DEADLOCK FALSE

CONSTANTS
    sse1 = sse1
    sub1 = sub1
    ws1 = ws1
    gs1 = gs1
    m1 = m1
    m2 = m2
    MsgIds = {m1, m2}
    MaxWrites = 2
    Sessions = {gs1}
    KindOf <- MCKindGRPC
SPECIFICATION Spec
INVARIANT ControlCancelOnly
\* Once every handler has returned nothing more can happen.
CHECK_DEADLOCK FALSE

\* With the NATS binding started, does the log hold only client-published events?
CONSTANTS
    ta = ta
    s1 = s1
    s2 = s2
    Topics = {ta}
    Sessions = {s1, s2}
    Cursors <- MCCursors
    ChanCap = 1
    NATSConnected = TRUE
    NATSBinding = TRUE
    MaxEvents = 3
SPECIFICATION Spec
INVARIANTS EventLogMatchesPublishes

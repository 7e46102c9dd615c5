\* Two sessions subscribe to one topic while a client publishes, with the
\* NATS connection and the NATS binding started.  The binding is not fair,
\* so the behaviours without NATS (the default deployment) are included.
CONSTANTS
    ta = ta
    s1 = s1
    s2 = s2
    Topics = {ta}
    Sessions = {s1, s2}
    Cursors <- MCCursors
    ChanCap = 1
    NATSConnected = TRUE
    NATSBinding = TRUE
    MaxEvents = 3
SPECIFICATION Spec
INVARIANTS TypeOK DeliveryInOrder NoSendOnClosedChannel
PROPERTIES EventuallyReceived TopicStreamSpec
\* Deadlock is not checked: the only states without a successor are those
\* where every log is at MaxEvents and every session has closed.
CHECK_DEADLOCK FALSE

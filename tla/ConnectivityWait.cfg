CONSTANTS
    Timeout = 6
    SampleTime = 2
    TcpTimeout = 3
    Delays = {0, 4}
SPECIFICATION WaitSpec
INVARIANTS
    NotEarly
    TimeBounded
PROPERTIES
    Ends
    ReachedIsReported
CHECK_DEADLOCK FALSE

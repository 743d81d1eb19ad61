SPECIFICATION FairSpec
CONSTANTS
    FlushSize = 2
    Tabs = {"A", "B"}
    Callers = {"a1", "a2", "b1"}
    Handlers = {"ha", "hb"}
    Owner <- MCOwner
    Scenarios <- MCScenarios
    Life = 2
    Threshold = 1
    MinRefreshInterval = 1
    SlidingWindow = 2
    IdleTimeout = 1
INVARIANTS Safety OneSession EventsInOrder
PROPERTY CallsEnd
CHECK_DEADLOCK FALSE

SPECIFICATION FairSpec
CONSTANTS
    c1 = c1
    c2 = c2
    NoConn = NoConn
    Clients = {c1, c2}
    Fds = {5, 6}
    Units = 2
    MaxUnits = 6
    MaxEvents = 3
INVARIANTS TypeOK FramingExact EventsCurrent EngineGetsAll
PROPERTIES ArrivedReachesEngine StopEndsRun
CHECK_DEADLOCK FALSE

SPECIFICATION FairFeedSpec
CONSTANTS
    c1 = c1
    c2 = c2
    NoConn = NoConn
    Clients = {c1}
    Fds = {5}
    Units = 2
    MaxUnits = 2
    MaxEvents = 2
PROPERTIES ClosedClientsOrdersPushed
CHECK_DEADLOCK FALSE

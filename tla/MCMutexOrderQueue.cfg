SPECIFICATION FairSpec
CONSTANTS
    o1 = o1
    o2 = o2
    p1 = p1
    p2 = p2
    c1 = c1
    c2 = c2
    NoThread = NoThread
    Orders = {o1, o2}
    Producers = {p1, p2}
    Consumers = {c1, c2}
    MaxPush = 5
INVARIANTS TypeOK NoLostPush
PROPERTIES ImplementsQueue EverythingPopped

SPECIFICATION FairSpec
CONSTANTS
    o1 = o1
    o2 = o2
    Orders = {o1, o2}
    Capacity <- MCCapacity
    MaxPush = 6
    NoOrder = NoOrder
INVARIANTS TypeOK NoSlotRace
PROPERTIES ImplementsQueue PushReturns EverythingPopped ConsumerStops

SPECIFICATION FairSpec
CONSTANTS
    s1 = s1
    r1 = r1
    Sessions = {s1}
    Rooms = {r1}
    MaxPanics = 1
CHECK_DEADLOCK FALSE
INVARIANTS
    GaugesCoverReturned
    LifecycleInOrder
PROPERTIES
    PublishReturns

SPECIFICATION AbortOnlySpec
CONSTANTS
    r1 = r1
    a = a
    b = b
    None = None
    Room = {r1}
    Session = {a, b}
    RoomOf <- BothInOne
    Scanners = {}
    ContextEnds = TRUE
CHECK_DEADLOCK FALSE
PROPERTIES
    DeadlineEndsShutdown

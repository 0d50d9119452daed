SPECIFICATION GracefulSpec
CONSTANTS
    r1 = r1
    a = a
    b = b
    None = None
    Room = {r1}
    Session = {a, b}
    RoomOf <- BothInOne
    Scanners = {"janitor"}
    ContextEnds = FALSE
CHECK_DEADLOCK FALSE
PROPERTIES
    ShutdownTerminates
    CloseReturnsToAll
    RemovedRoomDrains

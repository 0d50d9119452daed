SPECIFICATION Spec
CONSTANTS
    r1 = r1
    a = a
    b = b
    None = None
    Room = {r1}
    Session = {a, b}
    RoomOf <- BothInOne
    Scanners = {"request", "janitor"}
    ContextEnds = TRUE
CHECK_DEADLOCK FALSE
INVARIANTS
    TeardownIsOwned
    ShutdownLeavesNothing

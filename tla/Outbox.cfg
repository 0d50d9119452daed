SPECIFICATION FairSpec
CONSTANTS
    ControlCapacity = 2
    MaxTick = 5
    MaxPlain = 3
CHECK_DEADLOCK FALSE
INVARIANTS
    QueuesAgree
PROPERTIES
    ControlBeforeGameEnd
    ImplementsFeed
    LatestArrives
    TerminalCloses

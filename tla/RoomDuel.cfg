SPECIFICATION Spec
CONSTANTS
    h1 = h1
    h2 = h2
    h3 = h3
    b1 = b1
    b2 = b2
    Human = {h1, h2}
    Bot = {b1}
    MatchSize = 2
    DebugCapacity = 3
    Countdown = 2
    MaxGeneration = 2
    Mode = "duel_1v1"
    TeamOf <- OwnTeam
    Teams <- AllTeams
SYMMETRY Interchangeable
CHECK_DEADLOCK FALSE
INVARIANTS
    OneLiveSession
    GraceMeansAbsent
    TimersMatchPhase
    PresentUntilPlay
    AbandonedRoomCountsDown
    RosterExact
PROPERTIES
    EndWaitsForSessions
    TimeLimitsHold
    ImplementsMatchPhase

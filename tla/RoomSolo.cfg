SPECIFICATION FairSpec
CONSTANTS
    h1 = h1
    h2 = h2
    h3 = h3
    b1 = b1
    b2 = b2
    Human = {h1, h2}
    Bot = {b1}
    MatchSize = 3
    DebugCapacity = 3
    Countdown = 1
    MaxGeneration = 1
    Mode = "solo"
    TeamOf <- OwnTeam
    Teams <- AllTeams
CHECK_DEADLOCK FALSE
INVARIANT
    EndedMeansDecided
PROPERTIES
    NoReattachAfterFinal
    MatchResolves
    EndedRoomIsReleased
    GraceResolves

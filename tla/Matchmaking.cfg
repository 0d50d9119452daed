SPECIFICATION FairSpec
CONSTANTS
    j1 = j1  j2 = j2  c1 = c1  a1 = a1
    None = None
    Joins = {j1, j2}
    Creators = {c1}
    Adders = {a1}
    Debug = {"bots", "start"}
    Modes = {"duel"}
    DefaultMode = "duel"
    Size <- SizeOf
    DebugCapacity = 3
    MaxRooms = 2
    Slots = 3
INVARIANTS SeatsAndIdsAgree NobodyWaitsApart
PROPERTIES RefusalIsHonest MatchComes
CHECK_DEADLOCK FALSE

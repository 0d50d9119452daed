SPECIFICATION Spec
CONSTANTS
    h1 = h1
    b1 = b1
    b2 = b2
    Humans = {h1}
    Bots = {b1, b2}
    Lineups <- SomeLineups
    Mode = "team"
    TeamOf <- RedAgainstBlue
    Teams = {"red", "blue"}
    MaxCharges <- ChargesOf
    RechargeTicks = 3
    CooldownTicks = 3
    DashTicks = 3
    AttackOffsets <- AttackSchedule
    SkillOffsets <- SkillSchedule
    MaxTick = 4
    MaxClientTick = 2
CHECK_DEADLOCK FALSE
INVARIANTS
    BurstOnSchedule
    BotFindsCharge
PROPERTIES
    PressSurvives
    PressesArePredictable
    ChargePromiseKept

SPECIFICATION Spec
CONSTANTS
    N = 3
    FreeForAll = FALSE
    TeamOf <- TwoAgainstOne
    MaxHP = 2
    MeleeDamage = 1
    Kinds = {"single", "volley"}
    Count <- Volleys
    Damage <- Damages
    Speed <- Speeds
    Reach <- Reaches
    Retention = 2
    MaxTick = 7
    MaxShots = 2
INVARIANT BooksAgree
PROPERTY ShownThenGone
CHECK_DEADLOCK FALSE

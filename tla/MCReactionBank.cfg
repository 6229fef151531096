SPECIFICATION BankSpec
CONSTANTS
    Personas = {plain, cheeky}
    Default = plain
    Commands <- ThereAndBack
    Keys = {lift, morning}
    MaxAttempts = 2
    MaxRetries = 1
    MaxRestarts = 2
    MaxRecipe = 1
    plain = plain
    cheeky = cheeky
    lift = lift
    morning = morning
SYMMETRY AnyKey
INVARIANT PersonaCovered
INVARIANT ResumesWhereItStopped
PROPERTY SupersededIsSilent
CHECK_DEADLOCK FALSE

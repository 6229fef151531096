SPECIFICATION MCSpec
CONSTANTS
    PathSpeed <- SteepCurve
    Jitter <- NoChance
    Clean <- CutName
    Asks <- ThreeAsks
    FirstAsk = "wave"
    SecondAsk = "joy"
    ThirdAsk = "big wave"
    Texts <- SomeTexts
    Alike <- SameWords
    Retention = 1
    MaxAttempts = 2
    Times = {1, 2}
    MaxMishaps = 2
    Drafts <- SomeDrafts
    Wished = {"", "bow and bow bow again"}
    MaxLines = 4
    Budgets = {1, 900, 3400, 8000}
INVARIANT PlaysWhatItNamed
INVARIANT OneOutcome
INVARIANT NoJobStranded
INVARIANT NeverHurried
INVARIANT ComesHome
INVARIANT PlaysTheSame
CHECK_DEADLOCK FALSE

SPECIFICATION FairChainSpec
CONSTANTS
    first = first
    second = second
    document = document
    Nothing = Nothing
    Document = document
    NodKind = "ALRIGHT"
    Chains = {first, second}
    Kinds = {"GOOD", "WHAT", "NO", "ALRIGHT", document}
    Kind <- TwoPresets
    Offset <- TwoOffsets
    Observed = {}
    Reports = {"motion.finished"}
    MaxLag = 0
    Window = 2
    Budget = 2
    MaxNods = 1
    MaxJolts = 0
    ColdLag = 1
    Timeout = 2
    AnchorWindow = 1
INVARIANT SerialOnRobot
INVARIANT RollingBudget
INVARIANT NoneStranded
PROPERTY ChainEnds

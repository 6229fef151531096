SPECIFICATION ChainSpec
CONSTANTS
    first = first
    second = second
    document = document
    Nothing = Nothing
    Document = document
    NodKind = "ALRIGHT"
    Chains = {first}
    Kinds = {"GOOD", "ALRIGHT", document}
    Kind <- OneMixed
    Offset <- OneMixedOffset
    Observed = {first}
    Reports = {"motion.finished", "emo_talk.finished", "newMessageMotion"}
    MaxLag = 1
    Window = 1
    Budget = 2
    MaxNods = 0
    MaxJolts = 1
    ColdLag = 1
    Timeout = 2
    AnchorWindow = 1
PROPERTY NotEarly

SPECIFICATION FairGateSpec
CONSTANTS
    Turns = {turn1, turn2}
    Generators = {bank, invention, extraction}
    NoCall = NoCall
INVARIANT OneCall
PROPERTY ForegroundServed
PROPERTY BackgroundResumes

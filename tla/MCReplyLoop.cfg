SPECIFICATION FairSpec
CONSTANTS
    h1 = h1
    h2 = h2
    x1 = x1
    x2 = x2
    x3 = x3
    says = says
    NoEvent = NoEvent
    Humans <- TwoHumans
    EchoOf <- ThreeEchoes
    Asides <- OneAside
    Setups <- SixSetups
    MaxInterruptions = 1
    MaxChunks = 2
    MaxAttempts = 2
    JobAttemptBound = 0
    Events <- MCEvents
    Kind <- MCKind
    ReceivedAt <- MCReceivedAt
    Persona <- MCPersona
    Generators <- NoGenerators
CHECK_DEADLOCK FALSE
INVARIANT SameWordsAgain
INVARIANT NeverSilent
INVARIANT EchoAnsweredOnlyIfLost
INVARIANT StreamCoherent
PROPERTY EventuallySettled

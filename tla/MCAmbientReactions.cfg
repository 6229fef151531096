SPECIFICATION Spec
CONSTANTS
    drop = drop
    settle = settle
    dusk = dusk
    dawn = dawn
    NoEvent = NoEvent
    Events <- MCEvents
    Kind <- MCKind
    ReceivedAt <- MCReceivedAt
    Persona <- MCPersona
    Shock <- MCShock
    Generators <- NoGenerators
    MaxAttempts = 2
    JobAttemptBound = 0
    MaxInterruptions = 1
    MaxFaults = 1
    ActiveCooldown = 1
    DefaultCooldown = 2
    Override = 1
    RadarCooldown = 2
    LightCooldown = 2
    Horizon = 2
SYMMETRY Lights2
VIEW InsertionOrderAside
CHECK_DEADLOCK FALSE
INVARIANT ReactionsApart
INVARIANT DramaKept
INVARIANT GreetingsApart
PROPERTY QuietForCause

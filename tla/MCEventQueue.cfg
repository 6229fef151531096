SPECIFICATION QueueSpec
CONSTANTS
    m1 = m1
    m2 = m2
    ack = ack
    jolt = jolt
    peer = peer
    cue = cue
    r1 = r1
    r2 = r2
    r3 = r3
    job1 = job1
    pA = pA
    pB = pB
    NoEvent = NoEvent
    Events <- Cast
    Kind <- CastKind
    ReceivedAt <- CastReceivedAt
    Persona <- Personas
    Generators <- BothGenerators
    MaxAttempts = 2
    JobAttemptBound = 2
    MaxInterruptions = 1
CONSTRAINT OneCast
CHECK_DEADLOCK FALSE
INVARIANT SingleFlight
PROPERTY ImplementsInbox

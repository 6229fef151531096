SPECIFICATION MemorySpec
CONSTANTS
    Topics = {trip, soup}
    NoTopic = NoTopic
    Always = Always
    RetentionTurns = 2
    RecentTurns = 2
    RetrievedTurns = 2
    Overfetch = 2
    Candidates = 3
    ScanCap = 3
    WindowCap = 3
    Households <- Talkers
    RotateTurns = 1
    RetentionEvents = 2
    Recalled = 2
    MaxAttempts = 1
    MaxDay = 2
    NoCount = NoCount
    trip = trip
    soup = soup
INVARIANT ConversationsRotate
CHECK_DEADLOCK FALSE

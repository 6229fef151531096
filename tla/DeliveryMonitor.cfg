SPECIFICATION FairSpec
CONSTANTS
    MaxAttempts = 3
    MaxRestarts = 1
INVARIANT Agreement
INVARIANT NoSecondVerdict
PROPERTY DeafnessNoticed
PROPERTY RegistrationsEnd

CONSTANTS
    MaxBlocks = 2
    Truth = 1
    Reserve = 2
    MaxDecisions = 2
    MaxHelpers = 1
    MaxInvalid = 2
    MaxAttempts = 2
    MaxCalls = 2
    KeptFrames = 1
    KeptHelpers = 1
    Steps = 1
SPECIFICATION Spec
INVARIANTS OnlyWholeCallsPlay SettledAtTheBill OneAcceptedAttempt ShownItsOwn ActsAreTheirActors MemoryIsHonest
CHECK_DEADLOCK FALSE

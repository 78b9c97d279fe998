SPECIFICATION FairSpec
CONSTANTS
    x = x
    Requests = {x}
    Window = 1
    PerSecond = 2
    Horizon = 1
    MaxPieces = 2
    KindsOf <- ConstKindsOf
    Sizes = {1, 2, 3, 4}
    Capacity = 3
    MaxFailures = 2
CHECK_DEADLOCK FALSE
INVARIANTS
    TypeOK
    StreamAccepted
    WholeAnswer
    FailureLeavesNoAnswer
    DeviceExact
PROPERTY Answered

SPECIFICATION Spec
CONSTANTS
    LengthBase = 3
    MaxLengthBytes = 4
    ClientPackets <- OneOfEach
    MaxSent = 1
    ReadSize = 6
    Transports = {"tcp", "ws"}
    NextId = 7
INVARIANTS
    PartialReadsAreHandled
CHECK_DEADLOCK FALSE

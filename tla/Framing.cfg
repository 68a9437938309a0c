SPECIFICATION FairSpec
CONSTANTS
    LengthBase = 3
    MaxLengthBytes = 4
    ClientPackets <- OneOfEach
    MaxSent = 2
    ReadSize = 6
    Transports = {"tcp", "ws"}
    NextId = 7
INVARIANTS
    FramingTypeOK
    BytesAreConserved
    NothingCompleteWaits
    FailsOnlyInLength
    OutboundIsStandard
PROPERTIES
    ImplementsPipe
    EverySentIsHandled
CHECK_DEADLOCK FALSE

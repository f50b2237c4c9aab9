SPECIFICATION FairSpec
CONSTANTS
    Capacity = 2
    BufSize = 2
    MaxData = 2
    MaxStreams = 2
INVARIANTS
    TypeOK
    EndsAgree
    ProtocolComesFirst
    NothingLost
PROPERTIES
    ImplementsByteChannel
    StreamResolves
    DataArrives
CHECK_DEADLOCK FALSE

\* The blocking strategy loses the wake-up for the shutdown event.
CONSTANTS
    Producers = {p1, p2}
    Closer = Closer
    BufferSize = 2
    Strategies = {"blocking"}
    OwnsPool = FALSE
    SinkConfig <- MCOneSink
    Messages <- MCErrors
    Shutdown = Shutdown
    NoPrefix = NoPrefix
    Subsystem = Subsystem
    Quota = 1
SPECIFICATION FairSpec
PROPERTY ShutdownReturns
CHECK_DEADLOCK FALSE

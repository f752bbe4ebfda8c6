\* Two producers and the owner, two sinks, both kinds of waiting.
CONSTANTS
    Producers = {p1, p2}
    Closer = Closer
    BufferSize = 2
    Strategies = {"spin", "blocking"}
    OwnsPool = TRUE
    SinkConfig <- MCSinkConfig
    Messages <- MCMessages
    Shutdown = Shutdown
    NoPrefix = NoPrefix
    Subsystem = Subsystem
    Quota = 1
SPECIFICATION FairSpec
INVARIANTS NothingLost GracefulShutdown
PROPERTIES UsesStream EveryEventWritten
CHECK_DEADLOCK FALSE

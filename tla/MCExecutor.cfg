CONSTANTS
    SyncObjects = {s1}
    AsyncObjects = {a1, a2}
    Queries <- MCQueries
    Sqlstates <- MCSqlstates
    MaxExecutes = 2
    MaxBlocks = 1
    MaxCombines = 1
    MaxMoves = 1
    MaxFaults = 1
    MaxEvents = 2
    Base = 4
SPECIFICATION Spec
INVARIANTS OutcomeHonest DefiniteErrors  HolderReturned PipelineSound
PROPERTIES ExecuteReturns

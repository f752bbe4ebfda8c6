\* Two producers, a ring of two slots, single and double claims.
CONSTANTS
    Producers = {p1, p2}
    BufferSize = 2
    BatchSizes = {2}
    Quota = 2
    None = None
SPECIFICATION FairSpec
INVARIANTS SlotExclusive SequencerInv
PROPERTIES RefinesStream EveryClaimDelivered
CHECK_DEADLOCK FALSE

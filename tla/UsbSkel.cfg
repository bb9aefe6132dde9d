SPECIFICATION FairSpec
CONSTANTS
    Tasks = {t1, t2}
    WritesInFlight = 2
    BulkInSize = 2
    MaxCount = 2
INVARIANTS LimitConserved NoUseAfterFree NoLeak NoUrbOnGoneDevice BufferOwned
PROPERTIES DisconnectCompletes CallsReturn

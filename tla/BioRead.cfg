\* Readers may all sleep for good: the program then stops.
CHECK_DEADLOCK FALSE
SPECIFICATION FairSpec
CONSTANTS
    Tasks = {t1, t2}
    MaxReads = 3
    MaxLen = 2
    IoErrors = TRUE
INVARIANTS NoDanglingBio
PROPERTIES QueuedReaderWoken LoneReaderSeesBlock

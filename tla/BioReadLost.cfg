\* Readers may all sleep for good: the program then stops.
CHECK_DEADLOCK FALSE
SPECIFICATION FairSpec
CONSTANTS
    Tasks = {t1}
    MaxReads = 1
    MaxLen = 1
    IoErrors = FALSE
PROPERTIES SleeperWoken

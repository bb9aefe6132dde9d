SPECIFICATION Spec
CONSTANTS
    Tasks = {t1, t2}
    WritesInFlight = 1
    BulkInSize = 1
    MaxCount = 1
PROPERTIES ResetNotified

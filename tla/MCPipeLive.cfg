SPECIFICATION FairSpec
CONSTANTS
    p1 = p1  p2 = p2 
    d1 = d1  zero = zero
    Procs = {p1, p2}
    Resetters = {}
    BufLen = 3
    Data = {d1}
    Zero = zero
    MaxCount = 2
INVARIANTS WriterNotStranded
PROPERTIES ReaderProgress WriterProgress SemaphoreProgress

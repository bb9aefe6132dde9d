SPECIFICATION Spec
CONSTANTS
    p1 = p1  p2 = p2
    d1 = d1  d2 = d2  zero = zero
    Procs = {p1, p2}
    Resetters = {p1, p2}
    BufLen = 3
    Data = {d1, d2}
    Zero = zero
    MaxCount = 2
SYMMETRY ThreadSymmetry
INVARIANTS SemaphoreBalanced CopyInBounds ReaderNotStranded
PROPERTIES FifoOrder ImplementsChannel

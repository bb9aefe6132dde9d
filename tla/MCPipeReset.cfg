SPECIFICATION Spec
CONSTANTS
    p1 = p1  p2 = p2
    d1 = d1  zero = zero
    Procs = {p1, p2}
    Resetters = {p2}
    BufLen = 2
    Data = {d1}
    Zero = zero
    MaxCount = 1
INVARIANTS WriterNotStranded

SPECIFICATION FairSpec
CONSTANTS
    Cpus = {c1, c2}
    None = None
    MaxPress = 4
    MaxCount = 2
INVARIANTS NoSelfDeadlock CountMatchesList NoUseAfterFree NoLeak
PROPERTIES CallsReturn KeyHandled ImplementsAtomicKeys

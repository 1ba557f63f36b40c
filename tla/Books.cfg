SPECIFICATION FairSpec
CONSTANTS
    Books = {b1}
    MaxCalls = 3
    Fractions = {0, 1}
    MaxFaults = 1
INVARIANT IndexedIsThere ProgressKept
PROPERTY RemovedStaysOut ImplementsAtomicShelf CallsReturn

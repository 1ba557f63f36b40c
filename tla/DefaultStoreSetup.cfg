SPECIFICATION FairSpec
CONSTANTS
    Calls = {c1, c2}
    Watcher = Watcher
    NoCall = NoCall
    MaxFaults = 3
INVARIANT MarkedMeansRegistered
PROPERTY RemovalStays SetupCompletes

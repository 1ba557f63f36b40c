SPECIFICATION Spec
CONSTANTS
    Calls = {c1, c2}
    Watcher = Watcher
    NoCall = NoCall
    MaxFaults = 3
PROPERTY RemovalRespected

SPECIFICATION FairSpec
CONSTANTS
    s1 = s1
    w1 = w1
    w2 = w2
    jar = jar
    lib = lib
    helper = helper
    Servers <- MCServers
    Webviews <- MCWebviews
    Parts <- MCParts
    PartsOf <- MCPartsOf
    Jar = jar
    Nothing = Nothing
    Bad = Bad
    MaxAttempts = 2
    MaxCheckouts = 2
    MaxFaults = 2
INVARIANT ReadyIsWhole ReleaseMeansWhole EngineSeesWebview
PROPERTY BootstrapSucceeds

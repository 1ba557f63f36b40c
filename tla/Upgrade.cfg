SPECIFICATION FairSpec
CONSTANTS
    Newest = 3
    Items = {database, settings}
    Contents = {c1, c2}
    Missing = Missing
    LegacyReturns = FALSE
    MaxBackups = 4
    MaxFaults = 2
PROPERTY SnapshotBeforeOpen NoDowngrade SnapshotsAreFinal UpgradeSucceeds

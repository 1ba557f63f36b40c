SPECIFICATION MCSpec
CONSTANTS
    Dirs = {dirA, dirB}
    FirstDir = dirA
    Files = {f1, f2, p1, p2, p3, p4}
    FirstFile = f1
    Partials = {p1, p2, p3, p4}
    Contents = {c1, c2}
    FirstContent = c1
    Absent = Absent
    MaxEdits = 1
    MaxFaults = 2
INVARIANT ServedComplete
PROPERTY OriginalsUntilCommit NeverOverwrites ImplementsSafeMove JournalResolves

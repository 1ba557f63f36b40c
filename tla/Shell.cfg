SPECIFICATION FairSpec
CONSTANTS
    Dirs = {dirA, dirB}
    Books = {b1}
    Nobody = Nobody
    EarlyMenu = FALSE
    MaxFaults = 2
INVARIANT MoveAlone EngineFollowsSettings BooksNeverLost OrderlyBooksServed
PROPERTY NoExitDuringMove BusyEnds OrderlyMoveResolves

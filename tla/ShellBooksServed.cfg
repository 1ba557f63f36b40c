SPECIFICATION Spec
CONSTANTS
    Dirs = {dirA, dirB}
    Books = {b1}
    Nobody = Nobody
    EarlyMenu = FALSE
    MaxFaults = 0
INVARIANT BooksServed

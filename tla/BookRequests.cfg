SPECIFICATION FairSpec
CONSTANTS
    gutenberg = gutenberg
    home = home
    clear = clear
    BuiltIn = gutenberg
    Urls <- MCUrls
    Approval <- MCApproval
    Calls <- MCCalls
    Asked <- MCAsked
    CoverSizes <- MCCovers
    BookSize = 3
    MaxRedirects = 1
    MaxSafe = 99
INVARIANT RequestsAllowed CatalogsDistinct TempsCleaned ServedExactly
PROPERTY CallsEnd

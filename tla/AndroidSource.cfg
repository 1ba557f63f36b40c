SPECIFICATION FairSpec
CONSTANTS
    notice = notice
    license = license
    noticeCopy = noticeCopy
    licenseCopy = licenseCopy
    Updated = {gradle}
    Templates = {store}
    Icon = icon
    Written = {notice}
    Replaced = {}
    CopyOf <- MCCopyOf
    Kept = {license}
    Service = service
    Recipes = {r1, r2}
    Absent = Absent
    Upstream = Upstream
    Edited = Edited
    MaxCheckouts = 2
    MaxEdits = 1
    MaxFaults = 2
INVARIANT ReceiptIsTrue ShippedIsPrepared
PROPERTY EditsKept PreparationSucceeds

CONSTANTS
    Cookies      <- MCCookies
    Urls         <- MCUrls
    MaxPath      = 2
    MaxTime      = 2
    MaxForDomain = 2
SPECIFICATION Spec
INVARIANTS
    TypeOK
    UniqueKeys
    RestoreKeepsCookies
PROPERTIES
    AddedIsSent
    PageCleared

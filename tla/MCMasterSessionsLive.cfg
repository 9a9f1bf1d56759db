CONSTANTS
    l1 = l1
    a1 = a1
    NoLink = NoLink
    NoAccount = NoAccount
    Links = {l1}
    Accounts = {a1}
    Slots = {0}
    Workers = 1
    OldAccounts = {a1}
    Deletable = {a1}
    ForeignKeys = TRUE
    DbMayFail = TRUE
    MaxLogins = 2
    MaxProgress = 2
    MaxRequests = 1
SPECIFICATION FairSpec
PROPERTIES
    JoinsAnswered
    OfflineSaved
CHECK_DEADLOCK FALSE

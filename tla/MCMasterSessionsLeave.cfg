CONSTANTS
    l1 = l1
    a1 = a1
    NoLink = NoLink
    NoAccount = NoAccount
    Links = {l1}
    Accounts = {a1}
    Slots = {0, 1}
    Workers = 2
    OldAccounts = {a1}
    Deletable = {}
    ForeignKeys = TRUE
    DbMayFail = TRUE
    MaxLogins = 2
    MaxProgress = 2
    MaxRequests = 0
SPECIFICATION Spec
INVARIANTS
    PlayingIsOnline
CHECK_DEADLOCK FALSE

CONSTANTS
    l1 = l1
    a1 = a1
    a2 = a2
    NoLink = NoLink
    NoAccount = NoAccount
    Links = {l1}
    Accounts = {a1, a2}
    Slots = {0}
    Workers = 2
    OldAccounts = {a1}
    Deletable = {}
    ForeignKeys = TRUE
    DbMayFail = TRUE
    MaxLogins = 2
    MaxProgress = 2
    MaxRequests = 0
SPECIFICATION Spec
INVARIANTS
    OnlineOnOpenLink
CHECK_DEADLOCK FALSE

CONSTANTS
    l1 = l1
    l2 = l2
    a1 = a1
    a2 = a2
    NoLink = NoLink
    NoAccount = NoAccount
    Links = {l1, l2}
    Accounts = {a1, a2}
    Slots = {0, 1}
    Workers = 2
    OldAccounts = {a1}
    Deletable = {a1}
    ForeignKeys = TRUE
    DbMayFail = FALSE
    MaxLogins = 2
    MaxProgress = 3
    MaxRequests = 1
SYMMETRY Symmetry
CONSTRAINT ShortQueues
SPECIFICATION MCSpec
INVARIANTS
    SavesKept
    OneFlushAtATime
    TypeOK
    SlotsNamePlayers
    StoppedSaved
PROPERTIES
    NoLateWrite
CHECK_DEADLOCK FALSE

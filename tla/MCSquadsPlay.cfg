CONSTANTS
    c1 = c1
    c2 = c2
    a1 = a1
    a2 = a2
    Clients = {c1, c2}
    NoClient = NoClient
    Accounts = {a1, a2}
    NoAccount = NoAccount
    DevAccounts = {a2}
    Anonymous = {a1}
    NumSquads = 2
    SquadSize = 2
    ActionTicks = 0
    VoteTicks = 1
    ReconnectTicks = 0
SYMMETRY Symmetry
CONSTRAINTS
    FewAtOnce
    OnePlays
SPECIFICATION Spec
INVARIANTS
    TypeOK
    PlayingHasPlayer
    SquadsConsistent
    SeatsMatchMembers
    OneSessionPerAccount
PROPERTIES
    LockedOutOnlyByKick

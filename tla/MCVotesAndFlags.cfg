CONSTANTS
    c1 = c1
    c2 = c2
    c3 = c3
    a1 = a1
    a2 = a2
    a3 = a3
    Clients = {c1, c2, c3}
    NoClient = NoClient
    Accounts = {a1, a2, a3}
    NoAccount = NoAccount
    DevAccounts = {}
    Anonymous = {}
    NumSquads = 1
    SquadSize = 3
    ActionTicks = 0
    VoteTicks = 1
    ReconnectTicks = 0
    TeamCount = 3
    FlagsPerTeam = 1
    PlayerCount = 2
    SetupTicks = 2
    ReturnTicks = 1
SYMMETRY Symmetry
CONSTRAINTS
    NoneKicked
    NobodyPlays
SPECIFICATION BothSpec
INVARIANTS
    BallotsTimed
    FlagsConsistent
PROPERTIES
    VoteKickIsUnanimous
    BankIsSafe
    SpoilsStayInPlay
CHECK_DEADLOCK FALSE

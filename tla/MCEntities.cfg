CONSTANTS
    a1 = a1
    a2 = a2
    MaxClients = 2
    MaxEntities = 4
    Accounts = {a1, a2}
    NoAccount = NoAccount
SYMMETRY Symmetry
CONSTRAINTS
    FewEntities
    OneLeaves
    OneMessage
    QuickFirst
    RareOnesAlone
SPECIFICATION Spec
INVARIANTS
    TypeOK
    PlayersLinked
    WorldAgrees
    DropsOnce
CHECK_DEADLOCK FALSE

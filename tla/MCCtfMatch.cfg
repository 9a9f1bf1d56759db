CONSTANTS
    c1 = c1
    c2 = c2
    a1 = a1
    a2 = a2
    NoClient = NoClient
    NoAccount = NoAccount
    Clients = {c1, c2}
    Accounts = {a1, a2}
    NumSquads = 2
    SquadSize = 2
    MaxTeams = 2
    Modes = {"ctf", "tdm", "has"}
SYMMETRY Symmetry
SPECIFICATION Spec
INVARIANTS
    TypeOK
    LinksAgree
    RealDataKept
PROPERTIES
    
    DesertedMatchAdvances

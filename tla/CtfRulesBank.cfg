CONSTANTS
    TeamCount = 3
    FlagsPerTeam = 1
    PlayerCount = 2
    SetupTicks = 2
    ReturnTicks = 1
SPECIFICATION RulesSpec
INVARIANTS
    OutTeamsHaveNoBank
CHECK_DEADLOCK FALSE
